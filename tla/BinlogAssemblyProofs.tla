------------------------- MODULE BinlogAssemblyProofs ------------------------
(***************************************************************************)
(* That what the iterator returns is what was committed, for logs and      *)
(* transactions of any length: see the theorems at the end.                *)
(***************************************************************************)
EXTENDS BinlogAssembly, DataInduction, SequenceTheorems

-----------------------------------------------------------------------------
(* What is in the log, and in the iterator.                                 *)

Written    == {stmt \in Statement : HasImages(stmt)}
GtidEvent  == [type : {"GTID"}, gtid : Gtid]
QueryEvent == [type : {"QUERY"}, kind : {"row", "non_row"}]
RowEvent   == {RowsEvent(stmt) : stmt \in Written}
EndEvent   == [type : {"XID", "XA_PREPARE"}]
LogEvent   == GtidEvent \cup QueryEvent \cup TableMap \cup RowEvent \cup EndEvent

\* Rows never come first: another ROWS event or a TABLE_MAP is before them.
RowsFollow(es) ==
  \A i \in DOMAIN es : es[i].type = "ROWS" => /\ i - 1 \in DOMAIN es
                                              /\ es[i - 1].type \in {"TABLE_MAP", "ROWS"}
NoRows(es) == \A i \in DOMAIN es : es[i].type # "ROWS"
Batch == {es \in Seq(LogEvent) : Len(es) > 0 /\ RowsFollow(es)}

Iterator == [current : Transaction \cup {None}, pending : Seq(Change),
             tableMap : TableMap \cup {None}, rowCount : Nat, rowBytes : Nat,
             tooLarge : BOOLEAN, markerActionIDs : SUBSET Image]
Open     == {it \in Iterator : it.current # None}
Commits  == [gtid : Gtid, how : How, changes : Seq(Change), actions : SUBSET Image]
Returned == [txn : Transaction, markers : SUBSET Image]

\* What the clients run, and the DDL of ALTER TABLE.
Run == {w \in Shape : \A i \in DOMAIN w.stmts : HasImages(w.stmts[i])}

LEMMA WorkloadRuns == Workload \subseteq Run
BY BinlogAssumption DEF Run

LEMMA RunStatements ==
  ASSUME NEW w \in Run
  PROVE  /\ w \in Shape /\ w.stmts \in Seq(Statement) /\ Len(w.stmts) \in Nat
         /\ DOMAIN w.stmts = 1 .. Len(w.stmts)
         /\ \A i \in 1 .. Len(w.stmts) : w.stmts[i] \in Written
BY DEF Run, Shape, Written

-----------------------------------------------------------------------------
(* The events of a transaction.                                             *)

LEMMA EventTypes ==
  /\ \A e \in GtidEvent : e.type = "GTID" /\ e.gtid \in Gtid
  /\ \A e \in QueryEvent : e.type = "QUERY"
  /\ \A e \in TableMap : e.type = "TABLE_MAP"
  /\ \A e \in RowEvent : e.type = "ROWS"
  /\ \A e \in EndEvent : e.type \in {"XID", "XA_PREPARE"}
BY DEF GtidEvent, QueryEvent, TableMap, RowEvent, RowsEvent, EndEvent

LEMMA StatementEventsAre ==
  ASSUME NEW w \in Run, names \in [Table -> Names]
  PROVE  /\ StatementEvents(w) \in Seq(LogEvent)
         /\ Len(StatementEvents(w)) = 2 * Len(w.stmts)
         /\ RowsFollow(StatementEvents(w))
         /\ ~w.joined => \A i \in 1 .. Len(w.stmts) :
              /\ StatementEvents(w)[2 * i - 1] \in TableMap
              /\ StatementEvents(w)[2 * i - 1].table = w.stmts[i].table
              /\ StatementEvents(w)[2 * i] = RowsEvent(w.stmts[i])
<1> DEFINE n == Len(w.stmts)
           es == StatementEvents(w)
           M(i) == MapEvent(w.stmts[i])
           R(i) == RowsEvent(w.stmts[i])
<1>1. n \in Nat /\ \A i \in 1 .. n : w.stmts[i] \in Written /\ w.stmts[i].table \in Table
  BY RunStatements DEF Written, Statement
<1>2. \A i \in 1 .. n : /\ M(i) \in TableMap /\ M(i).table = w.stmts[i].table
                        /\ M(i).type = "TABLE_MAP"
  BY <1>1 DEF MapEvent, TableMap
<1>3. \A i \in 1 .. n : R(i) \in RowEvent /\ R(i).type = "ROWS"
  BY <1>1 DEF RowEvent, RowsEvent
<1> HIDE DEF M, R
<1>4. es = [i \in 1 .. 2 * n |->
              IF w.joined THEN IF i <= n THEN M(i) ELSE R(i - n)
                          ELSE IF i % 2 = 1 THEN M((i + 1) \div 2) ELSE R(i \div 2)]
  BY DEF StatementEvents, M, R
<1> HIDE DEF n, es
<1>5. DOMAIN es = 1 .. 2 * n
  BY <1>4
<1>6. \A i \in 1 .. 2 * n : i % 2 = 1 => (i + 1) \div 2 \in 1 .. n
  BY <1>1
<1>7. \A i \in 1 .. 2 * n : i % 2 # 1 => i \div 2 \in 1 .. n
  BY <1>1
<1>8. \A i \in 1 .. 2 * n : es[i] \in TableMap \cup RowEvent
  <2> SUFFICES ASSUME NEW i \in 1 .. 2 * n PROVE es[i] \in TableMap \cup RowEvent
    OBVIOUS
  <2>1. CASE w.joined
    <3>1. CASE i <= n
      BY <1>1, <1>2, <1>4, <2>1, <3>1
    <3>2. CASE ~(i <= n)
      <4>1. i - n \in 1 .. n
        BY <1>1, <3>2
      <4> QED BY <1>3, <1>4, <2>1, <3>2, <4>1
    <3> QED BY <3>1, <3>2
  <2>2. CASE ~w.joined
    <3>1. CASE i % 2 = 1
      BY <1>2, <1>4, <1>6, <2>2, <3>1
    <3>2. CASE i % 2 # 1
      BY <1>3, <1>4, <1>7, <2>2, <3>2
    <3> QED BY <3>1, <3>2
  <2> QED BY <2>1, <2>2
<1>9. es \in Seq(LogEvent) /\ Len(es) = 2 * n
  <2>1. es \in [1 .. 2 * n -> LogEvent] /\ 2 * n \in Nat
    BY <1>1, <1>4, <1>5, <1>8 DEF LogEvent
  <2> QED BY <2>1
<1>10. RowsFollow(es)
  <2> SUFFICES ASSUME NEW i \in 1 .. 2 * n, es[i].type = "ROWS"
               PROVE  i - 1 \in 1 .. 2 * n /\ es[i - 1].type \in {"TABLE_MAP", "ROWS"}
    BY <1>5 DEF RowsFollow
  <2>1. i # 1
    <3> SUFFICES ASSUME i = 1 PROVE FALSE
      OBVIOUS
    <3>1. 1 \in 1 .. n /\ 1 \in 1 .. 2 * n
      BY <1>1
    <3>2. es[1] = M(1)
      BY <1>1, <1>4, <3>1
    <3> QED BY <1>2, <3>1, <3>2
  <2>2. i - 1 \in 1 .. 2 * n
    BY <1>1, <2>1
  <2> QED BY <1>8, <2>2, EventTypes
<1>11. ASSUME ~w.joined, NEW i \in 1 .. n
       PROVE  es[2 * i - 1] = M(i) /\ es[2 * i] = R(i)
  <2>1. /\ 2 * i - 1 \in 1 .. 2 * n /\ (2 * i - 1) % 2 = 1 /\ ((2 * i - 1) + 1) \div 2 = i
        /\ 2 * i \in 1 .. 2 * n /\ (2 * i) % 2 # 1 /\ (2 * i) \div 2 = i
    BY <1>1
  <2> QED BY <1>4, <1>11, <2>1
<1> QED BY <1>2, <1>9, <1>10, <1>11 DEF n, es, R

\* The rows of a transaction stand between other events.
LaidOut(g, x, y, z) == <<g>> \o (x \o y \o z)
Holds(es, x, y, z) == /\ Len(es) = 1 + Len(x) + Len(y) + Len(z)
                      /\ \A i \in 1 .. Len(x) : es[1 + i] = x[i]
                      /\ \A i \in 1 .. Len(y) : es[1 + Len(x) + i] = y[i]
                      /\ \A i \in 1 .. Len(z) : es[1 + Len(x) + Len(y) + i] = z[i]
LEMMA Layout ==
  ASSUME NEW g \in GtidEvent, NEW x \in Seq(LogEvent), NEW y \in Seq(LogEvent),
         NEW z \in Seq(LogEvent), NoRows(x), NoRows(z), RowsFollow(y)
  PROVE  /\ LaidOut(g, x, y, z) \in Batch /\ LaidOut(g, x, y, z)[1] = g
         /\ Holds(LaidOut(g, x, y, z), x, y, z)
<1> DEFINE es == <<g>> \o (x \o y \o z)
           m == 1 + Len(x)
           n == Len(y)
           l == Len(z)
<1>1. m \in Nat /\ n \in Nat /\ l \in Nat /\ m >= 1
  OBVIOUS
<1>2. es \in Seq(LogEvent) /\ Len(es) = m + n + l
  <2>1. <<g>> \in Seq(LogEvent)
    BY DEF LogEvent
  <2>2. x \o y \o z \in Seq(LogEvent) /\ Len(x \o y \o z) = Len(x) + n + l
    OBVIOUS
  <2> QED BY <2>1, <2>2
<1>3. \A i \in 1 .. m + n + l :
        es[i] = IF i = 1 THEN g ELSE IF i <= m THEN x[i - 1]
                ELSE IF i <= m + n THEN y[i - m] ELSE z[i - m - n]
  <2>1. \A i \in 1 .. Len(x) + n + l :
          (x \o y \o z)[i] = IF i <= Len(x) THEN x[i] ELSE IF i <= Len(x) + n THEN y[i - Len(x)]
                             ELSE z[i - Len(x) - n]
    OBVIOUS
  <2>2. /\ <<g>> \in Seq(LogEvent) /\ Len(<<g>>) = 1 /\ <<g>>[1] = g
        /\ x \o y \o z \in Seq(LogEvent) /\ Len(x \o y \o z) = Len(x) + n + l
    BY DEF LogEvent
  <2>3. \A i \in 1 .. m + n + l : es[i] = IF i = 1 THEN g ELSE (x \o y \o z)[i - 1]
    BY <2>2
  <2> SUFFICES ASSUME NEW i \in 1 .. m + n + l, i # 1
               PROVE  es[i] = IF i <= m THEN x[i - 1]
                              ELSE IF i <= m + n THEN y[i - m] ELSE z[i - m - n]
    BY <2>3
  <2> DEFINE j == i - 1
             k == Len(x)
  <2>4. j \in 1 .. k + n + l /\ m = 1 + k /\ i - m = j - k /\ i - m - n = j - k - n
    BY <1>1
  <2>5. k \in Nat
    OBVIOUS
  <2>6. es[i] = IF j <= k THEN x[j] ELSE IF j <= k + n THEN y[j - k] ELSE z[j - k - n]
    BY <2>1, <2>3, <2>4
  <2> HIDE DEF m, n, l, k
  <2>7. (i <= m <=> j <= k) /\ (i <= m + n <=> j <= k + n) /\ x[i - 1] = x[j]
        /\ y[i - m] = y[j - k] /\ z[i - m - n] = z[j - k - n]
    BY <1>1, <2>4, <2>5
  <2> HIDE DEF j
  <2> QED BY <2>6, <2>7
<1>4. NoRows(x) /\ NoRows(z) /\ RowsFollow(y) /\ g.type # "ROWS"
      /\ DOMAIN x = 1 .. m - 1 /\ DOMAIN y = 1 .. n /\ DOMAIN z = 1 .. l
  BY EventTypes
<1>5. DOMAIN es = 1 .. m + n + l
  BY <1>2
<1> HIDE DEF es, m, n, l
<1>6. ASSUME NEW i \in 1 .. m + n + l, es[i].type = "ROWS"
      PROVE  i - 1 \in 1 .. m + n + l /\ es[i - 1].type \in {"TABLE_MAP", "ROWS"}
  <2>1. i > m /\ i <= m + n /\ y[i - m].type = "ROWS" /\ i - m \in 1 .. n
    <3>1. i # 1
      BY <1>3, <1>4, <1>6
    <3>2. ~(i <= m)
      <4>1. i <= m => i - 1 \in 1 .. m - 1
        BY <1>1, <3>1
      <4> QED BY <1>3, <1>4, <1>6, <3>1, <4>1 DEF NoRows
    <3>3. i <= m + n
      <4>1. ~(i <= m + n) => i - m - n \in 1 .. l
        BY <1>1
      <4> QED BY <1>3, <1>4, <1>6, <3>1, <3>2, <4>1 DEF NoRows
    <3>4. es[i] = y[i - m]
      BY <1>3, <3>1, <3>2, <3>3
    <3>5. i - m \in 1 .. n
      BY <1>1, <3>2, <3>3
    <3>6. i > m
      BY <1>1, <3>2
    <3> QED BY <1>6, <3>3, <3>4, <3>5, <3>6
  <2>2. (i - m) - 1 \in 1 .. n /\ y[(i - m) - 1].type \in {"TABLE_MAP", "ROWS"}
    BY <1>4, <2>1 DEF RowsFollow
  <2>3. es[i - 1] = y[(i - m) - 1] /\ i - 1 \in 1 .. m + n + l
    <3>1. /\ i - 1 \in 1 .. m + n + l /\ ~(i - 1 <= m) /\ i - 1 <= m + n
          /\ (i - 1) - m = (i - m) - 1 /\ i - 1 # 1
      BY <1>1, <2>1, <2>2
    <3> QED BY <1>3, <3>1
  <2> QED BY <2>2, <2>3
<1>7. es \in Batch
  <2>1. Len(es) > 0
    BY <1>1, <1>2
  <2>2. RowsFollow(es)
    BY <1>5, <1>6 DEF RowsFollow
  <2> QED BY <1>2, <2>1, <2>2 DEF Batch
<1>8. es[1] = g
  BY <1>1, <1>3
<1>9. ASSUME NEW i \in 1 .. m - 1 PROVE es[1 + i] = x[i]
  <2>1. 1 + i \in 1 .. m + n + l /\ 1 + i # 1 /\ 1 + i <= m /\ (1 + i) - 1 = i
    BY <1>1
  <2> QED BY <1>3, <2>1
<1>10. ASSUME NEW i \in 1 .. n PROVE es[m + i] = y[i]
  <2>1. /\ m + i \in 1 .. m + n + l /\ m + i # 1 /\ ~(m + i <= m) /\ m + i <= m + n
        /\ (m + i) - m = i
    BY <1>1
  <2> QED BY <1>3, <2>1
<1>11. ASSUME NEW i \in 1 .. l PROVE es[m + n + i] = z[i]
  <2>1. /\ m + n + i \in 1 .. m + n + l /\ m + n + i # 1 /\ ~(m + n + i <= m)
        /\ ~(m + n + i <= m + n) /\ (m + n + i) - m - n = i
    BY <1>1
  <2> QED BY <1>3, <2>1
<1>12. Len(x) = m - 1 /\ Len(x) \in Nat
  BY DEF m
<1>13. LaidOut(g, x, y, z) = es
  BY DEF LaidOut, es
<1>14. Holds(es, x, y, z)
  BY <1>1, <1>2, <1>9, <1>10, <1>11, <1>12 DEF Holds, m, n, l
<1> QED BY <1>7, <1>8, <1>13, <1>14

LEMMA EventsAre ==
  ASSUME NEW w \in Run, names \in [Table -> Names], NEW gtid \in Gtid
  PROVE  /\ EventsOf(gtid, w) \in Batch
         /\ EventsOf(gtid, w)[1] = [type |-> "GTID", gtid |-> gtid]
<1> DEFINE g   == [type |-> "GTID", gtid |-> gtid]
           row == Query("row")
           non == Query("non_row")
           xid == [type |-> "XID"]
           xap == [type |-> "XA_PREPARE"]
           se  == StatementEvents(w)
           es  == EventsOf(gtid, w)
           Fits(x, z) == x \in Seq(LogEvent) /\ z \in Seq(LogEvent) /\ NoRows(x) /\ NoRows(z)
<1>1. /\ g \in GtidEvent /\ row \in LogEvent /\ non \in LogEvent /\ xid \in LogEvent
      /\ xap \in LogEvent /\ row.type # "ROWS" /\ non.type # "ROWS" /\ xid.type # "ROWS"
      /\ xap.type # "ROWS"
  BY DEF LogEvent, GtidEvent, QueryEvent, EndEvent, Query
<1>2. se \in Seq(LogEvent) /\ RowsFollow(se)
  BY StatementEventsAre
<1>3. w.how \in {"commit", "ddl", "create_select", "xa_prepare", "autocommit"}
  BY DEF Run, Shape, How
<1>4. w.how = "commit" => es = <<g>> \o (<<row>> \o se \o <<xid>>)
  BY DEF EventsOf
<1>5. w.how = "ddl" => es = <<g>> \o <<non>>
  BY DEF EventsOf
<1>6. w.how = "create_select" => es = <<g>> \o (<<row, non>> \o se \o <<xid>>)
  BY DEF EventsOf
<1>7. w.how = "xa_prepare" => es = <<g>> \o (<<row>> \o se \o <<row, xap>>)
  BY DEF EventsOf
<1>8. w.how = "autocommit" => es = <<g>> \o (<<row>> \o se \o <<row>>)
  BY DEF EventsOf
<1> HIDE DEF g, row, non, xid, xap, se, es
<1>9. /\ Fits(<<row>>, <<xid>>) /\ Fits(<<row, non>>, <<xid>>) /\ Fits(<<row>>, <<row, xap>>)
      /\ Fits(<<row>>, <<row>>) /\ Fits(<<non>>, <<>>)
  BY <1>1 DEF NoRows
<1>10. ASSUME NEW x, NEW z, Fits(x, z), es = <<g>> \o (x \o se \o z)
       PROVE  es \in Batch /\ es[1] = g
  <2>1. es = LaidOut(g, x, se, z)
    BY <1>10 DEF LaidOut
  <2>2. NoRows(x) /\ NoRows(z) /\ x \in Seq(LogEvent) /\ z \in Seq(LogEvent)
    BY <1>10
  <2>3. LaidOut(g, x, se, z) \in Batch /\ LaidOut(g, x, se, z)[1] = g
    BY <1>1, <1>2, <2>2, Layout
  <2> QED BY <2>1, <2>3
<1>11. CASE w.how = "ddl"
  <2> DEFINE one  == <<non>>
             zero == <<>>
  <2>1. one \o zero \o zero = one
    BY <1>1
  <2>2. /\ RowsFollow(zero) /\ zero \in Seq(LogEvent) /\ one \in Seq(LogEvent)
        /\ NoRows(zero) /\ NoRows(one)
    BY <1>9 DEF RowsFollow
  <2>3. es = LaidOut(g, one, zero, zero)
    BY <1>5, <1>11, <2>1 DEF LaidOut
  <2> HIDE DEF one, zero
  <2>4. LaidOut(g, one, zero, zero) \in Batch /\ LaidOut(g, one, zero, zero)[1] = g
    BY <1>1, <2>2, Layout
  <2> QED BY <2>3, <2>4 DEF g, es
<1>12. CASE w.how # "ddl"
  <2> HIDE DEF Fits
  <2>1. es \in Batch /\ es[1] = g
    BY <1>3, <1>4, <1>6, <1>7, <1>8, <1>9, <1>10, <1>12
  <2> QED BY <2>1 DEF g, es
<1> QED BY <1>11, <1>12

-----------------------------------------------------------------------------
(* What the recursive definitions compute.                                  *)

LEMMA StatementChangesType ==
  ASSUME NEW stmt \in Statement
  PROVE  /\ StatementChanges(stmt) \in Seq(Change)
         /\ Len(StatementChanges(stmt)) = Len(stmt.rows)
<1>1. stmt.rows \in Seq(Images) /\ stmt.table \in Table /\ stmt.op \in OpKind
  BY DEF Statement
<1>2. \A j \in DOMAIN stmt.rows : StatementChanges(stmt)[j] \in Change
  <2> SUFFICES ASSUME NEW j \in DOMAIN stmt.rows PROVE StatementChanges(stmt)[j] \in Change
    OBVIOUS
  <2>1. stmt.rows[j] \in Images
    BY <1>1
  <2>2. stmt.rows[j].before \in Row /\ stmt.rows[j].after \in Row
    BY <2>1 DEF Images
  <2> QED BY <1>1, <2>2 DEF StatementChanges, Change
<1>4. Len(stmt.rows) \in Nat /\ DOMAIN stmt.rows = 1 .. Len(stmt.rows)
  BY <1>1
<1>3. StatementChanges(stmt) \in [1 .. Len(stmt.rows) -> Change]
  <2>1. StatementChanges(stmt) = [j \in 1 .. Len(stmt.rows) |-> StatementChanges(stmt)[j]]
    BY <1>4 DEF StatementChanges
  <2> QED BY <1>2, <1>4, <2>1
<1> QED BY <1>3, <1>4

LEMMA UserChangesIs ==
  ASSUME NEW w \in Shape
  PROVE  /\ UserChanges(w) \in [0 .. Len(w.stmts) -> Seq(Change)]
         /\ UserChanges(w)[0] = <<>>
         /\ \A i \in 1 .. Len(w.stmts) :
              UserChanges(w)[i] = IF w.stmts[i].table \in SystemTable THEN UserChanges(w)[i - 1]
                                  ELSE UserChanges(w)[i - 1] \o StatementChanges(w.stmts[i])
<1> DEFINE n == Len(w.stmts)
           V == Seq(Change)
           Body(prev, i) == IF w.stmts[i].table \in SystemTable THEN prev
                            ELSE prev \o StatementChanges(w.stmts[i])
           step == [i \in 1 .. n |-> [prev \in V |-> Body(prev, i)]]
           empty == <<>>
<1>1. w.stmts \in Seq(Statement) /\ n \in Nat
  BY DEF Shape
<1>2. \A i \in 1 .. n : StatementChanges(w.stmts[i]) \in Seq(Change)
  BY <1>1, StatementChangesType
<1>3. step \in Steps(n, V)
  BY <1>2 DEF Steps
<1>4. empty \in V
  OBVIOUS
<1>5. PICK f : f \in Solutions(n, V, empty, step)
  <2> HIDE DEF V, step, n, Body, empty
  <2> QED BY <1>1, <1>3, <1>4, RecursionTo
<1> DEFINE Solves(g) == g = [i \in 0 .. n |-> IF i = 0 THEN <<>> ELSE Body(g[i - 1], i)]
<1>6. Solves(f)
  <2>1. \A i \in 1 .. n : f[i] = Body(f[i - 1], i)
    <3> SUFFICES ASSUME NEW i \in 1 .. n PROVE f[i] = Body(f[i - 1], i)
      OBVIOUS
    <3>1. f[i - 1] \in V
      BY <1>1, <1>5 DEF Solutions
    <3>2. step[i][f[i - 1]] = Body(f[i - 1], i)
      BY <3>1
    <3> QED BY <1>5, <3>2 DEF Solutions
  <2> HIDE DEF Body, V
  <2> QED BY <1>5, <2>1 DEF Solutions
<1>7. UserChanges(w) = CHOOSE g : Solves(g)
  BY DEF UserChanges
<1>8. Solves(UserChanges(w))
  <2> HIDE DEF Solves
  <2> QED BY <1>6, <1>7
<1> DEFINE u == UserChanges(w)
<1> HIDE DEF u
<1>9. u = [i \in 0 .. n |-> IF i = 0 THEN <<>> ELSE Body(u[i - 1], i)]
  BY <1>8 DEF u
<1>10. u[0] = <<>> /\ \A i \in 1 .. n : u[i] = Body(u[i - 1], i)
  <2> HIDE DEF Body
  <2>1. \A i \in 0 .. n : u[i] = IF i = 0 THEN <<>> ELSE Body(u[i - 1], i)
    BY <1>9
  <2> QED BY <1>1, <2>1
<1> DEFINE S == {i \in 0 .. n : u[i] \in V}
<1>11. \A i \in 0 .. n : i \in S
  <2>1. 0 \in S
    <3>1. u[0] \in V /\ 0 \in 0 .. n
      BY <1>1, <1>4, <1>10
    <3> QED BY <3>1
  <2>2. ASSUME NEW i \in 1 .. n, i - 1 \in S PROVE i \in S
    <3>1. u[i - 1] \in V /\ i \in 0 .. n
      BY <1>1, <2>2
    <3>2. u[i] = Body(u[i - 1], i) /\ StatementChanges(w.stmts[i]) \in V
      BY <1>2, <1>10
    <3>3. Body(u[i - 1], i) \in V
      <4>1. u[i - 1] \o StatementChanges(w.stmts[i]) \in V
        BY <3>1, <3>2
      <4> QED BY <3>1, <4>1
    <3>4. u[i] \in V
      BY <3>2, <3>3
    <3> QED BY <3>1, <3>4
  <2> HIDE DEF S, n
  <2> QED BY <1>1, <2>1, <2>2, InductionTo
<1>12. u \in [0 .. n -> V]
  <2> HIDE DEF Body
  <2> QED BY <1>9, <1>11
<1> QED BY <1>10, <1>12 DEF u

LEMMA SizesAreNumbers == \A row \in Row : SizeOf(row) \in Nat
BY BinlogAssumption DEF Row, SizeOf

\* The recursion behind Total.
Sums(rows) ==
  CHOOSE g : g = [i \in 0 .. Len(rows) |->
                    IF i = 0 THEN 0
                    ELSE g[i - 1] + SizeOf(rows[i].before) + SizeOf(rows[i].after)]

LEMMA SumsAre ==
  ASSUME NEW rows \in Seq(Change)
  PROVE  /\ Total(rows) = Sums(rows)[Len(rows)]
         /\ Sums(rows)[0] = 0
         /\ \A i \in 1 .. Len(rows) :
              Sums(rows)[i] = Sums(rows)[i - 1] + SizeOf(rows[i].before) + SizeOf(rows[i].after)
         /\ \A i \in 0 .. Len(rows) : Sums(rows)[i] \in Nat
<1> DEFINE n == Len(rows)
           size(i) == SizeOf(rows[i].before) + SizeOf(rows[i].after)
           step == [i \in 1 .. n |-> [prev \in Nat |-> prev + size(i)]]
<1>1. n \in Nat /\ \A i \in 1 .. n : rows[i] \in Change
  OBVIOUS
<1>2. \A i \in 1 .. n : /\ SizeOf(rows[i].before) \in Nat /\ SizeOf(rows[i].after) \in Nat
                        /\ size(i) \in Nat
  BY <1>1, SizesAreNumbers DEF Change
<1>3. step \in Steps(n, Nat) /\ \A i \in 1 .. n : \A p \in Nat : step[i][p] = p + size(i)
  BY <1>2 DEF Steps
<1>4. PICK f : f \in Solutions(n, Nat, 0, step)
  <2> HIDE DEF n, step
  <2>1. 0 \in Nat
    OBVIOUS
  <2> QED BY <1>1, <1>3, <2>1, RecursionTo
<1> DEFINE Solves(g) == g = [i \in 0 .. n |->
                               IF i = 0 THEN 0
                               ELSE g[i - 1] + SizeOf(rows[i].before) + SizeOf(rows[i].after)]
<1>5. Solves(f)
  <2>1. \A i \in 1 .. n : f[i] = f[i - 1] + SizeOf(rows[i].before) + SizeOf(rows[i].after)
    <3> SUFFICES ASSUME NEW i \in 1 .. n
                 PROVE  f[i] = f[i - 1] + SizeOf(rows[i].before) + SizeOf(rows[i].after)
      OBVIOUS
    <3>1. i - 1 \in 0 .. n
      BY <1>1
    <3>2. f[i - 1] \in Nat /\ f[i] = step[i][f[i - 1]]
      <4> HIDE DEF n, step
      <4> QED BY <1>4, <3>1 DEF Solutions
    <3>3. f[i] = f[i - 1] + size(i)
      <4> HIDE DEF n, step, size
      <4> QED BY <1>3, <3>2
    <3>4. SizeOf(rows[i].before) \in Nat /\ SizeOf(rows[i].after) \in Nat
      BY <1>2
    <3> HIDE DEF step
    <3> QED BY <3>2, <3>3, <3>4
  <2> HIDE DEF n
  <2> QED BY <1>4, <2>1 DEF Solutions
<1>6. Sums(rows) = CHOOSE g : Solves(g)
  BY DEF Sums
<1>7. Solves(Sums(rows))
  <2> HIDE DEF Solves
  <2> QED BY <1>5, <1>6
<1> DEFINE u == Sums(rows)
<1> HIDE DEF u
<1>8. u[0] = 0 /\ \A i \in 1 .. n : u[i] = u[i - 1] + SizeOf(rows[i].before) + SizeOf(rows[i].after)
  <2>1. \A i \in 0 .. n : u[i] = IF i = 0 THEN 0
                               ELSE u[i - 1] + SizeOf(rows[i].before) + SizeOf(rows[i].after)
    BY <1>7 DEF u
  <2> HIDE DEF n
  <2> QED BY <1>1, <2>1
<1> DEFINE S == {i \in 0 .. n : u[i] \in Nat}
<1>9. \A i \in 0 .. n : i \in S
  <2>1. 0 \in S
    <3>1. u[0] \in Nat /\ 0 \in 0 .. n
      BY <1>1, <1>8
    <3> QED BY <3>1
  <2>2. ASSUME NEW i \in 1 .. n, i - 1 \in S PROVE i \in S
    <3>1. u[i - 1] \in Nat /\ i \in 0 .. n
      BY <1>1, <2>2
    <3>2. u[i] \in Nat
      BY <1>2, <1>8, <3>1
    <3> QED BY <3>1, <3>2
  <2> HIDE DEF S, n
  <2> QED BY <1>1, <2>1, <2>2, InductionTo
<1>10. Total(rows) = u[n]
  BY DEF Total, Sums, u
<1> QED BY <1>8, <1>9, <1>10 DEF u

LEMMA TotalAppends ==
  ASSUME NEW rows \in Seq(Change), NEW c \in Change
  PROVE  /\ Total(<<>>) = 0 /\ Total(rows) \in Nat
         /\ Total(Append(rows, c)) = Total(rows) + SizeOf(c.before) + SizeOf(c.after)
<1> DEFINE n == Len(rows)
           longer == Append(rows, c)
           size(i) == SizeOf(rows[i].before) + SizeOf(rows[i].after)
<1>1. /\ longer \in Seq(Change) /\ Len(longer) = n + 1 /\ longer[n + 1] = c /\ n \in Nat
      /\ \A i \in 1 .. n : longer[i] = rows[i]
  OBVIOUS
<1>2. <<>> \in Seq(Change) /\ Len(<<>>) = 0
  OBVIOUS
<1> HIDE DEF longer
<1> DEFINE S == {i \in 0 .. n : Sums(longer)[i] = Sums(rows)[i]}
<1>3. \A i \in 0 .. n : i \in S
  <2>1. 0 \in S
    <3>1. Sums(longer)[0] = 0
      BY <1>1, SumsAre
    <3>2. Sums(rows)[0] = 0 /\ 0 \in 0 .. n
      BY <1>1, SumsAre
    <3> QED BY <3>1, <3>2
  <2>2. ASSUME NEW i \in 1 .. n, i - 1 \in S PROVE i \in S
    <3>1. Sums(longer)[i - 1] = Sums(rows)[i - 1] /\ i \in 1 .. Len(longer) /\ i \in 0 .. n
      BY <1>1, <2>2
    <3>2. /\ Sums(longer)[i] = Sums(longer)[i - 1] + SizeOf(longer[i].before) + SizeOf(longer[i].after)
          /\ Sums(rows)[i] = Sums(rows)[i - 1] + SizeOf(rows[i].before) + SizeOf(rows[i].after)
      BY <1>1, <3>1, SumsAre
    <3>3. longer[i] = rows[i]
      BY <1>1
    <3> QED BY <3>1, <3>2, <3>3
  <2> HIDE DEF S, n
  <2> QED BY <1>1, <2>1, <2>2, InductionTo
<1>4. Sums(longer)[n] = Sums(rows)[n]
  <2>1. n \in S
    <3> HIDE DEF S
    <3> QED BY <1>1, <1>3
  <2> QED BY <2>1
<1>5. n + 1 \in 1 .. Len(longer) /\ (n + 1) - 1 = n /\ n \in 0 .. n
  BY <1>1
<1>6. Sums(longer)[n + 1] = Sums(longer)[n] + SizeOf(longer[n + 1].before) + SizeOf(longer[n + 1].after)
  <2> HIDE DEF n
  <2> QED BY <1>1, <1>5, SumsAre
<1>7. Total(longer) = Sums(longer)[n + 1] /\ Total(rows) = Sums(rows)[n] /\ Sums(rows)[n] \in Nat
  <2>1. Total(longer) = Sums(longer)[Len(longer)]
    BY <1>1, SumsAre
  <2>2. Total(rows) = Sums(rows)[n] /\ Sums(rows)[n] \in Nat
    BY <1>5, SumsAre
  <2> QED BY <1>1, <2>1, <2>2
<1>8. Total(<<>>) = 0
  BY <1>2, SumsAre
<1> QED BY <1>1, <1>4, <1>6, <1>7, <1>8 DEF longer
-----------------------------------------------------------------------------
(* The rows of an event.                                                    *)

\* The buffer is what was counted, and within the limits, or it is empty.
Within(it) == IF it.tooLarge THEN it.pending = <<>>
              ELSE /\ Len(it.pending) = it.rowCount /\ Total(it.pending) = it.rowBytes
                   /\ ~OverLimit(it)

\* What rows leave alone.
SameBut(it, r) == /\ r.current.gtid = it.current.gtid /\ r.current.committed = it.current.committed
                  /\ r.current.reasons = it.current.reasons
                  /\ r.tableMap = it.tableMap /\ r.markerActionIDs = it.markerActionIDs
                  /\ r.current.executable => it.current.executable

LEMMA CountedIs ==
  ASSUME NEW it \in Open, NEW c \in Change
  PROVE  /\ Counted(it, c) \in Open /\ SameBut(it, Counted(it, c))
         /\ Counted(it, c).rowCount = it.rowCount + 1
         /\ Counted(it, c).current.rowCount = it.rowCount + 1
         /\ Counted(it, c).current.tables = it.current.tables \cup {c.table}
         /\ Counted(it, c).pending = it.pending /\ Counted(it, c).tooLarge = it.tooLarge
         /\ Counted(it, c).rowBytes = it.rowBytes
<1>1. /\ it \in Iterator /\ it.current \in Transaction /\ c.table \in Table
      /\ it.rowCount \in Nat /\ it.current.tables \subseteq Table
  BY DEF Open, Iterator, Change, Transaction
<1> DEFINE cur == [it.current EXCEPT !.rowCount = it.rowCount + 1, !.tables = @ \cup {c.table}]
<1>2. /\ cur \in Transaction /\ cur.rowCount = it.rowCount + 1
      /\ cur.tables = it.current.tables \cup {c.table}
      /\ cur.gtid = it.current.gtid /\ cur.committed = it.current.committed
      /\ cur.reasons = it.current.reasons /\ cur.executable = it.current.executable
  <2> DEFINE ts == it.current.tables \cup {c.table}
             k  == it.rowCount + 1
  <2>1. ts \in SUBSET Table /\ k \in Nat
    BY <1>1
  <2>2. cur = [it.current EXCEPT !.rowCount = k, !.tables = ts]
    BY <1>1 DEF Transaction
  <2> HIDE DEF ts, k, cur
  <2>3. /\ cur \in Transaction /\ cur.rowCount = k /\ cur.tables = ts
        /\ cur.gtid = it.current.gtid /\ cur.committed = it.current.committed
        /\ cur.reasons = it.current.reasons /\ cur.executable = it.current.executable
    BY <1>1, <2>1, <2>2 DEF Transaction
  <2> QED BY <2>3 DEF ts, k
<1>3. Counted(it, c) = [it EXCEPT !.rowCount = @ + 1, !.current = cur]
  BY <1>1 DEF Counted, Iterator, Transaction
<1> HIDE DEF cur
<1>4. cur # None
  BY <1>2, BinlogAssumption
<1> DEFINE r == Counted(it, c)
<1> HIDE DEF r
<1>5. /\ r \in Open /\ r.current = cur /\ r.rowCount = it.rowCount + 1
      /\ r.pending = it.pending /\ r.tooLarge = it.tooLarge /\ r.rowBytes = it.rowBytes
      /\ r.tableMap = it.tableMap /\ r.markerActionIDs = it.markerActionIDs
  <2> DEFINE k == it.rowCount + 1
  <2>1. k \in Nat
    BY <1>1
  <2>2. r = [it EXCEPT !.rowCount = k, !.current = cur]
    BY <1>1, <1>3 DEF Iterator, r
  <2> HIDE DEF k
  <2>3. /\ r \in Iterator /\ r.current = cur /\ r.rowCount = k
        /\ r.pending = it.pending /\ r.tooLarge = it.tooLarge /\ r.rowBytes = it.rowBytes
        /\ r.tableMap = it.tableMap /\ r.markerActionIDs = it.markerActionIDs
    BY <1>1, <1>2, <2>1, <2>2 DEF Iterator
  <2> QED BY <1>4, <2>3 DEF Open, k
<1>6. SameBut(it, r)
  BY <1>2, <1>5 DEF SameBut
<1> QED BY <1>2, <1>5, <1>6 DEF r

LEMMA AppendChangeIs ==
  ASSUME NEW it \in Open, NEW c \in Change
  PROVE  /\ AppendChange(it, c) \in Open /\ SameBut(it, AppendChange(it, c))
         /\ Within(it) => Within(AppendChange(it, c))
         /\ AppendChange(it, c).rowCount = it.rowCount + 1
         /\ AppendChange(it, c).current.rowCount = it.rowCount + 1
         /\ AppendChange(it, c).current.tables = it.current.tables \cup {c.table}
         /\ ~AppendChange(it, c).tooLarge =>
              ~it.tooLarge /\ AppendChange(it, c).pending = Append(it.pending, c)
<1> DEFINE n == Counted(it, c)
           k == Kept(n, c)
           stop == [k EXCEPT !.tooLarge = TRUE, !.pending = <<>>, !.current.executable = FALSE]
<1>1. /\ it.pending \in Seq(Change) /\ it.rowBytes \in Nat /\ it.tooLarge \in BOOLEAN
      /\ it.rowCount \in Nat
  BY DEF Open, Iterator
<1>2. /\ n \in Open /\ SameBut(it, n) /\ n.rowCount = it.rowCount + 1
      /\ n.current.rowCount = it.rowCount + 1
      /\ n.current.tables = it.current.tables \cup {c.table}
      /\ n.pending = it.pending /\ n.tooLarge = it.tooLarge /\ n.rowBytes = it.rowBytes
  BY CountedIs
<1>3. SizeOf(c.before) \in Nat /\ SizeOf(c.after) \in Nat
  BY SizesAreNumbers DEF Change
<1> HIDE DEF n
<1>4. /\ k \in Open /\ k.current = n.current /\ k.rowCount = n.rowCount
      /\ k.pending = Append(n.pending, c) /\ k.tooLarge = n.tooLarge
      /\ k.rowBytes = n.rowBytes + SizeOf(c.before) + SizeOf(c.after)
      /\ k.tableMap = n.tableMap /\ k.markerActionIDs = n.markerActionIDs
  <2>1. Append(n.pending, c) \in Seq(Change)
    BY <1>1, <1>2
  <2>2. n.rowBytes + SizeOf(c.before) + SizeOf(c.after) \in Nat
    BY <1>1, <1>2, <1>3
  <2> QED BY <1>2, <2>1, <2>2 DEF Kept, Open, Iterator
<1> HIDE DEF k
<1>5. k.current \in Transaction
  BY <1>4 DEF Open, Iterator
<1> DEFINE cur == [k.current EXCEPT !.executable = FALSE]
<1>6. /\ cur \in Transaction /\ cur.gtid = k.current.gtid /\ cur.committed = k.current.committed
      /\ cur.reasons = k.current.reasons /\ cur.executable = FALSE
      /\ cur.rowCount = k.current.rowCount /\ cur.tables = k.current.tables
  BY <1>5 DEF Transaction
<1>7. stop = [k EXCEPT !.tooLarge = TRUE, !.pending = <<>>, !.current = cur]
  BY <1>4, <1>5 DEF Open, Iterator, Transaction
<1> HIDE DEF stop, cur
<1>8. /\ stop \in Open /\ stop.current = cur /\ stop.rowCount = k.rowCount
      /\ stop.pending = <<>> /\ stop.tooLarge = TRUE
      /\ stop.tableMap = k.tableMap /\ stop.markerActionIDs = k.markerActionIDs
  <2>1. cur # None
    BY <1>6, BinlogAssumption
  <2>2. <<>> \in Seq(Change)
    OBVIOUS
  <2> QED BY <1>4, <1>6, <1>7, <2>1, <2>2 DEF Open, Iterator
<1>9. AppendChange(it, c) = IF it.tooLarge THEN n ELSE IF OverLimit(k) THEN stop ELSE k
  BY DEF AppendChange, n, k, stop
<1>10. CASE it.tooLarge
  <2>1. AppendChange(it, c) = n
    BY <1>9, <1>10
  <2>2. Within(it) => Within(n)
    BY <1>2, <1>10 DEF Within
  <2> QED BY <1>2, <1>10, <2>1, <2>2
<1>11. CASE ~it.tooLarge /\ OverLimit(k)
  <2>1. AppendChange(it, c) = stop
    BY <1>9, <1>11
  <2>2. Within(stop) /\ SameBut(it, stop)
    BY <1>2, <1>4, <1>6, <1>8 DEF Within, SameBut
  <2> QED BY <1>2, <1>4, <1>6, <1>8, <2>1, <2>2
<1>12. CASE ~it.tooLarge /\ ~OverLimit(k)
  <2>1. AppendChange(it, c) = k
    BY <1>9, <1>12
  <2>2. SameBut(it, k)
    BY <1>2, <1>4 DEF SameBut
  <2>3. Within(it) => Within(k)
    <3>1. Len(k.pending) = Len(it.pending) + 1
      BY <1>1, <1>2, <1>4
    <3>2. Total(k.pending) = Total(it.pending) + SizeOf(c.before) + SizeOf(c.after)
      BY <1>1, <1>2, <1>4, TotalAppends
    <3>3. ~k.tooLarge
      BY <1>2, <1>4, <1>12
    <3>4. Within(it) => Len(it.pending) = it.rowCount /\ Total(it.pending) = it.rowBytes
      BY <1>12 DEF Within
    <3> QED BY <1>1, <1>2, <1>4, <1>12, <3>1, <3>2, <3>3, <3>4 DEF Within
  <2> QED BY <1>2, <1>4, <1>12, <2>1, <2>2, <2>3
<1> QED BY <1>1, <1>10, <1>11, <1>12

\* The iterator takes from an event the changes of its statement.
LEMMA ChangesAreTheStatements ==
  ASSUME NEW stmt \in Written
  PROVE  ChangesOf(RowsEvent(stmt)) = StatementChanges(stmt)
<1> DEFINE n   == Len(stmt.rows)
           row == stmt.rows
           imgs == Flatten(stmt)
           ch(j) == [table |-> stmt.table, op |-> stmt.op, before |-> row[j].before, after |-> row[j].after]
<1>1. /\ stmt.rows \in Seq(Images) /\ n \in Nat /\ DOMAIN stmt.rows = 1 .. n
      /\ stmt.op \in OpKind
      /\ \A j \in 1 .. n : /\ stmt.op = "insert" <=> row[j].before = None
                           /\ stmt.op = "delete" <=> row[j].after = None
  <2>1. stmt.rows \in Seq(Images) /\ stmt.op \in OpKind /\ HasImages(stmt)
    BY DEF Written, Statement
  <2>2. n \in Nat /\ DOMAIN stmt.rows = 1 .. n
    BY <2>1
  <2> HIDE DEF n
  <2>3. ASSUME NEW j \in 1 .. n
        PROVE  /\ stmt.op = "insert" <=> row[j].before = None
               /\ stmt.op = "delete" <=> row[j].after = None
    <3>1. j \in DOMAIN stmt.rows
      BY <2>2
    <3>2. HasImages(stmt)
      BY <2>1
    <3> QED BY <3>1, <3>2 DEF HasImages
  <2> QED BY <2>1, <2>2, <2>3
<1>2. /\ RowsEvent(stmt).table = stmt.table /\ RowsEvent(stmt).op = stmt.op
      /\ RowsEvent(stmt).images = imgs
  BY DEF RowsEvent
<1>3. StatementChanges(stmt) = [j \in 1 .. n |-> ch(j)]
  BY <1>1 DEF StatementChanges
<1> HIDE DEF n, row
<1>4. CASE stmt.op = "insert"
  <2>1. imgs = [i \in 1 .. n |-> row[i].after] /\ Len(imgs) = n
    BY <1>1, <1>4 DEF Flatten, n, row
  <2> HIDE DEF imgs
  <2>2. ChangesOf(RowsEvent(stmt)) =
          [i \in 1 .. n |-> [table |-> stmt.table, op |-> stmt.op, before |-> None, after |-> imgs[i]]]
    BY <1>2, <1>4, <2>1 DEF ChangesOf
  <2> QED BY <1>1, <1>3, <1>4, <2>1, <2>2
<1>5. CASE stmt.op = "delete"
  <2>1. imgs = [i \in 1 .. n |-> row[i].before] /\ Len(imgs) = n
    BY <1>1, <1>5 DEF Flatten, n, row
  <2> HIDE DEF imgs
  <2>2. ChangesOf(RowsEvent(stmt)) =
          [i \in 1 .. n |-> [table |-> stmt.table, op |-> stmt.op, before |-> imgs[i], after |-> None]]
    BY <1>2, <1>5, <2>1 DEF ChangesOf
  <2> QED BY <1>1, <1>3, <1>5, <2>1, <2>2
<1>6. CASE stmt.op = "update"
  <2>1. /\ imgs = [i \in 1 .. 2 * n |-> IF i % 2 = 1 THEN row[(i + 1) \div 2].before
                                                    ELSE row[i \div 2].after]
        /\ Len(imgs) = 2 * n
    BY <1>1, <1>6 DEF Flatten, n, row
  <2> HIDE DEF imgs
  <2>2. (2 * n) \div 2 = n
    BY <1>1
  <2>3. ChangesOf(RowsEvent(stmt)) =
          [i \in 1 .. n |-> [table |-> stmt.table, op |-> stmt.op,
                            before |-> imgs[2 * i - 1], after |-> imgs[2 * i]]]
    BY <1>2, <1>6, <2>1, <2>2 DEF ChangesOf
  <2>4. ASSUME NEW i \in 1 .. n
        PROVE  imgs[2 * i - 1] = row[i].before /\ imgs[2 * i] = row[i].after
    <3>1. /\ 2 * i - 1 \in 1 .. 2 * n /\ (2 * i - 1) % 2 = 1 /\ ((2 * i - 1) + 1) \div 2 = i
          /\ 2 * i \in 1 .. 2 * n /\ (2 * i) % 2 # 1 /\ (2 * i) \div 2 = i
      BY <1>1
    <3> QED BY <2>1, <3>1
  <2> QED BY <1>3, <2>3, <2>4
<1> QED BY <1>1, <1>4, <1>5, <1>6 DEF OpKind

\* it, with the first i changes of cs appended.
Extended(it, r, cs, i) ==
  /\ r \in Open /\ SameBut(it, r)
  /\ Within(it) => Within(r)
  /\ r.rowCount = it.rowCount + i
  /\ it.current.rowCount = it.rowCount => r.current.rowCount = r.rowCount
  /\ r.current.tables = it.current.tables \cup {cs[j].table : j \in 1 .. i}
  /\ ~r.tooLarge => /\ ~it.tooLarge /\ Len(r.pending) = Len(it.pending) + i
                    /\ \A j \in 1 .. Len(it.pending) : r.pending[j] = it.pending[j]
                    /\ \A j \in 1 .. i : r.pending[Len(it.pending) + j] = cs[j]

LEMMA OneMore ==
  ASSUME NEW it \in Open, NEW r, NEW cs \in Seq(Change), NEW i \in 1 .. Len(cs),
         Extended(it, r, cs, i - 1)
  PROVE  Extended(it, AppendChange(r, cs[i]), cs, i)
<1> DEFINE q == AppendChange(r, cs[i])
           n == Len(it.pending)
<1>1. /\ cs[i] \in Change /\ r \in Open /\ it.rowCount \in Nat /\ i - 1 \in Nat
      /\ it.pending \in Seq(Change) /\ r.pending \in Seq(Change) /\ n \in Nat
  BY DEF Extended, Open, Iterator
<1>2. /\ q \in Open /\ SameBut(r, q)
      /\ Within(r) => Within(q)
      /\ q.rowCount = r.rowCount + 1 /\ q.current.rowCount = r.rowCount + 1
      /\ q.current.tables = r.current.tables \cup {cs[i].table}
      /\ ~q.tooLarge => ~r.tooLarge /\ q.pending = Append(r.pending, cs[i])
  BY <1>1, AppendChangeIs
<1> HIDE DEF q
<1>3. SameBut(it, q)
  BY <1>2 DEF SameBut, Extended
<1>4. q.rowCount = it.rowCount + i
  BY <1>1, <1>2 DEF Extended
<1>5. q.current.tables = it.current.tables \cup {cs[j].table : j \in 1 .. i}
  <2>1. 1 .. i = (1 .. i - 1) \cup {i}
    BY <1>1
  <2>2. {cs[j].table : j \in 1 .. i} = {cs[j].table : j \in 1 .. i - 1} \cup {cs[i].table}
    BY <2>1
  <2> QED BY <1>2, <2>2 DEF Extended
<1>6. ASSUME ~q.tooLarge
      PROVE  /\ ~it.tooLarge /\ Len(q.pending) = n + i
             /\ \A j \in 1 .. n : q.pending[j] = it.pending[j]
             /\ \A j \in 1 .. i : q.pending[n + j] = cs[j]
  <2>1. /\ ~it.tooLarge /\ Len(r.pending) = n + (i - 1)
        /\ \A j \in 1 .. n : r.pending[j] = it.pending[j]
        /\ \A j \in 1 .. i - 1 : r.pending[n + j] = cs[j]
    BY <1>2, <1>6 DEF Extended
  <2>2. q.pending = Append(r.pending, cs[i])
    BY <1>2, <1>6
  <2> HIDE DEF n
  <2>3. Len(q.pending) = n + i /\ q.pending[n + i] = cs[i]
        /\ \A j \in 1 .. n + (i - 1) : q.pending[j] = r.pending[j]
    BY <1>1, <2>1, <2>2
  <2>4. \A j \in 1 .. n : q.pending[j] = it.pending[j]
    BY <1>1, <2>1, <2>3
  <2>5. ASSUME NEW j \in 1 .. i PROVE q.pending[n + j] = cs[j]
    <3>1. CASE j = i
      BY <2>3, <3>1
    <3>2. CASE j # i
      <4>1. j \in 1 .. i - 1 /\ n + j \in 1 .. n + (i - 1)
        BY <1>1, <3>2
      <4> QED BY <2>1, <2>3, <4>1
    <3> QED BY <3>1, <3>2
  <2> QED BY <2>1, <2>3, <2>4, <2>5
<1>7. it.current.rowCount = it.rowCount => q.current.rowCount = q.rowCount
  BY <1>2
<1>8. Within(it) => Within(q)
  BY <1>2 DEF Extended
<1> QED BY <1>2, <1>3, <1>4, <1>5, <1>6, <1>7, <1>8 DEF Extended, q

\* it, with all the changes of cs appended.
ExtendedBy(it, r, cs) ==
  /\ r \in Open /\ SameBut(it, r)
  /\ Within(it) => Within(r)
  /\ r.rowCount = it.rowCount + Len(cs)
  /\ it.current.rowCount = it.rowCount => r.current.rowCount = r.rowCount
  /\ r.current.tables = it.current.tables \cup {cs[j].table : j \in DOMAIN cs}
  /\ ~r.tooLarge => ~it.tooLarge /\ r.pending = it.pending \o cs

LEMMA ExtendedToTheEnd ==
  ASSUME NEW it \in Open, NEW r, NEW cs \in Seq(Change), Extended(it, r, cs, Len(cs))
  PROVE  ExtendedBy(it, r, cs)
<1>1. it.pending \in Seq(Change) /\ r.pending \in Seq(Change) /\ DOMAIN cs = 1 .. Len(cs)
  BY DEF Extended, Open, Iterator
<1>2. ~r.tooLarge => r.pending = it.pending \o cs
  <2> SUFFICES ASSUME ~r.tooLarge PROVE r.pending = it.pending \o cs
    OBVIOUS
  <2> DEFINE n == Len(it.pending)
             m == Len(cs)
             all == it.pending \o cs
  <2>1. /\ Len(r.pending) = n + m
        /\ \A j \in 1 .. n : r.pending[j] = it.pending[j]
        /\ \A j \in 1 .. m : r.pending[n + j] = cs[j]
    BY DEF Extended
  <2>2. /\ all \in Seq(Change) /\ Len(all) = n + m
        /\ \A j \in 1 .. n + m : all[j] = IF j <= n THEN it.pending[j] ELSE cs[j - n]
    BY <1>1
  <2>3. n \in Nat /\ m \in Nat
    BY <1>1
  <2> HIDE DEF all, n, m
  <2>4. \A j \in 1 .. n + m : r.pending[j] = all[j]
    <3> SUFFICES ASSUME NEW j \in 1 .. n + m PROVE r.pending[j] = all[j]
      OBVIOUS
    <3>1. CASE j <= n
      <4>1. j \in 1 .. n
        BY <2>3, <3>1
      <4> QED BY <2>1, <2>2, <3>1, <4>1
    <3>2. CASE ~(j <= n)
      <4>1. j - n \in 1 .. m /\ n + (j - n) = j
        BY <2>3, <3>2
      <4>2. r.pending[n + (j - n)] = cs[j - n]
        BY <2>1, <4>1
      <4> QED BY <2>2, <3>2, <4>1, <4>2
    <3> QED BY <3>1, <3>2
  <2>5. r.pending = all
    BY <1>1, <2>1, <2>2, <2>4, SeqEqual
  <2> QED BY <2>5 DEF all
<1>3. ~r.tooLarge => ~it.tooLarge
  BY DEF Extended
<1> QED BY <1>1, <1>2, <1>3 DEF Extended, ExtendedBy

LEMMA HandleRowsAppends ==
  ASSUME NEW it \in Open, NEW stmt \in Written, NEW cols, it.tableMap.names = cols
  PROVE  ExtendedBy(it, HandleRows(it, RowsEvent(stmt), cols), StatementChanges(stmt))
<1> DEFINE cs == StatementChanges(stmt)
           n  == Len(cs)
           step == [i \in 1 .. n |-> [prev \in Open |-> AppendChange(prev, cs[i])]]
<1>1. cs \in Seq(Change)
  BY StatementChangesType DEF Written
<1>2. n \in Nat /\ \A i \in 1 .. n : cs[i] \in Change
  BY <1>1
<1>3. ChangesOf(RowsEvent(stmt)) = cs
  BY ChangesAreTheStatements
<1> HIDE DEF cs
<1>4. \A i \in 1 .. n : \A prev \in Open : AppendChange(prev, cs[i]) \in Open
  BY <1>2, AppendChangeIs
<1>5. step \in Steps(n, Open) /\ \A i \in 1 .. n : \A p \in Open : step[i][p] = AppendChange(p, cs[i])
  BY <1>4 DEF Steps
<1>6. PICK f : f \in Solutions(n, Open, it, step)
  <2> HIDE DEF n, step
  <2> QED BY <1>2, <1>5, RecursionTo
<1> DEFINE Solves(g) == g = [i \in 0 .. n |-> IF i = 0 THEN it ELSE AppendChange(g[i - 1], cs[i])]
<1>7. Solves(f)
  <2>1. \A i \in 1 .. n : f[i] = AppendChange(f[i - 1], cs[i])
    <3> SUFFICES ASSUME NEW i \in 1 .. n PROVE f[i] = AppendChange(f[i - 1], cs[i])
      OBVIOUS
    <3>1. i - 1 \in 0 .. n
      BY <1>2
    <3> HIDE DEF n, step
    <3>2. f[i - 1] \in Open /\ f[i] = step[i][f[i - 1]]
      BY <1>6, <3>1 DEF Solutions
    <3> QED BY <1>5, <3>2
  <2> HIDE DEF n
  <2> QED BY <1>6, <2>1 DEF Solutions
<1> DEFINE u == CHOOSE g : Solves(g)
<1>8. Solves(u)
  <2> HIDE DEF Solves
  <2> QED BY <1>7
<1>9. HandleRows(it, RowsEvent(stmt), cols) = u[n]
  BY <1>3 DEF HandleRows
<1> HIDE DEF u
<1>10. u[0] = it /\ \A i \in 1 .. n : u[i] = AppendChange(u[i - 1], cs[i])
  <2>1. \A i \in 0 .. n : u[i] = IF i = 0 THEN it ELSE AppendChange(u[i - 1], cs[i])
    BY <1>8
  <2> HIDE DEF n
  <2> QED BY <1>2, <2>1
<1> HIDE DEF Solves
<1> DEFINE S == {i \in 0 .. n : Extended(it, u[i], cs, i)}
<1>11. \A i \in 0 .. n : i \in S
  <2>1. 0 \in S
    <3>1. Extended(it, u[0], cs, 0)
      <4>1. {cs[j].table : j \in 1 .. 0} = {}
        OBVIOUS
      <4>2. it.rowCount \in Nat /\ it.pending \in Seq(Change)
        BY DEF Open, Iterator
      <4> HIDE DEF cs
      <4> QED BY <1>10, <4>1, <4>2 DEF Extended, SameBut
    <3>2. 0 \in 0 .. n
      BY <1>2
    <3> QED BY <3>1, <3>2
  <2>2. ASSUME NEW i \in 1 .. n, i - 1 \in S PROVE i \in S
    <3>1. Extended(it, u[i - 1], cs, i - 1) /\ i \in 0 .. n
      BY <1>2, <2>2
    <3>2. Extended(it, AppendChange(u[i - 1], cs[i]), cs, i)
      BY <1>1, <3>1, OneMore
    <3>3. u[i] = AppendChange(u[i - 1], cs[i])
      BY <1>10
    <3> QED BY <3>1, <3>2, <3>3
  <2> HIDE DEF S, n
  <2> QED BY <1>2, <2>1, <2>2, InductionTo
<1>12. Extended(it, u[n], cs, n)
  <2>1. n \in 0 .. n
    BY <1>2
  <2>2. n \in S
    <3> HIDE DEF S, n
    <3> QED BY <1>11, <2>1
  <2> QED BY <2>2
<1> QED BY <1>1, <1>9, <1>12, ExtendedToTheEnd DEF cs

\* Column names that differ are a reason, and nothing is appended.
Refused(it, r) ==
  /\ r \in Open /\ r.current.reasons = it.current.reasons \cup {"schema"}
  /\ r.current.gtid = it.current.gtid /\ r.current.committed = it.current.committed
  /\ r.current.executable = FALSE
  /\ r.tableMap = it.tableMap /\ r.markerActionIDs = it.markerActionIDs
  /\ r.pending = it.pending /\ r.rowCount = it.rowCount /\ r.rowBytes = it.rowBytes
  /\ r.tooLarge = it.tooLarge
LEMMA HandleRowsRefuses ==
  ASSUME NEW it \in Open, NEW ev, NEW cols, it.tableMap.names # cols
  PROVE  Refused(it, HandleRows(it, ev, cols))
<1> DEFINE r == HandleRows(it, ev, cols)
<1> DEFINE reasons == it.current.reasons \cup {"schema"}
           cur == [it.current EXCEPT !.executable = FALSE, !.reasons = reasons]
<1>1. it \in Iterator /\ it.current \in Transaction
  BY DEF Open, Iterator
<1>2. reasons \in SUBSET {"non-row statement", "schema", "exceeds limit"}
  BY <1>1 DEF Transaction
<1>3. r = [it EXCEPT !.current = cur]
  BY <1>1 DEF HandleRows, Iterator, Transaction
<1> HIDE DEF reasons, r
<1>4. /\ cur \in Transaction /\ cur.reasons = reasons /\ cur.gtid = it.current.gtid
      /\ cur.committed = it.current.committed /\ cur.executable = FALSE
  BY <1>1, <1>2 DEF Transaction
<1> HIDE DEF cur
<1>5. cur # None
  BY <1>4, BinlogAssumption
<1>6. /\ r \in Open /\ r.current = cur
      /\ r.tableMap = it.tableMap /\ r.markerActionIDs = it.markerActionIDs
      /\ r.pending = it.pending /\ r.rowCount = it.rowCount /\ r.rowBytes = it.rowBytes
      /\ r.tooLarge = it.tooLarge
  BY <1>1, <1>3, <1>4, <1>5 DEF Open, Iterator
<1> QED BY <1>4, <1>6 DEF reasons, r, Refused
-----------------------------------------------------------------------------
(* The other events.                                                        *)

KeepsBuffer(it, r) == /\ r.pending = it.pending /\ r.rowCount = it.rowCount
                      /\ r.rowBytes = it.rowBytes /\ r.tooLarge = it.tooLarge
KeepsMarks(it, r)  == r.markerActionIDs = it.markerActionIDs

LEMMA WithinStays ==
  ASSUME NEW it, NEW r, Within(it), KeepsBuffer(it, r)
  PROVE  Within(r)
BY DEF Within, KeepsBuffer, OverLimit

LEMMA NewTransactionIs == NewTransaction \in Transaction /\ NewTransaction # None
<1>1. <<>> \in Seq(Change)
  OBVIOUS
<1>2. NewTransaction \in Transaction
  BY <1>1 DEF NewTransaction, Transaction
<1> QED BY <1>2, BinlogAssumption

LEMMA OpenedIs ==
  ASSUME NEW it \in Iterator
  PROVE  /\ Opened(it) \in Open /\ KeepsBuffer(it, Opened(it)) /\ KeepsMarks(it, Opened(it))
         /\ Opened(it).tableMap = it.tableMap
         /\ Opened(it).current = IF it.current = None THEN NewTransaction ELSE it.current
BY NewTransactionIs DEF Opened, Open, Iterator, KeepsBuffer, KeepsMarks

\* Another transaction in the place of the current one.
LEMMA ReplacedIs ==
  ASSUME NEW it \in Iterator, NEW cur \in Transaction, NEW r, r = [it EXCEPT !.current = cur]
  PROVE  /\ r \in Open /\ KeepsBuffer(it, r) /\ KeepsMarks(it, r)
         /\ r.tableMap = it.tableMap /\ r.current = cur
<1>1. cur # None
  BY BinlogAssumption
<1> QED BY <1>1 DEF Open, Iterator, KeepsBuffer, KeepsMarks

LEMMA BeginTransactionIs ==
  ASSUME NEW it \in Iterator, NEW ev, ev.gtid \in Gtid, NEW r, r = BeginTransaction(it, ev)
  PROVE  /\ r \in Open /\ KeepsBuffer(it, r) /\ KeepsMarks(it, r) /\ r.tableMap = it.tableMap
         /\ r.current = [Opened(it).current EXCEPT !.gtid = ev.gtid]
<1> DEFINE o == Opened(it)
           cur == [o.current EXCEPT !.gtid = ev.gtid]
<1>1. o \in Open /\ KeepsBuffer(it, o) /\ KeepsMarks(it, o) /\ o.tableMap = it.tableMap
  BY OpenedIs
<1>2. r = [o EXCEPT !.current.gtid = ev.gtid]
  BY DEF BeginTransaction
<1> HIDE DEF o
<1>3. o \in Iterator /\ o.current \in Transaction
  BY <1>1 DEF Open, Iterator
<1>4. r = [o EXCEPT !.current = cur] /\ cur \in Transaction
  BY <1>2, <1>3 DEF Iterator, Transaction
<1> HIDE DEF cur
<1>5. /\ r \in Open /\ KeepsBuffer(o, r) /\ KeepsMarks(o, r)
      /\ r.tableMap = o.tableMap /\ r.current = cur
  BY <1>3, <1>4, ReplacedIs
<1> QED BY <1>1, <1>5 DEF KeepsBuffer, KeepsMarks, cur, o

LEMMA HandleTableMapIs ==
  ASSUME NEW it \in Iterator, NEW ev \in TableMap, NEW r, r = HandleTableMap(it, ev)
  PROVE  /\ r \in Open /\ KeepsBuffer(it, r) /\ KeepsMarks(it, r) /\ r.tableMap = ev
         /\ r.current = Opened(it).current
<1> DEFINE o == Opened(it)
<1>1. o \in Open /\ KeepsBuffer(it, o) /\ KeepsMarks(it, o)
  BY OpenedIs
<1>2. r = [o EXCEPT !.tableMap = ev]
  BY DEF HandleTableMap
<1> HIDE DEF o
<1>3. /\ r \in Open /\ KeepsBuffer(o, r) /\ KeepsMarks(o, r) /\ r.tableMap = ev
      /\ r.current = o.current
  BY <1>1, <1>2 DEF Open, Iterator, KeepsBuffer, KeepsMarks
<1> QED BY <1>1, <1>3 DEF KeepsBuffer, KeepsMarks, o

LEMMA CompletedIs ==
  ASSUME NEW it \in Open, NEW r, r = Completed(it)
  PROVE  /\ r \in Open /\ KeepsBuffer(it, r) /\ KeepsMarks(it, r) /\ r.tableMap = it.tableMap
         /\ r.current = [it.current EXCEPT !.committed = TRUE, !.rows = it.pending]
<1> DEFINE cur == [it.current EXCEPT !.committed = TRUE, !.rows = it.pending]
<1>1. it \in Iterator /\ it.current \in Transaction /\ it.pending \in Seq(Change)
  BY DEF Open, Iterator
<1>2. r = [it EXCEPT !.current = cur] /\ cur \in Transaction
  BY <1>1 DEF Completed, Iterator, Transaction
<1> HIDE DEF cur
<1>3. /\ r \in Open /\ KeepsBuffer(it, r) /\ KeepsMarks(it, r)
      /\ r.tableMap = it.tableMap /\ r.current = cur
  BY <1>1, <1>2, ReplacedIs
<1> QED BY <1>3 DEF cur

AfterQuery(it, ev, r) ==
  /\ r \in Open /\ KeepsBuffer(it, r) /\ KeepsMarks(it, r) /\ r.tableMap = it.tableMap
  /\ ev.kind = "row" => r.current = Opened(it).current
  /\ ev.kind # "row" =>
       /\ r.current.committed /\ ~r.current.executable
       /\ r.current.gtid = Opened(it).current.gtid /\ r.current.rows = it.pending
       /\ r.current.reasons = Opened(it).current.reasons \cup {"non-row statement"}
       /\ r.current.rowCount = Opened(it).current.rowCount
       /\ r.current.tables = Opened(it).current.tables
LEMMA HandleQueryIs ==
  ASSUME NEW it \in Iterator, NEW ev
  PROVE  AfterQuery(it, ev, HandleQuery(it, ev))
<1> DEFINE r == HandleQuery(it, ev)
           o == Opened(it)
           reasons == o.current.reasons \cup {"non-row statement"}
           cur == [o.current EXCEPT !.executable = FALSE, !.reasons = reasons]
           q == [o EXCEPT !.current = cur]
<1>1. o \in Open /\ KeepsBuffer(it, o) /\ KeepsMarks(it, o) /\ o.tableMap = it.tableMap
  BY OpenedIs
<1>2. CASE ev.kind = "row"
  BY <1>1, <1>2 DEF HandleQuery, AfterQuery
<1>3. CASE ev.kind # "row"
  <2>1. r = Completed([o EXCEPT !.current.executable = FALSE, !.current.reasons = reasons])
    BY <1>3 DEF HandleQuery
  <2> HIDE DEF o, r
  <2>2. o \in Iterator /\ o.current \in Transaction
    BY <1>1 DEF Open, Iterator
  <2>3. reasons \in SUBSET {"non-row statement", "schema", "exceeds limit"}
    BY <2>2 DEF Transaction
  <2> HIDE DEF reasons
  <2>4. q = [o EXCEPT !.current.executable = FALSE, !.current.reasons = reasons]
    BY <2>2 DEF Iterator, Transaction
  <2>5. /\ cur \in Transaction /\ cur.executable = FALSE /\ cur.reasons = reasons
        /\ cur.gtid = o.current.gtid /\ cur.rowCount = o.current.rowCount
        /\ cur.tables = o.current.tables
    BY <2>2, <2>3 DEF Transaction
  <2> HIDE DEF cur
  <2>6. /\ q \in Open /\ KeepsBuffer(o, q) /\ KeepsMarks(o, q)
        /\ q.tableMap = o.tableMap /\ q.current = cur
    BY <2>2, <2>5, ReplacedIs
  <2> HIDE DEF q
  <2>7. /\ r \in Open /\ KeepsBuffer(q, r) /\ KeepsMarks(q, r) /\ r.tableMap = q.tableMap
        /\ r.current = [cur EXCEPT !.committed = TRUE, !.rows = q.pending]
    BY <2>1, <2>4, <2>6, CompletedIs, ZenonT(30)
  <2>8. /\ r.current.committed = TRUE /\ r.current.executable = FALSE
        /\ r.current.gtid = o.current.gtid /\ r.current.rows = q.pending
        /\ r.current.reasons = reasons /\ r.current.rowCount = o.current.rowCount
        /\ r.current.tables = o.current.tables
    BY <2>5, <2>7 DEF Transaction
  <2>9. /\ KeepsBuffer(it, r) /\ KeepsMarks(it, r) /\ r.tableMap = it.tableMap
        /\ q.pending = it.pending
    BY <1>1, <2>6, <2>7 DEF KeepsBuffer, KeepsMarks
  <2> QED BY <1>3, <2>7, <2>8, <2>9 DEF o, reasons, r, AfterQuery
<1> QED BY <1>2, <1>3

LEMMA CommitTransactionIs ==
  ASSUME NEW it \in Iterator, NEW r, r = CommitTransaction(it)
  PROVE  /\ r \in Iterator /\ KeepsBuffer(it, r) /\ KeepsMarks(it, r) /\ r.tableMap = it.tableMap
         /\ it.current = None => r = it
         /\ it.current # None =>
              /\ r.current \in Transaction
              /\ r.current.committed /\ r.current.gtid = it.current.gtid
              /\ r.current.rows = it.pending
              /\ it.current.reasons \subseteq r.current.reasons
              /\ r.current.executable => ~it.tooLarge /\ it.current.reasons = {}
              /\ r.current.rowCount = it.current.rowCount
              /\ r.current.tables = it.current.tables
<1>1. CASE it.current = None
  BY <1>1 DEF CommitTransaction, KeepsBuffer, KeepsMarks
<1>2. CASE it.current # None
  <2> DEFINE reasons == it.current.reasons \cup (IF it.tooLarge THEN {"exceeds limit"} ELSE {})
             c == Completed(it)
             cur == [c.current EXCEPT !.reasons = reasons, !.executable = reasons = {}]
  <2>1. it \in Open /\ it.current \in Transaction /\ it.pending \in Seq(Change)
    BY <1>2 DEF Open, Iterator
  <2>2. /\ c \in Open /\ KeepsBuffer(it, c) /\ KeepsMarks(it, c) /\ c.tableMap = it.tableMap
        /\ c.current = [it.current EXCEPT !.committed = TRUE, !.rows = it.pending]
    BY <2>1, CompletedIs
  <2>3. r = [c EXCEPT !.current.reasons = reasons, !.current.executable = reasons = {}]
    BY <1>2 DEF CommitTransaction
  <2> HIDE DEF c
  <2>4. reasons \in SUBSET {"non-row statement", "schema", "exceeds limit"}
    BY <2>1 DEF Transaction
  <2>5. reasons = {} => ~it.tooLarge /\ it.current.reasons = {}
    BY <2>1 DEF Transaction
  <2>6. it.current.reasons \subseteq reasons
    OBVIOUS
  <2> HIDE DEF reasons
  <2>7. c \in Iterator /\ c.current \in Transaction
    BY <2>2 DEF Open, Iterator
  <2>8. r = [c EXCEPT !.current = cur]
    BY <2>3, <2>7 DEF Iterator, Transaction
  <2>9. /\ cur \in Transaction /\ cur.reasons = reasons /\ cur.executable = (reasons = {})
        /\ cur.committed = c.current.committed /\ cur.rows = c.current.rows
        /\ cur.gtid = c.current.gtid /\ cur.rowCount = c.current.rowCount
        /\ cur.tables = c.current.tables
    BY <2>4, <2>7 DEF Transaction
  <2>10. /\ c.current.committed = TRUE /\ c.current.rows = it.pending
         /\ c.current.gtid = it.current.gtid /\ c.current.rowCount = it.current.rowCount
         /\ c.current.tables = it.current.tables
    BY <2>1, <2>2 DEF Transaction
  <2> HIDE DEF cur
  <2>11. /\ r \in Open /\ KeepsBuffer(c, r) /\ KeepsMarks(c, r)
         /\ r.tableMap = c.tableMap /\ r.current = cur
    BY <2>7, <2>8, <2>9, ReplacedIs
  <2>12. /\ r \in Iterator /\ KeepsBuffer(it, r) /\ KeepsMarks(it, r) /\ r.tableMap = it.tableMap
    BY <2>2, <2>11 DEF Open, KeepsBuffer, KeepsMarks
  <2> QED BY <1>2, <2>5, <2>6, <2>9, <2>10, <2>11, <2>12
<1> QED BY <1>1, <1>2

\* The images of an insert are the rows that it inserts.
LEMMA MarkedIs ==
  ASSUME NEW it \in Iterator, NEW stmt \in Written, stmt.table = MarkerTable,
         NEW r, r = Marked(it, RowsEvent(stmt))
  PROVE  /\ r \in Iterator /\ KeepsBuffer(it, r) /\ r.tableMap = it.tableMap
         /\ r.current = it.current
         /\ r.markerActionIDs = it.markerActionIDs \cup MarkersOf(stmt)
<1>1. RowsEvent(stmt).op = stmt.op /\ RowsEvent(stmt).images = Flatten(stmt)
  BY DEF RowsEvent
<1>2. CASE stmt.op # "insert"
  <2>1. r = it
    BY <1>1, <1>2 DEF Marked
  <2>2. MarkersOf(stmt) = {}
    BY <1>2 DEF MarkersOf
  <2> QED BY <2>1, <2>2 DEF KeepsBuffer
<1>3. CASE stmt.op = "insert"
  <2> DEFINE n == Len(stmt.rows)
             ids == ToSet(Flatten(stmt))
  <2>1. stmt.rows \in Seq(Images) /\ HasImages(stmt)
    BY DEF Written, Statement
  <2>2. n \in Nat /\ DOMAIN stmt.rows = 1 .. n
    BY <2>1
  <2>3. Flatten(stmt) = [i \in 1 .. n |-> stmt.rows[i].after]
    BY <1>3 DEF Flatten
  <2> HIDE DEF n
  <2>4. ids = {stmt.rows[j].after : j \in 1 .. n}
    BY <2>3 DEF ToSet
  <2>5. ids = MarkersOf(stmt)
    BY <1>3, <2>2, <2>4 DEF MarkersOf
  <2>6. \A j \in 1 .. n : stmt.rows[j].after \in Image
    <3> SUFFICES ASSUME NEW j \in 1 .. n PROVE stmt.rows[j].after \in Image
      OBVIOUS
    <3>1. stmt.rows[j] \in Images
      BY <2>1, <2>2
    <3>2. stmt.rows[j].after # None
      BY <1>3, <2>1, <2>2 DEF HasImages
    <3> QED BY <3>1, <3>2 DEF Images, Row
  <2>7. ids \subseteq Image
    BY <2>4, <2>6
  <2>8. r = [it EXCEPT !.markerActionIDs = it.markerActionIDs \cup ids]
    BY <1>1, <1>3 DEF Marked, Iterator
  <2> HIDE DEF ids
  <2> DEFINE ms == it.markerActionIDs \cup ids
  <2>9. ms \in SUBSET Image
    BY <2>7 DEF Iterator
  <2>10. r = [it EXCEPT !.markerActionIDs = ms]
    BY <2>8
  <2> HIDE DEF ms
  <2>11. /\ r \in Iterator /\ KeepsBuffer(it, r) /\ r.tableMap = it.tableMap
         /\ r.current = it.current /\ r.markerActionIDs = ms
    BY <2>9, <2>10 DEF Iterator, KeepsBuffer
  <2> QED BY <2>5, <2>11 DEF ms
<1> QED BY <1>2, <1>3

LEMMA ClearedIs ==
  ASSUME NEW it \in Iterator, NEW r, r = Cleared(it)
  PROVE  /\ r \in Iterator /\ Within(r) /\ r.current = None /\ r.pending = <<>>
         /\ r.rowCount = 0 /\ r.rowBytes = 0 /\ r.tooLarge = FALSE /\ r.markerActionIDs = {}
<1>1. <<>> \in Seq(Change) /\ Len(<<>>) = 0 /\ Total(<<>>) = 0
  <2>1. <<>> \in Seq(Change) /\ Len(<<>>) = 0
    OBVIOUS
  <2> QED BY <2>1, SumsAre
<1>2. /\ r \in Iterator /\ r.current = None /\ r.pending = <<>>
      /\ r.rowCount = 0 /\ r.rowBytes = 0 /\ r.tooLarge = FALSE /\ r.markerActionIDs = {}
  BY <1>1 DEF Cleared, Iterator
<1>3. ~OverLimit(r)
  BY <1>2, BinlogAssumption DEF OverLimit
<1> QED BY <1>1, <1>2, <1>3 DEF Within

-----------------------------------------------------------------------------
(* Types, and the limits, whatever the workload.                            *)

Scan == [txn : Nat \ {0}, event : Nat \ {0}]
Positioned ==
  /\ at \in Scan /\ at.txn <= Len(log) + 1
  /\ IF at.txn <= Len(log) THEN at.event <= Len(log[at.txn]) ELSE at.event = 1

\* Between a table map and the end of its rows there is a transaction, which has not committed.
AfterMap ==
  at.event > 1 /\ log[at.txn][at.event - 1].type \in {"TABLE_MAP", "ROWS"} =>
    b.current # None /\ ~b.current.committed

Typed ==
  /\ committed \in Seq(Commits) /\ log \in Seq(Batch) /\ emitted \in Seq(Returned)
  /\ gnos \in [Server -> 1 .. MaxTxns + 1]
  /\ names \in [Table -> Names] /\ colCache \in [Table -> Names \cup {None}]
  /\ b \in Iterator /\ reader \in {"scanning", "ended", "failed"}

Inv == Typed /\ Within(b) /\ Positioned /\ AfterMap

LEMMA InvInit == Init => Inv
<1> SUFFICES ASSUME Init PROVE Inv
  OBVIOUS
<1>1. /\ committed \in Seq(Commits) /\ log \in Seq(Batch) /\ emitted \in Seq(Returned)
  BY DEF Init
<1>2. MaxTxns \in Nat /\ MaxAlter \in Nat /\ 0 \in Names
  BY BinlogAssumption DEF Names
<1>3. /\ gnos \in [Server -> 1 .. MaxTxns + 1]
      /\ names \in [Table -> Names] /\ colCache \in [Table -> Names \cup {None}]
      /\ reader = "scanning"
  BY <1>2 DEF Init
<1>4. <<>> \in Seq(Change) /\ Len(<<>>) = 0
  OBVIOUS
<1>5. Total(<<>>) = 0
  BY <1>4, SumsAre
<1>6. b \in Iterator /\ b.pending = <<>> /\ b.rowCount = 0 /\ b.rowBytes = 0 /\ b.tooLarge = FALSE
  BY <1>4 DEF Init, Iterator
<1>7. ~OverLimit(b)
  BY <1>6, BinlogAssumption DEF OverLimit
<1>8. at = [txn |-> 1, event |-> 1] /\ Len(log) = 0
  BY DEF Init
<1>9. Positioned /\ AfterMap
  BY <1>8 DEF Positioned, AfterMap, Scan
<1> QED BY <1>1, <1>3, <1>4, <1>5, <1>6, <1>7, <1>9 DEF Inv, Typed, Within

LEMMA TruthIs ==
  ASSUME NEW w \in Run, NEW gtid \in Gtid
  PROVE  Truth(gtid, w) \in Commits
<1> DEFINE n == Len(w.stmts)
<1>1. /\ w \in Shape /\ n \in Nat /\ DOMAIN w.stmts = 1 .. n
      /\ \A i \in 1 .. n : w.stmts[i] \in Written
  BY RunStatements
<1>2. n \in 0 .. n
  BY <1>1
<1>3. UserChanges(w)[n] \in Seq(Change)
  BY <1>1, <1>2, UserChangesIs
<1>4. \A i \in 1 .. n : MarkersOf(w.stmts[i]) \subseteq Image
  <2> SUFFICES ASSUME NEW stmt \in Written PROVE MarkersOf(stmt) \subseteq Image
    BY <1>1
  <2>1. stmt.rows \in Seq(Images) /\ HasImages(stmt)
    BY DEF Written, Statement
  <2>2. ASSUME stmt.op = "insert", NEW j \in DOMAIN stmt.rows
        PROVE  stmt.rows[j].after \in Image
    <3>1. stmt.rows[j] \in Images
      BY <2>1
    <3>2. stmt.rows[j].after # None
      BY <2>1, <2>2 DEF HasImages
    <3> QED BY <3>1, <3>2 DEF Images, Row
  <2> QED BY <2>2 DEF MarkersOf
<1>5. UNION {MarkersOf(w.stmts[i]) : i \in DOMAIN w.stmts} \in SUBSET Image
  <2> HIDE DEF n
  <2> QED BY <1>1, <1>4
<1>6. w.how \in How
  BY <1>1 DEF Shape
<1> QED BY <1>3, <1>5, <1>6 DEF Truth, Commits

\* The position is in what was there before the log grew.
LEMMA LogGrows ==
  ASSUME Inv, NEW es \in Batch, log' = Append(log, es), UNCHANGED <<at, b>>
  PROVE  /\ log' \in Seq(Batch) /\ Len(log') = Len(log) + 1
         /\ \A k \in 1 .. Len(log) : log'[k] = log[k]
         /\ log'[Len(log) + 1] = es
         /\ Positioned' /\ AfterMap'
<1>1. log \in Seq(Batch) /\ Len(log) \in Nat
  BY DEF Inv, Typed
<1>2. /\ log' \in Seq(Batch) /\ Len(log') = Len(log) + 1
      /\ \A k \in 1 .. Len(log) : log'[k] = log[k]
      /\ log'[Len(log) + 1] = es
  BY <1>1
<1>3. Positioned'
  <2>1. at' \in Scan /\ at'.txn \in Nat /\ at'.txn > 0 /\ at'.txn <= Len(log) + 1 /\ at = at'
    BY DEF Inv, Positioned, Scan
  <2>2. CASE at.txn <= Len(log)
    <3>1. log'[at.txn] = log[at.txn] /\ at.event <= Len(log[at.txn])
      BY <1>1, <1>2, <2>1, <2>2 DEF Inv, Positioned
    <3> QED BY <1>1, <1>2, <2>1, <2>2, <3>1 DEF Positioned
  <2>3. CASE ~(at.txn <= Len(log))
    <3>1. at.txn = Len(log) + 1 /\ at.event = 1
      BY <1>1, <2>1, <2>3 DEF Inv, Positioned
    <3>2. 1 <= Len(es)
      BY DEF Batch
    <3> QED BY <1>1, <1>2, <2>1, <3>1, <3>2 DEF Positioned
  <2> QED BY <2>2, <2>3
<1>4. AfterMap'
  <2> SUFFICES ASSUME at.event > 1, log'[at.txn][at.event - 1].type \in {"TABLE_MAP", "ROWS"}
               PROVE  b.current # None /\ ~b.current.committed
    BY DEF AfterMap
  <2>1. at.txn \in 1 .. Len(log)
    BY <1>1 DEF Inv, Positioned, Scan
  <2>2. log'[at.txn] = log[at.txn]
    BY <1>2, <2>1
  <2> QED BY <2>2 DEF Inv, AfterMap
<1> QED BY <1>2, <1>3, <1>4

\* The transaction that Commit and Alter append.
LEMMA LogAppends ==
  ASSUME Inv, NEW s \in Server, gnos[s] <= MaxTxns, NEW w \in Run, NEW gtid,
         gtid = [server |-> s, gno |-> gnos[s]],
         gnos' = [gnos EXCEPT ![s] = @ + 1],
         log' = Append(log, EventsOf(gtid, w)),
         committed' = committed \/ committed' = Append(committed, Truth(gtid, w)),
         names' \in [Table -> Names], UNCHANGED <<at, b, colCache, emitted, reader>>
  PROVE  Inv' /\ gtid \in Gtid /\ EventsOf(gtid, w) \in Batch
<1>1. gnos[s] \in 1 .. MaxTxns + 1 /\ gnos \in [Server -> 1 .. MaxTxns + 1] /\ MaxTxns \in Nat
  BY BinlogAssumption DEF Inv, Typed
<1>2. gnos[s] \in 1 .. MaxTxns
  BY <1>1
<1>3. gtid \in Gtid
  BY <1>2 DEF Gtid
<1>4. gnos' \in [Server -> 1 .. MaxTxns + 1]
  <2>1. gnos[s] + 1 \in 1 .. MaxTxns + 1
    BY <1>1, <1>2
  <2> QED BY <1>1, <2>1
<1>5. EventsOf(gtid, w) \in Batch
  BY <1>3, EventsAre DEF Inv, Typed
<1>6. committed' \in Seq(Commits)
  <2>1. Truth(gtid, w) \in Commits
    BY <1>3, TruthIs
  <2>2. committed \in Seq(Commits)
    BY DEF Inv, Typed
  <2>3. Append(committed, Truth(gtid, w)) \in Seq(Commits)
    <3> PICK t : t = Truth(gtid, w)
      OBVIOUS
    <3> HIDE DEF Commits
    <3> QED BY <2>1, <2>2
  <2>4. committed' \in {committed, Append(committed, Truth(gtid, w))}
    OBVIOUS
  <2> QED BY <2>2, <2>3, <2>4, Zenon
<1>7. log' \in Seq(Batch) /\ Positioned' /\ AfterMap'
  BY <1>5, LogGrows
<1>8. Within(b)' /\ Typed'
  BY <1>4, <1>6, <1>7 DEF Inv, Typed, Within, OverLimit
<1> QED BY <1>3, <1>5, <1>7, <1>8 DEF Inv

LEMMA InvCommit ==
  ASSUME Inv, NEW s \in Server, NEW w \in Workload, Commit(s, w)
  PROVE  Inv'
<1> DEFINE gtid == [server |-> s, gno |-> gnos[s]]
<1>1. w \in Run
  BY WorkloadRuns
<1>2. /\ gnos[s] <= MaxTxns /\ gnos' = [gnos EXCEPT ![s] = @ + 1]
      /\ log' = Append(log, EventsOf(gtid, w))
      /\ committed' = committed \/ committed' = Append(committed, Truth(gtid, w))
      /\ names' = names /\ UNCHANGED <<at, b, colCache, emitted, reader>>
  BY DEF Commit, CanWrite
<1>3. names' \in [Table -> Names]
  BY <1>2 DEF Inv, Typed
<1> HIDE DEF gtid
<1> QED BY <1>1, <1>2, <1>3, LogAppends DEF gtid

Ddl == [how |-> "ddl", joined |-> FALSE, stmts |-> <<>>]
LEMMA DdlRuns == Ddl \in Run
<1>1. <<>> \in Seq(Statement) /\ DOMAIN <<>> = {}
  OBVIOUS
<1> QED BY <1>1 DEF Ddl, Run, Shape, How

LEMMA InvAlter ==
  ASSUME Inv, NEW s \in Server, NEW t \in Table \ SystemTable, Alter(s, t)
  PROVE  Inv'
<1> DEFINE gtid == [server |-> s, gno |-> gnos[s]]
<1>1. Ddl \in Run
  BY DdlRuns
<1>2. /\ gnos[s] <= MaxTxns /\ gnos' = [gnos EXCEPT ![s] = @ + 1]
      /\ log' = Append(log, EventsOf(gtid, Ddl))
      /\ committed' = Append(committed, Truth(gtid, Ddl))
      /\ names[t] < MaxAlter /\ names' = [names EXCEPT ![t] = @ + 1]
      /\ UNCHANGED <<at, b, colCache, emitted, reader>>
  BY DEF Alter, CanWrite, Ddl
<1>3. names' \in [Table -> Names]
  <2>1. names \in [Table -> Names] /\ names[t] \in 0 .. MaxAlter /\ MaxAlter \in Nat
    BY BinlogAssumption DEF Inv, Typed, Names
  <2>2. names[t] + 1 \in Names
    BY <1>2, <2>1 DEF Names
  <2> QED BY <1>2, <2>1, <2>2
<1> HIDE DEF gtid
<1> QED BY <1>1, <1>2, <1>3, LogAppends DEF gtid

\* What an event is, where it is and which position comes after it.
LEMMA Reads ==
  ASSUME Inv, Reading, Taken, log' = log
  PROVE  /\ at.txn \in 1 .. Len(log) /\ at.event \in 1 .. Len(log[at.txn])
         /\ log[at.txn] \in Batch /\ Event \in LogEvent
         /\ Event.type = "ROWS" => /\ b.current # None /\ ~b.current.committed /\ at.event > 1
                                   /\ \E stmt \in Written : Event = RowsEvent(stmt)
         /\ Positioned'
         /\ \/ /\ at'.txn = at.txn /\ at'.event = at.event + 1 /\ at.event < Len(log[at.txn])
            \/ at'.txn = at.txn + 1 /\ at'.event = 1 /\ at.event = Len(log[at.txn])
<1>1. /\ log \in Seq(Batch) /\ at \in Scan /\ at.txn \in Nat /\ at.txn > 0 /\ at.txn <= Len(log)
      /\ at.event \in Nat /\ at.event > 0 /\ at.event <= Len(log[at.txn]) /\ Len(log) \in Nat
  BY DEF Inv, Typed, Positioned, Reading, Scan
<1>2. at.txn \in 1 .. Len(log)
  BY <1>1
<1>3. log[at.txn] \in Batch
  BY <1>1, <1>2
<1> DEFINE es == log[at.txn]
           e  == at.event
<1>4. es \in Seq(LogEvent) /\ RowsFollow(es) /\ Len(es) \in Nat /\ DOMAIN es = 1 .. Len(es)
  BY <1>3 DEF Batch
<1>5. e \in 1 .. Len(es)
  BY <1>1, <1>4
<1>6. Event \in LogEvent /\ Event = es[e]
  BY <1>4, <1>5 DEF Event
<1>7. ASSUME Event.type = "ROWS"
      PROVE  /\ b.current # None /\ ~b.current.committed /\ e > 1
             /\ \E stmt \in Written : Event = RowsEvent(stmt)
  <2>1. e - 1 \in DOMAIN es /\ es[e - 1].type \in {"TABLE_MAP", "ROWS"}
    BY <1>4, <1>5, <1>6, <1>7 DEF RowsFollow
  <2>2. e > 1
    BY <1>4, <1>5, <2>1
  <2>3. Event \in RowEvent
    BY <1>6, <1>7, EventTypes DEF LogEvent
  <2> QED BY <2>1, <2>2, <2>3 DEF Inv, AfterMap, RowEvent
<1>8. at' = IF e < Len(es) THEN [at EXCEPT !.event = @ + 1] ELSE [txn |-> at.txn + 1, event |-> 1]
  BY DEF Taken
<1> HIDE DEF es
<1>9. CASE e < Len(es)
  <2>1. at' \in Scan /\ at'.txn = at.txn /\ at'.event = e + 1
    BY <1>1, <1>8, <1>9 DEF Scan
  <2>2. e + 1 <= Len(es)
    BY <1>4, <1>5, <1>9
  <2>3. Positioned'
    BY <1>1, <2>1, <2>2 DEF Positioned, es
  <2> QED BY <1>2, <1>3, <1>5, <1>6, <1>7, <1>9, <2>1, <2>3 DEF es
<1>10. CASE ~(e < Len(es))
  <2>1. at' = [txn |-> at.txn + 1, event |-> 1]
    BY <1>8, <1>10
  <2>2. at' \in Scan /\ at'.txn = at.txn + 1 /\ at'.event = 1
    BY <1>1, <2>1 DEF Scan
  <2>3. e = Len(es)
    BY <1>4, <1>5, <1>10
  <2>4. 1 <= Len(log[at.txn + 1]) \/ at.txn + 1 = Len(log) + 1
    <3>1. at.txn + 1 <= Len(log) => at.txn + 1 \in 1 .. Len(log)
      BY <1>1
    <3>2. at.txn + 1 <= Len(log) => log[at.txn + 1] \in Batch
      BY <1>1, <3>1
    <3>3. \A x \in Batch : 1 <= Len(x)
      BY DEF Batch
    <3> QED BY <1>1, <3>2, <3>3
  <2>5. Positioned'
    BY <1>1, <2>2, <2>4 DEF Positioned
  <2> QED BY <1>2, <1>3, <1>5, <1>6, <1>7, <2>2, <2>3, <2>5 DEF es
<1> QED BY <1>9, <1>10

\* An event was read, and the iterator has become b'.
LEMMA InvReads ==
  ASSUME Inv, Reading, Taken, UNCHANGED <<committed, gnos, names, log, emitted>>,
         b' \in Iterator, Within(b'), colCache' \in [Table -> Names \cup {None}],
         reader' \in {"scanning", "failed"},
         Event.type \in {"TABLE_MAP", "ROWS"} => b'.current # None /\ ~b'.current.committed
  PROVE  Inv'
<1>1. AfterMap'
  <2> SUFFICES ASSUME at'.event > 1, log[at'.txn][at'.event - 1].type \in {"TABLE_MAP", "ROWS"}
               PROVE  b'.current # None /\ ~b'.current.committed
    BY DEF AfterMap
  <2>1. at'.txn = at.txn /\ at'.event = at.event + 1 /\ at.event \in Nat
    BY Reads
  <2>2. at'.event - 1 = at.event
    BY <2>1
  <2> QED BY <2>1, <2>2 DEF Event
<1>2. Positioned'
  BY Reads
<1>3. Typed'
  BY DEF Inv, Typed
<1>4. Within(b)'
  BY DEF Within, OverLimit
<1> QED BY <1>1, <1>2, <1>3, <1>4 DEF Inv

LEMMA InvReadPlain ==
  ASSUME Inv, ReadPlain
  PROVE  Inv'
<1>1. /\ Reading /\ Taken /\ Event.type # "ROWS"
      /\ UNCHANGED <<committed, gnos, names, log, colCache, emitted, reader>>
      /\ b' = CASE Event.type = "GTID"      -> BeginTransaction(b, Event)
                [] Event.type = "QUERY"     -> HandleQuery(b, Event)
                [] Event.type = "TABLE_MAP" -> HandleTableMap(b, Event)
                [] Event.type = "XID"       -> CommitTransaction(b)
                [] OTHER                    -> b
  BY DEF ReadPlain
<1>2. b \in Iterator /\ Within(b) /\ reader = "scanning" /\ ~Complete
      /\ colCache \in [Table -> Names \cup {None}]
  BY <1>1 DEF Inv, Typed, Reading
<1>3. Event \in LogEvent
  BY <1>1, Reads
<1>4. /\ b' \in Iterator /\ KeepsBuffer(b, b')
      /\ Event.type = "TABLE_MAP" => b'.current # None /\ ~b'.current.committed
  <2>1. CASE Event.type = "GTID"
    <3>1. Event.gtid \in Gtid /\ b' = BeginTransaction(b, Event)
      BY <1>1, <1>3, <2>1, EventTypes DEF LogEvent
    <3> QED BY <1>2, <2>1, <3>1, BeginTransactionIs DEF Open
  <2>2. CASE Event.type = "QUERY"
    <3>1. b' = HandleQuery(b, Event)
      BY <1>1, <2>2
    <3> QED BY <1>2, <2>2, <3>1, HandleQueryIs DEF Open, AfterQuery
  <2>3. CASE Event.type = "TABLE_MAP"
    <3>1. b' = HandleTableMap(b, Event) /\ Event \in TableMap
      BY <1>1, <1>3, <2>3, EventTypes DEF LogEvent
    <3>2. /\ b' \in Open /\ KeepsBuffer(b, b') /\ b'.current = Opened(b).current
      BY <1>2, <3>1, HandleTableMapIs
    <3>3. b'.current = IF b.current = None THEN NewTransaction ELSE b.current
      BY <1>2, <3>2, OpenedIs
    <3>4. ~b'.current.committed
      BY <1>2, <3>3 DEF NewTransaction, Complete
    <3> QED BY <3>2, <3>4 DEF Open
  <2>4. CASE Event.type = "XID"
    <3>1. b' = CommitTransaction(b)
      BY <1>1, <2>4
    <3> QED BY <1>2, <2>4, <3>1, CommitTransactionIs
  <2>5. CASE Event.type \notin {"GTID", "QUERY", "TABLE_MAP", "XID"}
    <3>1. b' = b
      BY <1>1, <2>5
    <3> QED BY <1>2, <2>5, <3>1 DEF KeepsBuffer
  <2> QED BY <2>1, <2>2, <2>3, <2>4, <2>5
<1>5. Within(b')
  BY <1>2, <1>4, WithinStays
<1> QED BY <1>1, <1>2, <1>4, <1>5, InvReads

LEMMA InvReadForeignRows ==
  ASSUME Inv, ReadForeignRows
  PROVE  Inv'
<1>1. /\ Reading /\ Taken /\ Event.type = "ROWS"
      /\ UNCHANGED <<committed, gnos, names, log, colCache, emitted, reader>>
      /\ b' = IF Mapped(Event) /\ Event.table = MarkerTable THEN Marked(b, Event) ELSE b
  BY DEF ReadForeignRows
<1>2. b \in Iterator /\ Within(b) /\ reader = "scanning"
      /\ colCache \in [Table -> Names \cup {None}]
  BY <1>1 DEF Inv, Typed, Reading
<1>3. PICK stmt \in Written : Event = RowsEvent(stmt)
  BY <1>1, Reads
<1>4. b.current # None /\ ~b.current.committed
  BY <1>1, Reads
<1>5. b' \in Iterator /\ KeepsBuffer(b, b') /\ b'.current = b.current
  <2>1. CASE Mapped(Event) /\ Event.table = MarkerTable
    <3>1. stmt.table = MarkerTable
      BY <1>3, <2>1 DEF RowsEvent
    <3> QED BY <1>1, <1>2, <1>3, <2>1, <3>1, MarkedIs
  <2>2. CASE ~(Mapped(Event) /\ Event.table = MarkerTable)
    <3>1. b' = b
      BY <1>1, <2>2
    <3> QED BY <1>2, <3>1 DEF KeepsBuffer
  <2> QED BY <2>1, <2>2
<1>6. Within(b')
  BY <1>2, <1>5, WithinStays
<1> QED BY <1>1, <1>2, <1>4, <1>5, <1>6, InvReads

LEMMA InvReadRows ==
  ASSUME Inv, ReadRows
  PROVE  Inv'
<1> DEFINE t == Event.table
<1>1. /\ Reading /\ Taken /\ Event.type = "ROWS" /\ Mapped(Event)
      /\ UNCHANGED <<committed, gnos, names, log, emitted>>
      /\ IF colCache[t] = None /\ t \notin InnoDB
         THEN reader' = "failed" /\ UNCHANGED <<b, colCache>>
         ELSE /\ colCache' = [colCache EXCEPT ![t] = CachedColumns(t)]
              /\ b' = HandleRows(b, Event, CachedColumns(t))
              /\ UNCHANGED reader
  BY DEF ReadRows
<1>2. b \in Iterator /\ Within(b) /\ reader = "scanning"
      /\ colCache \in [Table -> Names \cup {None}] /\ names \in [Table -> Names]
  BY <1>1 DEF Inv, Typed, Reading
<1>3. PICK stmt \in Written : Event = RowsEvent(stmt)
  BY <1>1, Reads
<1>4. b.current # None /\ ~b.current.committed
  BY <1>1, Reads
<1> HIDE DEF t
<1>5. CASE reader' = "failed" /\ UNCHANGED <<b, colCache>>
  <2>1. Within(b') /\ b' \in Iterator /\ b'.current # None /\ ~b'.current.committed
        /\ colCache' \in [Table -> Names \cup {None}]
    BY <1>2, <1>4, <1>5
  <2> QED BY <1>1, <1>5, <2>1, InvReads
<1>6. CASE /\ colCache' = [colCache EXCEPT ![t] = CachedColumns(t)]
           /\ b' = HandleRows(b, Event, CachedColumns(t))
           /\ UNCHANGED reader
  <2>1. t \in Table
    BY <1>3 DEF t, RowsEvent, Written, Statement
  <2>2. colCache' \in [Table -> Names \cup {None}]
    BY <1>2, <1>6, <2>1 DEF CachedColumns
  <2>3. b \in Open
    BY <1>2, <1>4 DEF Open
  <2>4. /\ b' \in Open /\ b'.current.committed = b.current.committed
        /\ Within(b')
    <3>1. CASE b.tableMap.names = CachedColumns(t)
      <4>1. ExtendedBy(b, b', StatementChanges(stmt))
        BY <1>3, <1>6, <2>3, <3>1, HandleRowsAppends
      <4> QED BY <1>2, <4>1 DEF ExtendedBy, SameBut
    <3>2. CASE b.tableMap.names # CachedColumns(t)
      <4>1. Refused(b, b')
        BY <1>6, <2>3, <3>2, HandleRowsRefuses
      <4>2. b' \in Open /\ b'.current.committed = b.current.committed /\ KeepsBuffer(b, b')
        BY <4>1 DEF Refused, KeepsBuffer
      <4> QED BY <1>2, <4>2, WithinStays
    <3> QED BY <3>1, <3>2
  <2>5. b' \in Iterator /\ b'.current # None /\ ~b'.current.committed
    BY <1>4, <2>4 DEF Open
  <2> QED BY <1>1, <1>2, <1>6, <2>2, <2>4, <2>5, InvReads
<1> QED BY <1>1, <1>5, <1>6 DEF t

LEMMA InvEmit ==
  ASSUME Inv, Emit
  PROVE  Inv'
<1>1. /\ reader = "scanning" /\ Complete
      /\ emitted' = Append(emitted, [txn |-> b.current, markers |-> b.markerActionIDs])
      /\ b' = Cleared(b) /\ reader' \in {"scanning", "ended"}
      /\ UNCHANGED <<committed, gnos, names, log, at, colCache>>
  BY DEF Emit
<1>2. b \in Iterator /\ b.current \in Transaction /\ b.markerActionIDs \in SUBSET Image
  BY <1>1 DEF Inv, Typed, Complete, Iterator
<1>3. b' \in Iterator /\ Within(b')
  BY <1>1, <1>2, ClearedIs
<1>4. emitted' \in Seq(Returned)
  <2> DEFINE e == [txn |-> b.current, markers |-> b.markerActionIDs]
  <2>1. e \in Returned
    BY <1>2 DEF Returned
  <2>2. emitted \in Seq(Returned) /\ emitted' = Append(emitted, e)
    BY <1>1 DEF Inv, Typed
  <2> HIDE DEF e
  <2> QED BY <2>1, <2>2
<1>5. Positioned' /\ AfterMap'
  BY <1>1 DEF Inv, Positioned, AfterMap, Complete
<1>6. Within(b)'
  BY <1>3 DEF Within, OverLimit
<1> QED BY <1>1, <1>3, <1>4, <1>5, <1>6 DEF Inv, Typed

LEMMA InvNext == Inv /\ [Next]_vars => Inv'
<1> SUFFICES ASSUME Inv, [Next]_vars PROVE Inv'
  OBVIOUS
<1>1. CASE \E s \in Server : \E w \in Workload : Commit(s, w)
  BY <1>1, InvCommit
<1>2. CASE \E s \in Server : \E t \in Table \ SystemTable : Alter(s, t)
  BY <1>2, InvAlter
<1>3. CASE Emit
  BY <1>3, InvEmit
<1>4. CASE ReadPlain
  BY <1>4, InvReadPlain
<1>5. CASE ReadForeignRows
  BY <1>5, InvReadForeignRows
<1>6. CASE ReadRows
  BY <1>6, InvReadRows
<1>7. CASE UNCHANGED vars
  BY <1>7 DEF vars, Inv, Typed, Within, OverLimit, Positioned, AfterMap
<1> QED BY <1>1, <1>2, <1>3, <1>4, <1>5, <1>6, <1>7 DEF Next, Iterate

LEMMA InvAlways == Spec => []Inv
BY InvInit, InvNext, PTL DEF Spec

\* Every transaction, position and buffer is of its type.
THEOREM TypeCorrect == Spec => []TypeOK
<1>1. Inv => TypeOK
  <2> SUFFICES ASSUME Inv PROVE TypeOK
    OBVIOUS
  <2>1. \A i \in DOMAIN committed : committed[i].gtid \in Gtid /\ committed[i].changes \in Seq(Change)
    <3>1. \A i \in DOMAIN committed : committed[i] \in Commits
      <4> HIDE DEF Commits
      <4> QED BY DEF Inv, Typed
    <3> QED BY <3>1 DEF Commits
  <2>2. \A i \in DOMAIN emitted : emitted[i].txn \in Transaction /\ emitted[i].markers \subseteq Image
    <3>1. \A i \in DOMAIN emitted : emitted[i] \in Returned
      <4> HIDE DEF Returned
      <4> QED BY DEF Inv, Typed
    <3> QED BY <3>1 DEF Returned
  <2> QED BY <2>1, <2>2 DEF TypeOK, Inv, Typed, Iterator
<1> QED BY <1>1, InvAlways, PTL

\* However large a transaction is, of whatever tables and statements, the iterator never holds
\* more of it than the policy's limits allow.
THEOREM MemoryIsBounded == Spec => []BoundedMemory
<1>1. Inv => BoundedMemory
  <2> SUFFICES ASSUME Inv PROVE BoundedMemory
    OBVIOUS
  <2>1. Total(<<>>) = 0 /\ Len(<<>>) = 0
    <3>1. <<>> \in Seq(Change) /\ Len(<<>>) = 0
      OBVIOUS
    <3> QED BY <3>1, SumsAre
  <2>2. RowLimit \in Nat /\ ByteLimit \in Nat /\ b.rowCount \in Nat /\ b.rowBytes \in Nat
    BY BinlogAssumption DEF Inv, Typed, Iterator
  <2>3. CASE b.tooLarge
    BY <2>1, <2>2, <2>3 DEF Inv, Within, BoundedMemory
  <2>4. CASE ~b.tooLarge
    BY <2>2, <2>4 DEF Inv, Within, OverLimit, BoundedMemory
  <2> QED BY <2>3, <2>4
<1> QED BY <1>1, InvAlways, PTL

-----------------------------------------------------------------------------
(* Transactions that are returned as they were committed.                   *)

OrdinaryWorkload == \A w \in Workload : Plain(w)

\* The events of a plain transaction.
Wrote(es, gtid, w) ==
  /\ es[1] = [type |-> "GTID", gtid |-> gtid]
  /\ w.how = "ddl" => Len(es) = 2 /\ es[2] = Query("non_row")
  /\ w.how # "ddl" =>
       /\ Len(es) = 2 * Len(w.stmts) + 3 /\ es[2] = Query("row")
       /\ \A i \in 1 .. Len(w.stmts) : /\ es[2 * i + 1] \in TableMap
                                       /\ es[2 * i + 1].table = w.stmts[i].table
                                       /\ es[2 * i + 2] = RowsEvent(w.stmts[i])
       /\ es[2 * Len(w.stmts) + 3] = IF w.how = "commit" THEN [type |-> "XID"] ELSE Query("row")

LEMMA PlainEvents ==
  ASSUME NEW w \in Run, Plain(w), names \in [Table -> Names], NEW gtid \in Gtid
  PROVE  Wrote(EventsOf(gtid, w), gtid, w)
<1> DEFINE g   == [type |-> "GTID", gtid |-> gtid]
           row == Query("row")
           non == Query("non_row")
           end == IF w.how = "commit" THEN [type |-> "XID"] ELSE Query("row")
           se  == StatementEvents(w)
           es  == EventsOf(gtid, w)
           n   == Len(w.stmts)
           x   == <<row>>
           z   == <<end>>
<1>1. /\ g \in GtidEvent /\ row \in LogEvent /\ end \in LogEvent
      /\ row.type # "ROWS" /\ end.type # "ROWS"
  BY DEF LogEvent, GtidEvent, QueryEvent, EndEvent, Query
<1>2. es[1] = g
  BY EventsAre
<1>3. CASE w.how = "ddl"
  <2>1. es = <<g>> \o <<non>>
    BY <1>3 DEF EventsOf
  <2>2. Len(es) = 2 /\ es[2] = non
    <3> HIDE DEF g, non, es
    <3> QED BY <2>1
  <2> QED BY <1>2, <1>3, <2>2 DEF Wrote
<1>4. CASE w.how # "ddl"
  <2>1. w.how \in {"commit", "autocommit"} /\ ~w.joined
    BY <1>4 DEF Plain
  <2>2. es = <<g>> \o (x \o se \o z)
    BY <2>1 DEF EventsOf
  <2>3. /\ se \in Seq(LogEvent) /\ Len(se) = 2 * n /\ RowsFollow(se) /\ n \in Nat
        /\ \A i \in 1 .. n : /\ se[2 * i - 1] \in TableMap
                             /\ se[2 * i - 1].table = w.stmts[i].table
                             /\ se[2 * i] = RowsEvent(w.stmts[i])
    BY <2>1, StatementEventsAre, RunStatements
  <2> HIDE DEF g, row, end, se, es, n
  <2>4. /\ x \in Seq(LogEvent) /\ z \in Seq(LogEvent) /\ NoRows(x) /\ NoRows(z)
        /\ Len(x) = 1 /\ Len(z) = 1 /\ x[1] = row /\ z[1] = end
    BY <1>1 DEF NoRows
  <2>5. es = LaidOut(g, x, se, z)
    BY <2>2 DEF LaidOut
  <2> HIDE DEF x, z
  <2>6. /\ Len(es) = 1 + Len(x) + Len(se) + Len(z)
        /\ \A i \in 1 .. Len(x) : es[1 + i] = x[i]
        /\ \A i \in 1 .. Len(se) : es[1 + Len(x) + i] = se[i]
        /\ \A i \in 1 .. Len(z) : es[1 + Len(x) + Len(se) + i] = z[i]
    <3>1. g \in GtidEvent /\ RowsFollow(se) /\ se \in Seq(LogEvent)
      BY <1>1, <2>3
    <3>2. Holds(LaidOut(g, x, se, z), x, se, z)
      BY <2>4, <3>1, Layout
    <3>3. Holds(es, x, se, z)
      BY <2>5, <3>2
    <3> QED BY <3>3 DEF Holds
  <2>7. Len(es) = 2 * n + 3 /\ es[2] = row
    <3>1. 1 \in 1 .. Len(x)
      BY <2>4
    <3>2. es[1 + 1] = x[1]
      BY <2>6, <3>1
    <3> QED BY <2>3, <2>4, <2>6, <3>2
  <2>8. es[2 * n + 3] = end
    <3>1. 1 \in 1 .. Len(z) /\ 1 + Len(x) + Len(se) + 1 = 2 * n + 3
      BY <2>3, <2>4
    <3>2. es[1 + Len(x) + Len(se) + 1] = z[1]
      BY <2>6, <3>1
    <3> QED BY <2>4, <3>1, <3>2
  <2>9. ASSUME NEW i \in 1 .. n
        PROVE  es[2 * i + 1] = se[2 * i - 1] /\ es[2 * i + 2] = se[2 * i]
    <3>1. 2 * i - 1 \in 1 .. Len(se) /\ 2 * i \in 1 .. Len(se)
      BY <2>3
    <3>2. 1 + Len(x) + (2 * i - 1) = 2 * i + 1 /\ 1 + Len(x) + 2 * i = 2 * i + 2
      BY <2>3, <2>4
    <3>3. es[1 + Len(x) + (2 * i - 1)] = se[2 * i - 1] /\ es[1 + Len(x) + 2 * i] = se[2 * i]
      BY <2>6, <3>1
    <3> QED BY <3>2, <3>3
  <2>10. \A i \in 1 .. n : /\ es[2 * i + 1] \in TableMap
                          /\ es[2 * i + 1].table = w.stmts[i].table
                          /\ es[2 * i + 2] = RowsEvent(w.stmts[i])
    BY <2>3, <2>9
  <2>11. es[1] = [type |-> "GTID", gtid |-> gtid]
    BY <1>2 DEF g
  <2> QED BY <1>4, <2>7, <2>8, <2>10, <2>11 DEF Wrote, es, n, row, end
<1> QED BY <1>3, <1>4

\* The transaction that the k-th events of the log are of.
Transactions == Workload \cup {Ddl}
Source(k, w) == /\ Plain(w) /\ committed[k] = Truth(committed[k].gtid, w)
                /\ Wrote(log[k], committed[k].gtid, w)
Logged == /\ Len(log) = Len(committed)
          /\ \A k \in 1 .. Len(log) : \E w \in Transactions : Source(k, w)

Cached == \A t \in Table : colCache[t] # None => t \in InnoDB

\* What is returned for a committed transaction.
Right(txn, markers, c) ==
  /\ txn.gtid = c.gtid
  /\ txn.executable => txn.rows = c.changes
  /\ "schema" \notin txn.reasons =>
       txn.rowCount = Len(c.changes) /\ txn.tables = {c.changes[j].table : j \in DOMAIN c.changes}
  /\ markers \subseteq c.actions
Told == /\ Len(emitted) <= Len(log)
        /\ \A i \in 1 .. Len(emitted) : Right(emitted[i].txn, emitted[i].markers, committed[i])

\* The iterator between two transactions.
Fresh(it) == /\ it.current = None /\ it.pending = <<>> /\ it.rowCount = 0 /\ it.tooLarge = FALSE
             /\ it.markerActionIDs = {}

\* The iterator when it has read the rows of the first p statements of w.
SoFar(it, c, w, p) ==
  /\ it.current # None /\ it.current.gtid = c.gtid
  /\ ~it.current.committed /\ ~it.current.executable /\ it.current.reasons \subseteq {"schema"}
  /\ it.markerActionIDs \subseteq c.actions
  /\ "schema" \notin it.current.reasons =>
       LET u == UserChanges(w)[p] IN
         /\ it.rowCount = Len(u) /\ it.current.rowCount = Len(u)
         /\ it.current.tables = {u[j].table : j \in DOMAIN u}
         /\ ~it.tooLarge => it.pending = u
  /\ w.how = "autocommit" => \A i \in 1 .. p : w.stmts[i].table \in InnoDB \cup SystemTable

\* The event it reads next.
Ahead(it, w, p, e) ==
  \/ e = 2 /\ p = 0
  \/ e = 2 * p + 3
  \/ e = 2 * p + 4 /\ p < Len(w.stmts) /\ it.tableMap # None /\ it.tableMap.table = w.stmts[p + 1].table

Inside(w, p) == SoFar(b, committed[at.txn], w, p) /\ Ahead(b, w, p, at.event)

Where ==
  reader = "scanning" =>
    /\ Complete => /\ at.event = 1 /\ Len(emitted) = at.txn - 2
                   /\ Right(b.current, b.markerActionIDs, committed[at.txn - 1])
    /\ ~Complete => /\ Len(emitted) = at.txn - 1
                    /\ at.event = 1 => Fresh(b)
                    /\ at.event > 1 => \E w \in Transactions :
                         Source(at.txn, w) /\ \E p \in 0 .. Len(w.stmts) : Inside(w, p)

Faithful == Inv /\ Logged /\ Cached /\ Told /\ Where

LEMMA TransactionsArePlain ==
  ASSUME OrdinaryWorkload, NEW w \in Transactions
  PROVE  /\ w \in Run /\ Plain(w) /\ w \in Shape /\ Len(w.stmts) \in Nat
         /\ DOMAIN w.stmts = 1 .. Len(w.stmts)
         /\ \A i \in 1 .. Len(w.stmts) : w.stmts[i] \in Written
<1>1. Plain(Ddl)
  BY DEF Ddl, Plain
<1>2. w \in Run /\ Plain(w)
  BY <1>1, WorkloadRuns, DdlRuns DEF Transactions, OrdinaryWorkload
<1> QED BY <1>2, RunStatements

LEMMA FaithfulInit == Init => Faithful
<1> SUFFICES ASSUME Init PROVE Faithful
  OBVIOUS
<1>1. Inv
  BY InvInit
<1>2. Len(log) = 0 /\ Len(committed) = 0 /\ Len(emitted) = 0
  BY DEF Init
<1>3. b.current = None /\ b.pending = <<>> /\ b.rowCount = 0 /\ b.tooLarge = FALSE
      /\ b.markerActionIDs = {} /\ at.txn = 1 /\ at.event = 1
  BY DEF Init
<1>4. Where
  BY <1>2, <1>3 DEF Where, Complete, Fresh
<1>5. Cached
  BY DEF Init, Cached
<1> QED BY <1>1, <1>2, <1>4, <1>5 DEF Faithful, Logged, Told

\* The log grows: what was there and what was made of it stay as they are.
LEMMA FaithfulLogAppends ==
  ASSUME Faithful, OrdinaryWorkload, NEW s \in Server, gnos[s] <= MaxTxns,
         NEW w \in Transactions, NEW gtid,
         gtid = [server |-> s, gno |-> gnos[s]],
         gnos' = [gnos EXCEPT ![s] = @ + 1],
         log' = Append(log, EventsOf(gtid, w)), committed' = Append(committed, Truth(gtid, w)),
         names' \in [Table -> Names], UNCHANGED <<at, b, colCache, emitted, reader>>
  PROVE  Faithful'
<1> PICK n : n = Len(log)
  OBVIOUS
<1> DEFINE es == EventsOf(gtid, w)
<1>1. w \in Run /\ Plain(w) /\ Inv
  BY TransactionsArePlain DEF Faithful
<1>2. Inv' /\ gtid \in Gtid /\ es \in Batch
  BY <1>1, LogAppends
<1>3. log \in Seq(Batch) /\ committed \in Seq(Commits) /\ n \in Nat /\ Len(committed) = n
  BY <1>1 DEF Inv, Typed, Faithful, Logged
<1>4. Wrote(es, gtid, w)
  BY <1>1, <1>2, PlainEvents DEF Inv, Typed
<1>5. Truth(gtid, w) \in Commits /\ Truth(gtid, w).gtid = gtid
  BY <1>1, <1>2, TruthIs DEF Truth
<1> HIDE DEF es
<1>6. /\ Len(log') = n + 1 /\ log'[n + 1] = es
      /\ \A k \in 1 .. n : log'[k] = log[k]
  BY <1>2, <1>3 DEF es
<1>7. /\ Len(committed') = n + 1 /\ committed'[n + 1] = Truth(gtid, w)
      /\ \A k \in 1 .. n : committed'[k] = committed[k]
  <2> HIDE DEF Commits
  <2> QED BY <1>3, <1>5
<1>8. \A k \in 1 .. n : \A x : Source(k, x) => Source(k, x)'
  BY <1>6, <1>7 DEF Source
<1>9. Source(n + 1, w)'
  <2>1. committed'[n + 1].gtid = gtid
    BY <1>5, <1>7
  <2>2. Wrote(log'[n + 1], committed'[n + 1].gtid, w)
    BY <1>4, <1>6, <2>1
  <2>3. committed'[n + 1] = Truth(committed'[n + 1].gtid, w)
    BY <1>7, <2>1
  <2> QED BY <1>1, <2>2, <2>3 DEF Source
<1>10. Logged'
  <2> SUFFICES ASSUME NEW k \in 1 .. n + 1 PROVE \E x \in Transactions : Source(k, x)'
    BY <1>6, <1>7 DEF Logged
  <2>1. CASE k = n + 1
    BY <1>9, <2>1
  <2>2. CASE k # n + 1
    <3>1. k \in 1 .. n
      BY <1>3, <2>2
    <3> QED BY <1>8, <3>1 DEF Faithful, Logged
  <2> QED BY <2>1, <2>2
<1>11. Told'
  <2>1. Len(emitted) <= n /\ Len(emitted) \in Nat
    BY <1>1 DEF Faithful, Told, Inv, Typed
  <2>2. \A i \in 1 .. Len(emitted) : committed'[i] = committed[i]
    BY <1>3, <1>7, <2>1
  <2> QED BY <1>3, <1>6, <2>1, <2>2 DEF Faithful, Told
<1>12. Where'
  <2> SUFFICES ASSUME reader = "scanning" PROVE Where'
    BY DEF Where
  <2>1. /\ at.txn \in Nat /\ at.txn > 0 /\ at.txn <= n + 1 /\ at.event \in Nat
        /\ at.event > 1 => at.txn \in 1 .. n
    BY <1>1, <1>3 DEF Inv, Positioned, Scan
  <2>2. CASE Complete
    <3>1. at.txn - 1 \in 1 .. n
      <4>1. Len(emitted) \in Nat /\ Len(emitted) = at.txn - 2
        BY <1>1, <2>2 DEF Faithful, Where, Inv, Typed
      <4> QED BY <1>3, <2>1, <4>1
    <3>2. committed'[at.txn - 1] = committed[at.txn - 1]
      BY <1>7, <3>1
    <3> QED BY <2>2, <3>2 DEF Faithful, Where, Complete
  <2>3. CASE ~Complete
    <3>1. Len(emitted) = at.txn - 1 /\ (at.event = 1 => Fresh(b))
      BY <2>3 DEF Faithful, Where
    <3>2. ASSUME at.event > 1
          PROVE  \E x \in Transactions : Source(at.txn, x)' /\ \E p \in 0 .. Len(x.stmts) : Inside(x, p)'
      <4>1. PICK x \in Transactions : Source(at.txn, x) /\ \E p \in 0 .. Len(x.stmts) : Inside(x, p)
        BY <2>3, <3>2 DEF Faithful, Where
      <4>2. at.txn \in 1 .. n
        BY <2>1, <3>2
      <4>3. Source(at.txn, x)'
        <5>1. Source(at.txn, x) => Plain(x) /\ committed[at.txn] = Truth(committed[at.txn].gtid, x)
                                /\ Wrote(log[at.txn], committed[at.txn].gtid, x)
          BY DEF Source
        <5> QED BY <1>6, <1>7, <4>1, <4>2, <5>1 DEF Source
      <4>4. \E p \in 0 .. Len(x.stmts) : Inside(x, p)'
        BY <1>7, <4>1, <4>2 DEF Inside
      <4> QED BY <4>3, <4>4
    <3> QED BY <2>3, <3>1, <3>2 DEF Where, Complete
  <2> QED BY <2>2, <2>3
<1>13. Cached'
  BY DEF Faithful, Cached
<1> QED BY <1>2, <1>10, <1>11, <1>12, <1>13 DEF Faithful

LEMMA FaithfulCommit ==
  ASSUME Faithful, OrdinaryWorkload, NEW s \in Server, NEW w \in Workload, Commit(s, w)
  PROVE  Faithful'
<1> DEFINE gtid == [server |-> s, gno |-> gnos[s]]
<1>1. w \in Transactions /\ w.how # "xa_prepare"
  BY DEF Transactions, OrdinaryWorkload, Plain
<1>2. /\ gnos[s] <= MaxTxns /\ gnos' = [gnos EXCEPT ![s] = @ + 1]
      /\ log' = Append(log, EventsOf(gtid, w))
      /\ committed' = Append(committed, Truth(gtid, w))
      /\ names' = names /\ UNCHANGED <<at, b, colCache, emitted, reader>>
  BY <1>1 DEF Commit, CanWrite
<1>3. names' \in [Table -> Names]
  BY <1>2 DEF Faithful, Inv, Typed
<1> HIDE DEF gtid
<1> QED BY <1>1, <1>2, <1>3, FaithfulLogAppends DEF gtid

LEMMA FaithfulAlter ==
  ASSUME Faithful, OrdinaryWorkload, NEW s \in Server, NEW t \in Table \ SystemTable, Alter(s, t)
  PROVE  Faithful'
<1> DEFINE gtid == [server |-> s, gno |-> gnos[s]]
<1>1. Ddl \in Transactions
  BY DEF Transactions
<1>2. /\ gnos[s] <= MaxTxns /\ gnos' = [gnos EXCEPT ![s] = @ + 1]
      /\ log' = Append(log, EventsOf(gtid, Ddl))
      /\ committed' = Append(committed, Truth(gtid, Ddl))
      /\ UNCHANGED <<at, b, colCache, emitted, reader>>
  BY DEF Alter, CanWrite, Ddl
<1>3. names' \in [Table -> Names]
  BY InvAlter DEF Faithful, Inv, Typed
<1> HIDE DEF gtid
<1> QED BY <1>1, <1>2, <1>3, FaithfulLogAppends DEF gtid

LEMMA FaithfulEmit ==
  ASSUME Faithful, Emit
  PROVE  Faithful'
<1> DEFINE e == [txn |-> b.current, markers |-> b.markerActionIDs]
<1>1. /\ reader = "scanning" /\ Complete /\ emitted' = Append(emitted, e) /\ b' = Cleared(b)
      /\ UNCHANGED <<committed, gnos, names, log, at, colCache>>
  BY DEF Emit
<1>2. Inv'
  BY InvEmit DEF Faithful
<1>3. /\ at.event = 1 /\ Len(emitted) = at.txn - 2
      /\ Right(b.current, b.markerActionIDs, committed[at.txn - 1])
  BY <1>1 DEF Faithful, Where
<1>4. /\ b \in Iterator /\ emitted \in Seq(Returned) /\ Len(emitted) \in Nat
      /\ at.txn <= Len(log) + 1 /\ at.txn \in Nat /\ Len(log) \in Nat
  BY DEF Faithful, Inv, Typed, Positioned, Scan
<1>5. e \in Returned /\ e.txn = b.current /\ e.markers = b.markerActionIDs
  BY <1>1, <1>4 DEF Complete, Iterator, Returned
<1> HIDE DEF e
<1>6. /\ Len(emitted') = at.txn - 1 /\ emitted'[at.txn - 1] = e
      /\ \A i \in 1 .. at.txn - 2 : emitted'[i] = emitted[i]
  <2> HIDE DEF Returned
  <2>1. /\ Len(emitted') = Len(emitted) + 1 /\ emitted'[Len(emitted) + 1] = e
        /\ \A i \in 1 .. Len(emitted) : emitted'[i] = emitted[i]
    BY <1>1, <1>4, <1>5
  <2>2. Len(emitted) + 1 = at.txn - 1
    BY <1>3, <1>4
  <2> QED BY <1>3, <2>1, <2>2
<1>7. Told'
  <2> SUFFICES ASSUME NEW i \in 1 .. at.txn - 1
               PROVE  Right(emitted'[i].txn, emitted'[i].markers, committed[i])
    BY <1>1, <1>4, <1>6 DEF Told
  <2>1. CASE i = at.txn - 1
    BY <1>3, <1>5, <1>6, <2>1
  <2>2. CASE i # at.txn - 1
    <3>1. i \in 1 .. at.txn - 2
      BY <1>4, <2>2
    <3> QED BY <1>3, <1>6, <3>1 DEF Faithful, Told
  <2> QED BY <2>1, <2>2
<1>8. Fresh(b')
  BY <1>1, <1>4, ClearedIs DEF Fresh
<1>9. Where'
  BY <1>1, <1>3, <1>6, <1>8 DEF Where, Complete, Fresh
<1>10. Logged' /\ Cached'
  BY <1>1 DEF Faithful, Logged, Source, Cached
<1> QED BY <1>2, <1>7, <1>9, <1>10 DEF Faithful

-----------------------------------------------------------------------------
(* Reading one event of a transaction.                                      *)

\* The transaction that is read, and how far.
LEMMA Situation ==
  ASSUME Faithful, OrdinaryWorkload, Reading
  PROVE  \E w \in Transactions :
           /\ Source(at.txn, w)
           /\ \/ at.event = 1 /\ Fresh(b)
              \/ at.event > 1 /\ \E p \in 0 .. Len(w.stmts) : Inside(w, p)
<1>1. /\ at.txn \in 1 .. Len(log) /\ at.event \in Nat /\ at.event > 0
      /\ reader = "scanning" /\ ~Complete
  BY DEF Faithful, Inv, Typed, Positioned, Scan, Reading
<1>2. CASE at.event = 1
  BY <1>1, <1>2 DEF Faithful, Logged, Where
<1>3. CASE at.event > 1
  BY <1>1, <1>3 DEF Faithful, Where
<1> QED BY <1>1, <1>2, <1>3

\* Which event comes when the rows of p statements have been read.
LEMMA EventHere ==
  ASSUME Faithful, OrdinaryWorkload, Reading, NEW w \in Transactions, Source(at.txn, w),
         at.event <= Len(log[at.txn]), NEW p \in 0 .. Len(w.stmts), Ahead(b, w, p, at.event)
  PROVE  \/ /\ at.event = 2 /\ p = 0 /\ w.how = "ddl"
            /\ Event = Query("non_row") /\ at.event = Len(log[at.txn])
         \/ /\ at.event = 2 /\ p = 0 /\ w.how # "ddl"
            /\ Event = Query("row") /\ at.event < Len(log[at.txn])
         \/ /\ at.event = 2 * p + 3 /\ p < Len(w.stmts) /\ w.how # "ddl"
            /\ Event \in TableMap /\ Event.table = w.stmts[p + 1].table
            /\ at.event < Len(log[at.txn])
         \/ /\ at.event = 2 * p + 3 /\ p = Len(w.stmts) /\ w.how # "ddl"
            /\ Event = IF w.how = "commit" THEN [type |-> "XID"] ELSE Query("row")
            /\ at.event = Len(log[at.txn])
         \/ /\ at.event = 2 * p + 4 /\ p < Len(w.stmts) /\ w.how # "ddl"
            /\ Event = RowsEvent(w.stmts[p + 1]) /\ at.event < Len(log[at.txn])
            /\ Mapped(Event)
<1> DEFINE n == Len(w.stmts)
<1>1. n \in Nat /\ p \in Nat /\ p <= n
  BY TransactionsArePlain
<1>2. Wrote(log[at.txn], committed[at.txn].gtid, w)
  BY DEF Source
<1>3. Event = log[at.txn][at.event]
  BY DEF Event
<1>4. CASE w.how = "ddl"
  <2>1. Len(log[at.txn]) = 2 /\ log[at.txn][2] = Query("non_row")
    BY <1>2, <1>4 DEF Wrote
  <2>2. at.event = 2 /\ p = 0
    BY <1>1, <2>1 DEF Ahead
  <2> QED BY <1>3, <1>4, <2>1, <2>2
<1>5. CASE w.how # "ddl"
  <2>1. /\ Len(log[at.txn]) = 2 * n + 3 /\ log[at.txn][2] = Query("row")
        /\ \A i \in 1 .. n : /\ log[at.txn][2 * i + 1] \in TableMap
                             /\ log[at.txn][2 * i + 1].table = w.stmts[i].table
                             /\ log[at.txn][2 * i + 2] = RowsEvent(w.stmts[i])
        /\ log[at.txn][2 * n + 3] = IF w.how = "commit" THEN [type |-> "XID"] ELSE Query("row")
    BY <1>2, <1>5 DEF Wrote
  <2>2. p < n => /\ p + 1 \in 1 .. n /\ 2 * (p + 1) + 1 = 2 * p + 3
                 /\ 2 * (p + 1) + 2 = 2 * p + 4
                 /\ 2 * p + 3 < 2 * n + 3 /\ 2 * p + 4 < 2 * n + 3
    BY <1>1
  <2>3. p < n => /\ log[at.txn][2 * p + 3] \in TableMap
                 /\ log[at.txn][2 * p + 3].table = w.stmts[p + 1].table
                 /\ log[at.txn][2 * p + 4] = RowsEvent(w.stmts[p + 1])
    <3> SUFFICES ASSUME p < n
                 PROVE  /\ log[at.txn][2 * p + 3] \in TableMap
                        /\ log[at.txn][2 * p + 3].table = w.stmts[p + 1].table
                        /\ log[at.txn][2 * p + 4] = RowsEvent(w.stmts[p + 1])
      OBVIOUS
    <3>1. /\ log[at.txn][2 * (p + 1) + 1] \in TableMap
          /\ log[at.txn][2 * (p + 1) + 1].table = w.stmts[p + 1].table
          /\ log[at.txn][2 * (p + 1) + 2] = RowsEvent(w.stmts[p + 1])
      BY <2>1, <2>2
    <3> QED BY <2>2, <3>1
  <2> HIDE DEF n
  <2>4. CASE at.event = 2 /\ p = 0
    BY <1>1, <1>3, <1>5, <2>1, <2>4
  <2>5. CASE at.event = 2 * p + 3
    <3>1. CASE p < n
      BY <1>1, <1>3, <1>5, <2>1, <2>2, <2>3, <2>5, <3>1 DEF n
    <3>2. CASE p = n
      BY <1>1, <1>3, <1>5, <2>1, <2>5, <3>2 DEF n
    <3> QED BY <1>1, <3>1, <3>2
  <2>6. CASE /\ at.event = 2 * p + 4 /\ p < n
             /\ b.tableMap # None /\ b.tableMap.table = w.stmts[p + 1].table
    <3>1. Event = RowsEvent(w.stmts[p + 1]) /\ at.event < Len(log[at.txn])
      BY <1>1, <1>3, <2>1, <2>2, <2>3, <2>6
    <3>2. Mapped(Event)
      BY <2>6, <3>1 DEF Mapped, RowsEvent
    <3> QED BY <1>5, <2>6, <3>1, <3>2 DEF n
  <2> QED BY <2>4, <2>5, <2>6 DEF Ahead, n
<1> QED BY <1>4, <1>5

\* One more event, and the transaction goes on.
LEMMA FaithfulGoesOn ==
  ASSUME Faithful, Inv', Cached', Reading, Taken, UNCHANGED <<committed, log, emitted, reader>>,
         NEW w \in Transactions, Source(at.txn, w), NEW p \in 0 .. Len(w.stmts),
         at.event < Len(log[at.txn]),
         SoFar(b', committed[at.txn], w, p), Ahead(b', w, p, at.event + 1)
  PROVE  Faithful'
<1>1. Inv /\ ~Complete /\ reader = "scanning"
  BY DEF Faithful, Reading
<1>2. at' = [at EXCEPT !.event = @ + 1] /\ at \in Scan
  BY <1>1 DEF Taken, Inv, Positioned
<1>3. at'.txn = at.txn /\ at'.event = at.event + 1 /\ at'.event > 1
  BY <1>2 DEF Scan
<1>4. ~Complete'
  BY DEF Complete, SoFar
<1>5. Source(at.txn, w)'
  BY <1>3 DEF Source
<1>6. Inside(w, p)'
  BY <1>3 DEF Inside
<1>7. Len(emitted') = at'.txn - 1
  BY <1>1, <1>3 DEF Faithful, Where
<1>8. Where'
  BY <1>3, <1>4, <1>5, <1>6, <1>7 DEF Where
<1>9. Logged' /\ Told'
  BY DEF Faithful, Logged, Source, Told
<1> QED BY <1>8, <1>9 DEF Faithful

\* Its last event.
LEMMA FaithfulCompletes ==
  ASSUME Faithful, Inv', Cached', Reading, Taken, UNCHANGED <<committed, log, emitted, reader>>,
         at.event = Len(log[at.txn]),
         b'.current # None, b'.current.committed,
         Right(b'.current, b'.markerActionIDs, committed[at.txn])
  PROVE  Faithful'
<1>1. Inv /\ ~Complete /\ reader = "scanning"
  BY DEF Faithful, Reading
<1>2. at' = [txn |-> at.txn + 1, event |-> 1] /\ at.txn \in Nat /\ at.event \in Nat
  BY <1>1 DEF Taken, Inv, Positioned, Scan
<1>3. at'.txn - 1 = at.txn /\ at'.event = 1 /\ at'.txn - 2 = at.txn - 1
  BY <1>2
<1>4. Complete'
  BY DEF Complete
<1>5. Len(emitted') = at'.txn - 2
  BY <1>1, <1>3 DEF Faithful, Where
<1>6. Where'
  BY <1>3, <1>4, <1>5 DEF Where
<1>7. Logged' /\ Told'
  BY DEF Faithful, Logged, Source, Told
<1> QED BY <1>6, <1>7 DEF Faithful

LEMMA FaithfulReadPlain ==
  ASSUME Faithful, OrdinaryWorkload, ReadPlain
  PROVE  Faithful'
<1> DEFINE c == committed[at.txn]
<1>1. /\ Reading /\ Taken /\ Event.type # "ROWS"
      /\ UNCHANGED <<committed, gnos, names, log, colCache, emitted, reader>>
      /\ b' = CASE Event.type = "GTID"      -> BeginTransaction(b, Event)
                [] Event.type = "QUERY"     -> HandleQuery(b, Event)
                [] Event.type = "TABLE_MAP" -> HandleTableMap(b, Event)
                [] Event.type = "XID"       -> CommitTransaction(b)
                [] OTHER                    -> b
  BY DEF ReadPlain
<1>2. Inv /\ Inv' /\ b \in Iterator /\ Cached' /\ reader = "scanning" /\ ~Complete
  BY <1>1, InvReadPlain DEF Faithful, Inv, Typed, Cached, Reading
<1>3. at.txn \in 1 .. Len(log) /\ at.event \in Nat /\ at.event <= Len(log[at.txn])
      /\ Len(log[at.txn]) \in Nat
  BY <1>1, <1>2, Reads DEF Batch
<1>4. c \in Commits
  BY <1>3 DEF Faithful, Logged, Inv, Typed
<1>5. PICK w \in Transactions :
           /\ Source(at.txn, w)
           /\ \/ at.event = 1 /\ Fresh(b)
              \/ at.event > 1 /\ \E p \in 0 .. Len(w.stmts) : Inside(w, p)
  BY <1>1, Situation
<1>6. /\ w \in Run /\ Plain(w) /\ w \in Shape /\ Len(w.stmts) \in Nat
      /\ c.changes = UserChanges(w)[Len(w.stmts)] /\ c.gtid \in Gtid
  BY <1>4, <1>5, TransactionsArePlain DEF Source, Truth, Commits
<1>7. UserChanges(w)[0] = <<>>
  BY <1>6, UserChangesIs
<1> HIDE DEF c
<1>8. CASE at.event = 1 /\ Fresh(b)
  <2>1. Wrote(log[at.txn], c.gtid, w)
    BY <1>5 DEF Source, c
  <2>2. Event = [type |-> "GTID", gtid |-> c.gtid] /\ at.event < Len(log[at.txn])
    BY <1>6, <1>8, <2>1 DEF Wrote, Event
  <2>3. Event.type = "GTID" /\ Event.gtid = c.gtid
    BY <2>2
  <2>4. b' = BeginTransaction(b, Event)
    BY <1>1, <2>3
  <2>5. /\ KeepsBuffer(b, b') /\ KeepsMarks(b, b') /\ b' \in Open
        /\ b'.current = [Opened(b).current EXCEPT !.gtid = c.gtid]
    BY <1>2, <1>6, <2>3, <2>4, BeginTransactionIs
  <2>6. Opened(b).current = NewTransaction
    BY <1>2, <1>8, OpenedIs DEF Fresh
  <2>7. /\ b'.current.gtid = c.gtid /\ b'.current.committed = FALSE
        /\ b'.current.executable = FALSE /\ b'.current.reasons = {}
        /\ b'.current.rowCount = 0 /\ b'.current.tables = {}
    BY <2>5, <2>6 DEF NewTransaction
  <2>8. b'.pending = <<>> /\ b'.rowCount = 0 /\ b'.tooLarge = FALSE /\ b'.markerActionIDs = {}
    BY <1>8, <2>5 DEF Fresh, KeepsBuffer, KeepsMarks
  <2>9. SoFar(b', c, w, 0)
    <3>1. Len(<<>>) = 0 /\ {<<>>[j].table : j \in DOMAIN <<>>} = {} /\ 1 .. 0 = {}
      OBVIOUS
    <3>2. b'.current # None
      BY <2>5 DEF Open
    <3> QED BY <1>7, <2>7, <2>8, <3>1, <3>2 DEF SoFar
  <2>10. Ahead(b', w, 0, at.event + 1) /\ 0 \in 0 .. Len(w.stmts)
    BY <1>6, <1>8 DEF Ahead
  <2> QED BY <1>1, <1>2, <1>5, <2>2, <2>9, <2>10, FaithfulGoesOn DEF c
<1>9. CASE at.event > 1 /\ \E p \in 0 .. Len(w.stmts) : Inside(w, p)
  <2>1. PICK p \in 0 .. Len(w.stmts) : SoFar(b, c, w, p) /\ Ahead(b, w, p, at.event)
    BY <1>9 DEF Inside, c
  <2>2. /\ b.current # None /\ Opened(b).current = b.current /\ p \in Nat
        /\ b.current \in Transaction
    BY <1>2, <2>1, OpenedIs DEF SoFar, Iterator
  <2>3. CASE /\ at.event = 2 /\ p = 0 /\ w.how = "ddl"
             /\ Event = Query("non_row") /\ at.event = Len(log[at.txn])
    <3>1. Event.type = "QUERY" /\ Event.kind # "row"
      BY <2>3 DEF Query
    <3>2. b' = HandleQuery(b, Event)
      BY <1>1, <3>1
    <3>3. /\ b' \in Open /\ KeepsMarks(b, b') /\ b'.current.committed /\ ~b'.current.executable
          /\ b'.current.gtid = b.current.gtid /\ b'.current.rowCount = b.current.rowCount
          /\ b'.current.tables = b.current.tables
          /\ b'.current.reasons = b.current.reasons \cup {"non-row statement"}
      <4>1. AfterQuery(b, Event, b')
        BY <1>2, <3>2, HandleQueryIs
      <4> QED BY <2>2, <3>1, <4>1 DEF AfterQuery
    <3>4. c.changes = UserChanges(w)[0]
      BY <1>6, <2>3 DEF Plain
    <3>5. Right(b'.current, b'.markerActionIDs, c)
      <4>1. "schema" \notin b'.current.reasons => "schema" \notin b.current.reasons
        BY <3>3
      <4>2. b'.markerActionIDs \subseteq c.actions /\ b'.current.gtid = c.gtid
        BY <2>1, <3>3 DEF SoFar, KeepsMarks
      <4>3. c.changes = UserChanges(w)[p]
        BY <2>3, <3>4
      <4>4. "schema" \notin b.current.reasons =>
              /\ b.current.rowCount = Len(c.changes)
              /\ b.current.tables = {c.changes[j].table : j \in DOMAIN c.changes}
        BY <2>1, <4>3 DEF SoFar
      <4> QED BY <3>3, <4>1, <4>2, <4>4 DEF Right
    <3>6. b'.current # None
      BY <3>3 DEF Open
    <3> QED BY <1>1, <1>2, <2>3, <3>3, <3>5, <3>6, FaithfulCompletes DEF c
  <2>4. CASE /\ at.event = 2 /\ p = 0 /\ w.how # "ddl"
             /\ Event = Query("row") /\ at.event < Len(log[at.txn])
    <3>1. Event.type = "QUERY" /\ Event.kind = "row"
      BY <2>4 DEF Query
    <3>2. b' = HandleQuery(b, Event)
      BY <1>1, <3>1
    <3>3. b' \in Open /\ KeepsBuffer(b, b') /\ KeepsMarks(b, b') /\ b'.current = b.current
      <4>1. AfterQuery(b, Event, b')
        BY <1>2, <3>2, HandleQueryIs
      <4> QED BY <2>2, <3>1, <4>1 DEF AfterQuery
    <3>4. SoFar(b', c, w, p)
      BY <2>1, <3>3 DEF SoFar, KeepsBuffer, KeepsMarks
    <3>5. Ahead(b', w, p, at.event + 1)
      BY <2>4 DEF Ahead
    <3> QED BY <1>1, <1>2, <1>5, <2>4, <3>4, <3>5, FaithfulGoesOn DEF c
  <2>5. CASE /\ at.event = 2 * p + 3 /\ p < Len(w.stmts) /\ w.how # "ddl"
             /\ Event \in TableMap /\ Event.table = w.stmts[p + 1].table
             /\ at.event < Len(log[at.txn])
    <3>1. b' = HandleTableMap(b, Event)
      BY <1>1, <2>5, EventTypes
    <3>2. /\ b' \in Open /\ KeepsBuffer(b, b') /\ KeepsMarks(b, b') /\ b'.current = b.current
          /\ b'.tableMap = Event
      BY <1>2, <2>2, <2>5, <3>1, HandleTableMapIs
    <3>3. SoFar(b', c, w, p)
      BY <2>1, <3>2 DEF SoFar, KeepsBuffer, KeepsMarks
    <3>4. b'.tableMap # None
      BY <2>5, <3>2, BinlogAssumption
    <3>5. Ahead(b', w, p, at.event + 1)
      <4>1. at.event + 1 = 2 * p + 4
        BY <2>2, <2>5
      <4> QED BY <2>5, <3>2, <3>4, <4>1 DEF Ahead
    <3> QED BY <1>1, <1>2, <1>5, <2>5, <3>3, <3>5, FaithfulGoesOn DEF c
  <2>6. CASE /\ at.event = 2 * p + 3 /\ p = Len(w.stmts) /\ w.how # "ddl"
             /\ Event = IF w.how = "commit" THEN [type |-> "XID"] ELSE Query("row")
             /\ at.event = Len(log[at.txn])
    <3>1. w.how = "commit"
      <4> SUFFICES ASSUME w.how # "commit" PROVE FALSE
        OBVIOUS
      <4>1. w.how = "autocommit"
        BY <1>6, <2>6 DEF Plain
      <4>2. PICK i \in DOMAIN w.stmts : w.stmts[i].table \notin InnoDB \cup SystemTable
        BY <1>6, <4>1 DEF Plain
      <4>3. i \in 1 .. p
        BY <1>5, <2>6, RunStatements, <1>6
      <4> QED BY <2>1, <4>1, <4>2, <4>3 DEF SoFar
    <3>2. Event = [type |-> "XID"] /\ Event.type = "XID"
      BY <2>6, <3>1
    <3>3. b' = CommitTransaction(b)
      BY <1>1, <3>2
    <3>4. /\ KeepsMarks(b, b') /\ b'.current \in Transaction
          /\ b'.current.committed /\ b'.current.gtid = b.current.gtid
          /\ b'.current.rows = b.pending
          /\ b.current.reasons \subseteq b'.current.reasons
          /\ b'.current.executable => ~b.tooLarge /\ b.current.reasons = {}
          /\ b'.current.rowCount = b.current.rowCount
          /\ b'.current.tables = b.current.tables
      BY <1>2, <2>2, <3>3, CommitTransactionIs
    <3>5. c.changes = UserChanges(w)[p]
      BY <1>6, <2>6
    <3>6. Right(b'.current, b'.markerActionIDs, c)
      BY <2>1, <3>4, <3>5 DEF Right, SoFar, KeepsMarks
    <3>7. b'.current # None
      BY <3>4, BinlogAssumption
    <3> QED BY <1>1, <1>2, <2>6, <3>4, <3>6, <3>7, FaithfulCompletes DEF c
  <2>7. ~(Event = RowsEvent(w.stmts[p + 1]))
    BY <1>1 DEF RowsEvent
  <2> QED BY <1>1, <1>3, <1>5, <2>1, <2>3, <2>4, <2>5, <2>6, <2>7, EventHere
<1> QED BY <1>5, <1>8, <1>9

LEMMA RowsHere ==
  ASSUME Faithful, OrdinaryWorkload, Reading, Event.type = "ROWS"
  PROVE  \E w \in Transactions : \E p \in 0 .. Len(w.stmts) :
           /\ Source(at.txn, w) /\ SoFar(b, committed[at.txn], w, p)
           /\ p + 1 \in 1 .. Len(w.stmts) /\ p \in Nat
           /\ Event = RowsEvent(w.stmts[p + 1]) /\ Mapped(Event)
           /\ at.event = 2 * p + 4 /\ at.event < Len(log[at.txn])
<1>1. PICK w \in Transactions :
           /\ Source(at.txn, w)
           /\ \/ at.event = 1 /\ Fresh(b)
              \/ at.event > 1 /\ \E p \in 0 .. Len(w.stmts) : Inside(w, p)
  BY Situation
<1>2. at.event # 1
  <2> SUFFICES ASSUME at.event = 1 PROVE FALSE
    OBVIOUS
  <2>1. Event = [type |-> "GTID", gtid |-> committed[at.txn].gtid]
    BY <1>1 DEF Source, Wrote, Event
  <2> QED BY <2>1
<1>3. PICK p \in 0 .. Len(w.stmts) : SoFar(b, committed[at.txn], w, p) /\ Ahead(b, w, p, at.event)
  BY <1>1, <1>2 DEF Inside
<1>4. Len(w.stmts) \in Nat /\ at.event <= Len(log[at.txn])
  BY TransactionsArePlain DEF Faithful, Inv, Positioned, Reading
<1>5. /\ Event # Query("non_row") /\ Event # Query("row") /\ Event \notin TableMap
      /\ Event # [type |-> "XID"]
  BY EventTypes DEF Query
<1>6. /\ at.event = 2 * p + 4 /\ p < Len(w.stmts)
      /\ Event = RowsEvent(w.stmts[p + 1]) /\ at.event < Len(log[at.txn]) /\ Mapped(Event)
  BY <1>1, <1>3, <1>4, <1>5, EventHere
<1>7. p + 1 \in 1 .. Len(w.stmts) /\ p \in Nat
  BY <1>4, <1>6
<1> QED BY <1>1, <1>3, <1>6, <1>7

LEMMA FaithfulReadForeignRows ==
  ASSUME Faithful, OrdinaryWorkload, ReadForeignRows
  PROVE  Faithful'
<1> DEFINE c == committed[at.txn]
<1>1. /\ Reading /\ Taken /\ Event.type = "ROWS"
      /\ Mapped(Event) => Event.table \in SystemTable
      /\ UNCHANGED <<committed, gnos, names, log, colCache, emitted, reader>>
      /\ b' = IF Mapped(Event) /\ Event.table = MarkerTable THEN Marked(b, Event) ELSE b
  BY DEF ReadForeignRows
<1>2. Inv' /\ b \in Iterator /\ Cached'
  BY <1>1, InvReadForeignRows DEF Faithful, Inv, Typed, Cached
<1>3. PICK w \in Transactions : \E p \in 0 .. Len(w.stmts) :
           /\ Source(at.txn, w) /\ SoFar(b, committed[at.txn], w, p)
           /\ p + 1 \in 1 .. Len(w.stmts) /\ p \in Nat
           /\ Event = RowsEvent(w.stmts[p + 1]) /\ Mapped(Event)
           /\ at.event = 2 * p + 4 /\ at.event < Len(log[at.txn])
  BY <1>1, RowsHere
<1>4. PICK p \in 0 .. Len(w.stmts) :
           /\ Source(at.txn, w) /\ SoFar(b, c, w, p)
           /\ p + 1 \in 1 .. Len(w.stmts) /\ p \in Nat
           /\ Event = RowsEvent(w.stmts[p + 1]) /\ Mapped(Event)
           /\ at.event = 2 * p + 4 /\ at.event < Len(log[at.txn])
  BY <1>3
<1> DEFINE stmt == w.stmts[p + 1]
<1>5. /\ w \in Shape /\ Len(w.stmts) \in Nat /\ DOMAIN w.stmts = 1 .. Len(w.stmts)
      /\ stmt \in Written
  BY <1>4, TransactionsArePlain
<1>6. c.actions = UNION {MarkersOf(w.stmts[i]) : i \in DOMAIN w.stmts}
  BY <1>4 DEF Source, Truth
<1> HIDE DEF c
<1>7. MarkersOf(stmt) \subseteq c.actions
  BY <1>4, <1>5, <1>6
<1>8. stmt.table \in SystemTable /\ Event.table = stmt.table
  BY <1>1, <1>4 DEF RowsEvent
<1>9. UserChanges(w)[p + 1] = UserChanges(w)[p]
  <2>1. w.stmts[p + 1].table \in SystemTable /\ p + 1 \in 1 .. Len(w.stmts)
    BY <1>4, <1>8
  <2>2. UserChanges(w)[p + 1] = UserChanges(w)[(p + 1) - 1]
    BY <1>5, <2>1, UserChangesIs
  <2>3. (p + 1) - 1 = p
    BY <1>4
  <2> QED BY <2>2, <2>3
<1> HIDE DEF stmt
<1>10. /\ KeepsBuffer(b, b') /\ b'.current = b.current
       /\ b'.markerActionIDs \subseteq b.markerActionIDs \cup MarkersOf(stmt)
  <2>1. CASE Mapped(Event) /\ Event.table = MarkerTable
    <3>1. stmt.table = MarkerTable /\ b' = Marked(b, RowsEvent(stmt))
      BY <1>1, <1>4, <1>8, <2>1 DEF stmt
    <3>2. /\ KeepsBuffer(b, b') /\ b'.current = b.current
          /\ b'.markerActionIDs = b.markerActionIDs \cup MarkersOf(stmt)
      BY <1>2, <1>5, <3>1, MarkedIs
    <3> QED BY <3>2
  <2>2. CASE ~(Mapped(Event) /\ Event.table = MarkerTable)
    <3>1. b' = b
      BY <1>1, <2>2
    <3> QED BY <3>1 DEF KeepsBuffer
  <2> QED BY <2>1, <2>2
<1>11. w.how = "autocommit" => \A i \in 1 .. p + 1 : w.stmts[i].table \in InnoDB \cup SystemTable
  <2> SUFFICES ASSUME w.how = "autocommit", NEW i \in 1 .. p + 1
               PROVE  w.stmts[i].table \in InnoDB \cup SystemTable
    OBVIOUS
  <2>1. CASE i = p + 1
    BY <1>8, <2>1 DEF stmt
  <2>2. CASE i # p + 1
    <3>1. i \in 1 .. p
      BY <1>4, <2>2
    <3> QED BY <1>4, <3>1 DEF SoFar
  <2> QED BY <2>1, <2>2
<1>12. SoFar(b', c, w, p + 1)
  <2>1. b'.markerActionIDs \subseteq c.actions
    BY <1>4, <1>7, <1>10 DEF SoFar
  <2> QED BY <1>4, <1>9, <1>10, <1>11, <2>1 DEF SoFar, KeepsBuffer
<1>13. Ahead(b', w, p + 1, at.event + 1) /\ p + 1 \in 0 .. Len(w.stmts)
  <2>1. at.event + 1 = 2 * (p + 1) + 3 /\ p + 1 \in 0 .. Len(w.stmts)
    BY <1>4, <1>5
  <2> QED BY <2>1 DEF Ahead
<1> QED BY <1>1, <1>2, <1>4, <1>12, <1>13, FaithfulGoesOn DEF c

\* The scan has failed: nothing is read or returned any more.
LEMMA FaithfulFails ==
  ASSUME Faithful, Inv', Cached', reader' = "failed", UNCHANGED <<committed, log, emitted>>
  PROVE  Faithful'
BY DEF Faithful, Logged, Source, Told, Where

LEMMA FaithfulReadRows ==
  ASSUME Faithful, OrdinaryWorkload, ReadRows
  PROVE  Faithful'
<1> DEFINE c == committed[at.txn]
           t == Event.table
<1>1. /\ Reading /\ Taken /\ Event.type = "ROWS" /\ t \notin SystemTable
      /\ UNCHANGED <<committed, gnos, names, log, emitted>>
      /\ IF colCache[t] = None /\ t \notin InnoDB
         THEN reader' = "failed" /\ UNCHANGED <<b, colCache>>
         ELSE /\ colCache' = [colCache EXCEPT ![t] = CachedColumns(t)]
              /\ b' = HandleRows(b, Event, CachedColumns(t))
              /\ UNCHANGED reader
  BY DEF ReadRows
<1>2. Inv' /\ b \in Iterator /\ Cached /\ colCache \in [Table -> Names \cup {None}]
  BY <1>1, InvReadRows DEF Faithful, Inv, Typed
<1>3. PICK w \in Transactions : \E p \in 0 .. Len(w.stmts) :
           /\ Source(at.txn, w) /\ SoFar(b, committed[at.txn], w, p)
           /\ p + 1 \in 1 .. Len(w.stmts) /\ p \in Nat
           /\ Event = RowsEvent(w.stmts[p + 1]) /\ Mapped(Event)
           /\ at.event = 2 * p + 4 /\ at.event < Len(log[at.txn])
  BY <1>1, RowsHere
<1>4. PICK p \in 0 .. Len(w.stmts) :
           /\ Source(at.txn, w) /\ SoFar(b, c, w, p)
           /\ p + 1 \in 1 .. Len(w.stmts) /\ p \in Nat
           /\ Event = RowsEvent(w.stmts[p + 1]) /\ Mapped(Event)
           /\ at.event = 2 * p + 4 /\ at.event < Len(log[at.txn])
  BY <1>3
<1> DEFINE stmt == w.stmts[p + 1]
           u  == UserChanges(w)[p]
           cs == StatementChanges(stmt)
<1>5. /\ w \in Shape /\ Len(w.stmts) \in Nat /\ DOMAIN w.stmts = 1 .. Len(w.stmts)
      /\ stmt \in Written
  BY <1>4, TransactionsArePlain
<1>6. t = stmt.table /\ t \in Table
  BY <1>4, <1>5 DEF RowsEvent, Written, Statement
<1> HIDE DEF c, t
<1>7. CASE colCache[t] = None /\ t \notin InnoDB
  <2>1. reader' = "failed" /\ colCache' = colCache
    BY <1>1, <1>7
  <2>2. Cached'
    BY <1>2, <2>1 DEF Cached
  <2> QED BY <1>1, <1>2, <2>1, <2>2, FaithfulFails
<1>8. CASE ~(colCache[t] = None /\ t \notin InnoDB)
  <2>1. /\ colCache' = [colCache EXCEPT ![t] = CachedColumns(t)]
        /\ b' = HandleRows(b, Event, CachedColumns(t)) /\ UNCHANGED reader
    BY <1>1, <1>8
  <2>2. t \in InnoDB
    BY <1>2, <1>6, <1>8 DEF Cached
  <2>3. Cached'
    BY <1>2, <2>1, <2>2 DEF Cached
  <2>4. b \in Open
    BY <1>2, <1>4 DEF SoFar, Open
  <2>5. w.how = "autocommit" => \A i \in 1 .. p + 1 : w.stmts[i].table \in InnoDB \cup SystemTable
    <3> SUFFICES ASSUME w.how = "autocommit", NEW i \in 1 .. p + 1
                 PROVE  w.stmts[i].table \in InnoDB \cup SystemTable
      OBVIOUS
    <3>1. CASE i = p + 1
      BY <1>6, <2>2, <3>1
    <3>2. CASE i # p + 1
      <4>1. i \in 1 .. p
        BY <1>4, <3>2
      <4> QED BY <1>4, <4>1 DEF SoFar
    <3> QED BY <3>1, <3>2
  <2>6. /\ u \in Seq(Change) /\ cs \in Seq(Change) /\ UserChanges(w)[p + 1] = u \o cs
    <3>1. p \in 0 .. Len(w.stmts) /\ (p + 1) - 1 = p
      BY <1>4
    <3>2. stmt.table \notin SystemTable
      BY <1>1, <1>6
    <3>3. UserChanges(w)[p + 1] = UserChanges(w)[(p + 1) - 1] \o cs
      BY <1>4, <1>5, <3>2, UserChangesIs
    <3>4. cs \in Seq(Change) /\ u \in Seq(Change)
      BY <1>5, <3>1, StatementChangesType, UserChangesIs DEF Written
    <3> QED BY <3>1, <3>3, <3>4
  <2>7. SoFar(b', c, w, p + 1)
    <3>1. CASE b.tableMap.names = CachedColumns(t)
      <4>1. ExtendedBy(b, b', cs)
        BY <1>4, <1>5, <2>1, <2>4, <3>1, HandleRowsAppends
      <4> DEFINE v == UserChanges(w)[p + 1]
      <4> HIDE DEF u, cs, stmt
      <4>2. /\ b'.current # None /\ b'.current.gtid = c.gtid /\ ~b'.current.committed
            /\ ~b'.current.executable /\ b'.current.reasons = b.current.reasons
            /\ b'.current.reasons \subseteq {"schema"} /\ b'.markerActionIDs \subseteq c.actions
        BY <1>4, <4>1 DEF SoFar, ExtendedBy, SameBut, Open
      <4>3. ASSUME "schema" \notin b'.current.reasons
            PROVE  /\ b'.rowCount = Len(v) /\ b'.current.rowCount = Len(v)
                   /\ b'.current.tables = {v[j].table : j \in DOMAIN v}
                   /\ ~b'.tooLarge => b'.pending = v
        <5>1. /\ b.rowCount = Len(u) /\ b.current.rowCount = Len(u)
              /\ b.current.tables = {u[j].table : j \in DOMAIN u}
              /\ ~b.tooLarge => b.pending = u
          BY <1>4, <4>2, <4>3 DEF SoFar, u
        <5>2. /\ b'.rowCount = Len(u) + Len(cs) /\ b'.current.rowCount = b'.rowCount
              /\ b'.current.tables = {u[j].table : j \in DOMAIN u} \cup {cs[j].table : j \in DOMAIN cs}
              /\ ~b'.tooLarge => b'.pending = u \o cs
          BY <4>1, <5>1 DEF ExtendedBy
        <5>3. v = u \o cs
          BY <2>6
        <5> HIDE DEF v
        <5>4. Len(v) = Len(u) + Len(cs)
          BY <2>6, <5>3
        <5>5. {v[j].table : j \in DOMAIN v} =
                {u[j].table : j \in DOMAIN u} \cup {cs[j].table : j \in DOMAIN cs}
          <6>1. /\ DOMAIN v = 1 .. Len(u) + Len(cs) /\ DOMAIN u = 1 .. Len(u)
                /\ DOMAIN cs = 1 .. Len(cs) /\ Len(u) \in Nat /\ Len(cs) \in Nat
            BY <2>6, <5>3
          <6>2. \A j \in DOMAIN u : j \in DOMAIN v /\ v[j] = u[j]
            BY <2>6, <5>3, <6>1
          <6>3. \A j \in DOMAIN cs : Len(u) + j \in DOMAIN v /\ v[Len(u) + j] = cs[j]
            BY <2>6, <5>3, <6>1
          <6>4. \A j \in DOMAIN v :
                  (j \notin DOMAIN u) => (j - Len(u) \in DOMAIN cs /\ v[j] = cs[j - Len(u)])
            <7>1. ASSUME NEW j \in DOMAIN v, j \notin DOMAIN u
                  PROVE  j - Len(u) \in DOMAIN cs /\ v[j] = cs[j - Len(u)]
              <8>1. j \in Nat /\ Len(u) < j /\ j <= Len(u) + Len(cs)
                BY <6>1, <7>1
              <8>2. j - Len(u) \in DOMAIN cs /\ Len(u) + (j - Len(u)) = j
                BY <6>1, <8>1
              <8> QED BY <6>3, <8>2
            <7> QED BY <7>1
          <6> HIDE DEF Change
          <6> QED BY <6>2, <6>3, <6>4
        <5> QED BY <5>2, <5>3, <5>4, <5>5
      <4> QED BY <2>5, <4>2, <4>3 DEF SoFar
    <3>2. CASE b.tableMap.names # CachedColumns(t)
      <4>1. Refused(b, b')
        BY <2>1, <2>4, <3>2, HandleRowsRefuses
      <4>2. /\ b'.current # None /\ b'.current.gtid = c.gtid /\ ~b'.current.committed
            /\ ~b'.current.executable /\ b'.current.reasons \subseteq {"schema"}
            /\ "schema" \in b'.current.reasons /\ b'.markerActionIDs \subseteq c.actions
        BY <1>4, <4>1 DEF SoFar, Refused, Open
      <4> QED BY <2>5, <4>2 DEF SoFar
    <3> QED BY <3>1, <3>2
  <2>8. Ahead(b', w, p + 1, at.event + 1) /\ p + 1 \in 0 .. Len(w.stmts)
    <3>1. at.event + 1 = 2 * (p + 1) + 3 /\ p + 1 \in 0 .. Len(w.stmts)
      BY <1>4, <1>5
    <3> QED BY <3>1 DEF Ahead
  <2> QED BY <1>1, <1>2, <1>4, <2>1, <2>3, <2>7, <2>8, FaithfulGoesOn DEF c
<1> QED BY <1>7, <1>8

LEMMA FaithfulNext == OrdinaryWorkload => (Faithful /\ [Next]_vars => Faithful')
<1> SUFFICES ASSUME OrdinaryWorkload, Faithful, [Next]_vars PROVE Faithful'
  OBVIOUS
<1>1. CASE \E s \in Server : \E w \in Workload : Commit(s, w)
  BY <1>1, FaithfulCommit
<1>2. CASE \E s \in Server : \E t \in Table \ SystemTable : Alter(s, t)
  BY <1>2, FaithfulAlter
<1>3. CASE Emit
  BY <1>3, FaithfulEmit
<1>4. CASE ReadPlain
  BY <1>4, FaithfulReadPlain
<1>5. CASE ReadForeignRows
  BY <1>5, FaithfulReadForeignRows
<1>6. CASE ReadRows
  BY <1>6, FaithfulReadRows
<1>7. CASE UNCHANGED vars
  <2>1. Inv'
    BY <1>7, InvNext DEF Faithful
  <2>2. UNCHANGED <<committed, log, at, b, colCache, emitted, reader>>
    BY <1>7 DEF vars
  <2>3. Complete' = Complete
    BY <2>2 DEF Complete
  <2>4. Logged' /\ Cached' /\ Told'
    BY <2>2 DEF Faithful, Logged, Source, Cached, Told
  <2>5. Where'
    BY <2>2, <2>3 DEF Faithful, Where, Inside, Ahead, Source
  <2> QED BY <2>1, <2>4, <2>5 DEF Faithful
<1> QED BY <1>1, <1>2, <1>3, <1>4, <1>5, <1>6, <1>7 DEF Next, Iterate

LEMMA FaithfulAlways == OrdinaryWorkload => (Spec => []Faithful)
<1>1. CASE OrdinaryWorkload
  <2>1. Init => Faithful
    BY FaithfulInit
  <2>2. Faithful /\ [Next]_vars => Faithful'
    BY <1>1, FaithfulNext
  <2> QED BY <2>1, <2>2, PTL DEF Spec
<1> QED BY <1>1

\* What Faithful says of what was returned, without the iterator.
LEMMA FaithfulTells ==
  ASSUME Faithful
  PROVE  /\ Len(emitted) \in Nat /\ Len(committed) \in Nat /\ Len(emitted) <= Len(committed)
         /\ DOMAIN emitted = 1 .. Len(emitted) /\ DOMAIN committed = 1 .. Len(committed)
         /\ \A i \in DOMAIN emitted : /\ i \in DOMAIN committed
                                      /\ Right(emitted[i].txn, emitted[i].markers, committed[i])
<1>1. /\ Len(emitted) \in Nat /\ DOMAIN emitted = 1 .. Len(emitted)
      /\ Len(committed) \in Nat /\ DOMAIN committed = 1 .. Len(committed)
  BY DEF Faithful, Inv, Typed
<1>2. /\ Len(emitted) <= Len(committed)
      /\ \A i \in 1 .. Len(emitted) : Right(emitted[i].txn, emitted[i].markers, committed[i])
  BY DEF Faithful, Logged, Told
<1> QED BY <1>1, <1>2

\* Of plain transactions, whatever their sizes, their order and the ALTER TABLEs between them, Next
\* returns each one once, in commit order and under its own GTID.
THEOREM ReturnedOneForOne == OrdinaryWorkload => (Spec => []OneForOne)
<1>1. Faithful => OneForOne
  BY FaithfulTells DEF Right, OneForOne
<1> QED BY <1>1, FaithfulAlways, PTL

\* An executable transaction carries all the changes of user tables, as they were and in order:
\* neither a limit, an altered table nor a dropped row event leaves a part of one executable.
THEOREM ExecutableMeansComplete == OrdinaryWorkload => (Spec => []ExecutableIsComplete)
<1>1. Faithful => ExecutableIsComplete
  <2> SUFFICES ASSUME Faithful, NEW i \in DOMAIN emitted, emitted[i].txn.executable
               PROVE  \E j \in DOMAIN committed : /\ committed[j].gtid = emitted[i].txn.gtid
                                                  /\ committed[j].changes = emitted[i].txn.rows
    BY DEF ExecutableIsComplete
  <2>1. /\ i \in DOMAIN committed /\ committed[i].gtid = emitted[i].txn.gtid
        /\ committed[i].changes = emitted[i].txn.rows
    BY FaithfulTells DEF Right
  <2> QED BY <2>1
<1> QED BY <1>1, FaithfulAlways, PTL

\* The row count and the tables of a summary are those of the whole transaction, also of one that
\* is too large to keep.
THEOREM SummariesAreHonest == OrdinaryWorkload => (Spec => []SummaryIsHonest)
<1>1. Faithful => SummaryIsHonest
  BY FaithfulTells DEF Right, SummaryIsHonest
<1> QED BY <1>1, FaithfulAlways, PTL

\* The GTID that is reported for an action is that of a transaction which inserted its marker.
THEOREM CorrelationIsRight == OrdinaryWorkload => (Spec => []ActionsAreCorrelated)
<1>1. Faithful => ActionsAreCorrelated
  <2> SUFFICES ASSUME Faithful, NEW id \in Image, FindActionGTID(id) # None
               PROVE  \E i \in DOMAIN committed :
                        id \in committed[i].actions /\ committed[i].gtid = FindActionGTID(id).txn.gtid
    BY DEF ActionsAreCorrelated
  <2> DEFINE hits == {i \in DOMAIN emitted : id \in emitted[i].markers}
             k == CHOOSE i \in hits : \A j \in hits : i <= j
  <2>1. FindActionGTID(id) = IF hits = {} THEN None ELSE emitted[k]
    BY DEF FindActionGTID, First
  <2>2. hits # {} /\ FindActionGTID(id) = emitted[k]
    BY <2>1
  <2>3. hits \subseteq Nat
    BY FaithfulTells
  <2>4. \E i \in hits : \A j \in hits : i <= j
    <3> HIDE DEF hits
    <3> QED BY <2>2, <2>3, LeastElement
  <2>5. k \in hits
    <3> HIDE DEF hits
    <3> QED BY <2>4
  <2>6. /\ k \in DOMAIN committed /\ emitted[k].markers \subseteq committed[k].actions
        /\ emitted[k].txn.gtid = committed[k].gtid
    BY <2>5, FaithfulTells DEF Right
  <2> QED BY <2>2, <2>5, <2>6
<1> QED BY <1>1, FaithfulAlways, PTL
=============================================================================
