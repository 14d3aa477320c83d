--------------------------- MODULE BinlogAssembly ---------------------------
(***************************************************************************)
(* binlogIterator (internal/backends/mysql/source/source.go): turning the  *)
(* binary log of MySQL, one event after the other, into the transactions   *)
(* that `txn list`, `txn show`, `plan create`, `index build` and the GTID  *)
(* correlation after an apply work with.                                   *)
(*                                                                         *)
(* The server appends the events of whole transactions while the iterator  *)
(* reads; it may alter a table whose old events are not read yet.  The     *)
(* column names of a table are a version number, its table id is the table *)
(* itself, and a row image is a model value with a size.                   *)
(***************************************************************************)
EXTENDS Integers, Sequences, SequencesExt

CONSTANTS
  Server,         \* the source UUIDs that write to the log
  Table,          \* tables that row events are about
  SystemTable,    \* those in mysql, sys, ..., unredo_meta
  MarkerTable,    \* unredo_meta.action_markers
  InnoDB,         \* the tables whose engine is InnoDB
  Image,          \* row images; those of MarkerTable are action ids
  Size,           \* the length of an image in JSON
  None,
  Workload,       \* the transactions that clients run
  RowLimit, ByteLimit, \* policy max_transaction_rows and max_transaction_bytes
  Limit,          \* --limit (0: none)
  TableFilter,    \* --table (None: not given): part of ScanScope, read by no code
  MaxTxns,        \* bound: transactions in the log
  MaxAlter        \* bound: the highest version of column names

Row    == Image \cup {None}
OpKind == {"insert", "update", "delete"}
Change == [table : Table, op : OpKind, before : Row, after : Row]
Gtid   == [server : Server, gno : 1..MaxTxns]
Names  == 0..MaxAlter

\* A table map event: the columns a table has when its rows are written.
TableMap == [type : {"TABLE_MAP"}, table : Table, names : Names]

\* What a client does: the statements, each with the rows it changes, and how it commits.
Images    == [before : Row, after : Row]
Statement == [table : Table, op : OpKind, rows : Seq(Images)]
How       == {"commit", "ddl", "create_select", "xa_prepare", "autocommit"}
Shape     == [how : How, joined : BOOLEAN, stmts : Seq(Statement)]
HasImages(stmt) ==
  \A j \in DOMAIN stmt.rows : /\ stmt.op = "insert" <=> stmt.rows[j].before = None
                              /\ stmt.op = "delete" <=> stmt.rows[j].after = None

\* core.Transaction, as far as it is filled from the log.
Transaction == [gtid : Gtid \cup {None}, committed : BOOLEAN, executable : BOOLEAN,
                reasons : SUBSET {"non-row statement", "schema", "exceeds limit"},
                rows : Seq(Change), rowCount : Nat, tables : SUBSET Table]

ASSUME BinlogAssumption ==
  /\ None \notin Image \cup Names \cup Gtid \cup Transaction \cup TableMap
  /\ SystemTable \subseteq Table /\ MarkerTable \in SystemTable /\ InnoDB \subseteq Table
  /\ Size \in [Image -> Nat] /\ TableFilter \in Table \cup {None}
  /\ \A w \in Workload : w \in Shape /\ \A i \in DOMAIN w.stmts : HasImages(w.stmts[i])
  /\ {RowLimit, ByteLimit, Limit, MaxTxns, MaxAlter} \subseteq Nat

VARIABLES
  committed,      \* what the log says, in commit order: [gtid, changes, actions, how]
  gnos,           \* the next GTID number of each server
  names,          \* the current column names of each table
  log,            \* the binary log: the events of one transaction after the other
  at,             \* the event of the log that the iterator reads next; it sees no transactions
  b,              \* binlogIterator
  colCache,       \* its columns, per table (None: not looked up)
  emitted,        \* what Next has returned so far, each with lastMarkerActionIDs
  reader          \* "scanning", "ended" after Limit, "failed" after an error

vars == <<committed, gnos, names, log, at, b, colCache, emitted, reader>>

-----------------------------------------------------------------------------
(* The server.                                                             *)

\* The images of a ROWS event: of an update the row before and then the row after.
Flatten(stmt) ==
  LET n == Len(stmt.rows) IN
  CASE stmt.op = "insert" -> [i \in 1..n |-> stmt.rows[i].after]
    [] stmt.op = "delete" -> [i \in 1..n |-> stmt.rows[i].before]
    [] stmt.op = "update" -> [i \in 1 .. 2 * n |-> IF i % 2 = 1 THEN stmt.rows[(i + 1) \div 2].before
                                                               ELSE stmt.rows[i \div 2].after]

MapEvent(stmt)  == [type |-> "TABLE_MAP", table |-> stmt.table, names |-> names[stmt.table]]
RowsEvent(stmt) == [type |-> "ROWS", table |-> stmt.table, op |-> stmt.op, images |-> Flatten(stmt)]
Query(kind)     == [type |-> "QUERY", kind |-> kind]

\* One statement that changes several tables maps all of them before its first row.
StatementEvents(w) ==
  LET n == Len(w.stmts) IN
  [i \in 1 .. 2 * n |->
     IF w.joined THEN IF i <= n THEN MapEvent(w.stmts[i]) ELSE RowsEvent(w.stmts[i - n])
                 ELSE IF i % 2 = 1 THEN MapEvent(w.stmts[(i + 1) \div 2])
                                   ELSE RowsEvent(w.stmts[i \div 2])]

\* BEGIN .. XID; DDL is a single query; CREATE TABLE .. SELECT is written as one transaction
\* (MySQL 8.0.21); XA PREPARE ends with an event of its own; a non-transactional engine with COMMIT.
EventsOf(gtid, w) ==
  <<[type |-> "GTID", gtid |-> gtid]>> \o
  CASE w.how = "commit"        -> <<Query("row")>> \o StatementEvents(w) \o <<[type |-> "XID"]>>
    [] w.how = "ddl"           -> <<Query("non_row")>>
    [] w.how = "create_select" -> <<Query("row"), Query("non_row")>> \o StatementEvents(w)
                                                                    \o <<[type |-> "XID"]>>
    [] w.how = "xa_prepare"    -> <<Query("row")>> \o StatementEvents(w)
                                     \o <<Query("row"), [type |-> "XA_PREPARE"]>>
    [] w.how = "autocommit"    -> <<Query("row")>> \o StatementEvents(w) \o <<Query("row")>>

\* The changes of user tables in the first i statements, and the action ids of the markers that a
\* transaction inserts.
StatementChanges(stmt) ==
  [j \in DOMAIN stmt.rows |-> [table |-> stmt.table, op |-> stmt.op,
                               before |-> stmt.rows[j].before, after |-> stmt.rows[j].after]]
UserChanges(w) ==
  LET upTo[i \in 0 .. Len(w.stmts)] ==
        IF i = 0 THEN <<>>
        ELSE IF w.stmts[i].table \in SystemTable THEN upTo[i - 1]
        ELSE upTo[i - 1] \o StatementChanges(w.stmts[i])
  IN  upTo
MarkersOf(stmt) == IF stmt.table = MarkerTable /\ stmt.op = "insert"
                   THEN {stmt.rows[j].after : j \in DOMAIN stmt.rows} ELSE {}

\* A transaction as it committed.
Truth(gtid, w) == [gtid |-> gtid, how |-> w.how, changes |-> UserChanges(w)[Len(w.stmts)],
                   actions |-> UNION {MarkersOf(w.stmts[i]) : i \in DOMAIN w.stmts}]

CanWrite == Len(committed) < MaxTxns /\ \A s \in Server : gnos[s] <= MaxTxns

\* A client commits.  A prepared XA transaction commits nothing.
Commit(s, w) ==
  LET gtid == [server |-> s, gno |-> gnos[s]] IN
  /\ CanWrite
  /\ gnos' = [gnos EXCEPT ![s] = @ + 1]
  /\ log' = Append(log, EventsOf(gtid, w))
  /\ committed' = IF w.how = "xa_prepare" THEN committed ELSE Append(committed, Truth(gtid, w))
  /\ UNCHANGED <<names, at, b, colCache, emitted, reader>>

\* ALTER TABLE renames, adds or drops columns.
Alter(s, t) ==
  LET gtid == [server |-> s, gno |-> gnos[s]]
      ddl  == [how |-> "ddl", joined |-> FALSE, stmts |-> <<>>]
  IN  /\ CanWrite /\ names[t] < MaxAlter
      /\ names' = [names EXCEPT ![t] = @ + 1]
      /\ gnos' = [gnos EXCEPT ![s] = @ + 1]
      /\ log' = Append(log, EventsOf(gtid, ddl))
      /\ committed' = Append(committed, Truth(gtid, ddl))
      /\ UNCHANGED <<at, b, colCache, emitted, reader>>

-----------------------------------------------------------------------------
(* The iterator's handlers: each returns the iterator after an event.       *)

\* core.Transaction as it is created: not executable, and not committed.
NewTransaction == [gtid |-> None, committed |-> FALSE, executable |-> FALSE, reasons |-> {},
                   rows |-> <<>>, rowCount |-> 0, tables |-> {}]

\* What Next clears when it returns a transaction.
Cleared(it) == [it EXCEPT !.current = None, !.pending = <<>>, !.markerActionIDs = {},
                          !.rowCount = 0, !.rowBytes = 0, !.tooLarge = FALSE]

Opened(it) == IF it.current = None THEN [it EXCEPT !.current = NewTransaction] ELSE it

BeginTransaction(it, ev) == [Opened(it) EXCEPT !.current.gtid = ev.gtid]

HandleTableMap(it, ev) == [Opened(it) EXCEPT !.tableMap = ev]

Completed(it) == [it EXCEPT !.current.committed = TRUE, !.current.rows = it.pending]

\* DDL and DCL are complete at once.  (The first one is a faulty variant.)
HandleQueryOpen(it, ev) ==
  IF ev.kind = "row" THEN Opened(it)
  ELSE [Opened(it) EXCEPT !.current.executable = FALSE,
                          !.current.reasons = @ \cup {"non-row statement"}]
HandleQuery(it, ev) ==
  IF ev.kind = "row" THEN Opened(it)
  ELSE Completed([Opened(it) EXCEPT !.current.executable = FALSE,
                                    !.current.reasons = @ \cup {"non-row statement"}])

\* A transaction nobody gave a reason against becomes executable.
\* (The first one is a faulty variant.)
CommitTransactionUnlimited(it) ==
  IF it.current = None THEN it
  ELSE [Completed(it) EXCEPT !.current.executable = it.current.reasons = {}]
CommitTransaction(it) ==
  LET reasons == it.current.reasons \cup (IF it.tooLarge THEN {"exceeds limit"} ELSE {}) IN
  IF it.current = None THEN it
  ELSE [Completed(it) EXCEPT !.current.reasons = reasons,
                             !.current.executable = reasons = {}]

\* The row's images in a ROWS event: two for an update.
ChangesOf(ev) ==
  LET n == IF ev.op = "update" THEN Len(ev.images) \div 2 ELSE Len(ev.images)
  IN  [i \in 1..n |->
         [table |-> ev.table, op |-> ev.op,
          before |-> CASE ev.op = "insert" -> None
                       [] ev.op = "delete" -> ev.images[i]
                       [] ev.op = "update" -> ev.images[2 * i - 1],
          after  |-> CASE ev.op = "insert" -> ev.images[i]
                       [] ev.op = "delete" -> None
                       [] ev.op = "update" -> ev.images[2 * i]]]

SizeOf(row) == IF row = None THEN 0 ELSE Size[row]

\* The change is counted and its table recorded even when its row is not kept any more.
Counted(it, c) == [it EXCEPT !.rowCount = @ + 1, !.current.rowCount = it.rowCount + 1,
                             !.current.tables = @ \cup {c.table}]
Kept(it, c)    == [it EXCEPT !.pending = Append(@, c),
                             !.rowBytes = @ + SizeOf(c.before) + SizeOf(c.after)]
OverLimit(it)  == \/ RowLimit > 0 /\ it.rowCount > RowLimit
                  \/ ByteLimit > 0 /\ it.rowBytes > ByteLimit

\* (The first two are faulty variants.)
AppendChangeUncounted(it, c) ==
  LET kept == Kept(Counted(it, c), c) IN
  IF it.tooLarge THEN it
  ELSE IF OverLimit(kept)
       THEN [kept EXCEPT !.tooLarge = TRUE, !.pending = <<>>, !.current.executable = FALSE]
       ELSE kept
AppendChangeKeeping(it, c) ==
  LET kept == Kept(Counted(it, c), c) IN
  IF OverLimit(kept) THEN [kept EXCEPT !.tooLarge = TRUE, !.current.executable = FALSE] ELSE kept
AppendChange(it, c) ==
  LET kept == Kept(Counted(it, c), c) IN
  IF it.tooLarge THEN Counted(it, c)
  ELSE IF OverLimit(kept)
       THEN [kept EXCEPT !.tooLarge = TRUE, !.pending = <<>>, !.current.executable = FALSE]
       ELSE kept

\* captureActionMarkers.
Marked(it, ev) ==
  IF ev.op = "insert" THEN [it EXCEPT !.markerActionIDs = @ \cup ToSet(ev.images)] ELSE it

\* handleRowEvent, once the columns are known: names that differ end the transaction's chances.
HandleRows(it, ev, cols) ==
  IF it.tableMap.names # cols
  THEN [it EXCEPT !.current.executable = FALSE, !.current.reasons = @ \cup {"schema"}]
  ELSE LET cs == ChangesOf(ev)
           after[i \in 0 .. Len(cs)] == IF i = 0 THEN it ELSE AppendChange(after[i - 1], cs[i])
       IN  after[Len(cs)]

-----------------------------------------------------------------------------
(* Next, one event or one returned transaction at a time.                   *)

Complete == b.current # None /\ b.current.committed
Reading  == reader = "scanning" /\ ~Complete /\ at.txn <= Len(log)
Event    == log[at.txn][at.event]
Taken    == at' = IF at.event < Len(log[at.txn]) THEN [at EXCEPT !.event = @ + 1]
                                                 ELSE [txn |-> at.txn + 1, event |-> 1]

\* The transaction is returned to the caller.
Emit ==
  /\ reader = "scanning" /\ Complete
  /\ emitted' = Append(emitted, [txn |-> b.current, markers |-> b.markerActionIDs])
  /\ b' = Cleared(b)
  /\ reader' = IF Limit > 0 /\ Len(emitted) + 1 >= Limit THEN "ended" ELSE reader
  /\ UNCHANGED <<committed, gnos, names, log, at, colCache>>

\* Events that need nothing but the iterator; XA_PREPARE has no case and is dropped.
ReadPlain ==
  LET ev == Event IN
  /\ Reading /\ ev.type # "ROWS"
  /\ b' = CASE ev.type = "GTID"      -> BeginTransaction(b, ev)
            [] ev.type = "QUERY"     -> HandleQuery(b, ev)
            [] ev.type = "TABLE_MAP" -> HandleTableMap(b, ev)
            [] ev.type = "XID"       -> CommitTransaction(b)
            [] OTHER                 -> b
  /\ Taken
  /\ UNCHANGED <<committed, gnos, names, log, colCache, emitted, reader>>

Mapped(ev) == b.tableMap # None /\ ev.table = b.tableMap.table

\* Rows of another table than the one mapped last are dropped, like those of system tables.
ReadForeignRows ==
  LET ev == Event IN
  /\ Reading /\ ev.type = "ROWS"
  /\ Mapped(ev) => ev.table \in SystemTable
  /\ b' = IF Mapped(ev) /\ ev.table = MarkerTable THEN Marked(b, ev) ELSE b
  /\ Taken
  /\ UNCHANGED <<committed, gnos, names, log, colCache, emitted, reader>>

\* columnsFor asks for the columns the table has now, once per scan.
CachedColumns(t) == IF colCache[t] # None THEN colCache[t] ELSE names[t]

\* Rows of a user table; a table that is not InnoDB cannot be inspected, and Next fails.
ReadRows ==
  LET ev == Event
      t  == ev.table
  IN  /\ Reading /\ ev.type = "ROWS"
      /\ Mapped(ev) /\ t \notin SystemTable
      /\ Taken
      /\ IF colCache[t] = None /\ t \notin InnoDB
         THEN reader' = "failed" /\ UNCHANGED <<b, colCache>>
         ELSE /\ colCache' = [colCache EXCEPT ![t] = CachedColumns(t)]
              /\ b' = HandleRows(b, ev, CachedColumns(t))
              /\ UNCHANGED reader
      /\ UNCHANGED <<committed, gnos, names, log, emitted>>

Init ==
  /\ committed = <<>> /\ emitted = <<>>
  /\ log = <<>> /\ at = [txn |-> 1, event |-> 1]
  /\ gnos = [s \in Server |-> 1]
  /\ names = [t \in Table |-> 0]
  /\ b = [current |-> None, pending |-> <<>>, tableMap |-> None, rowCount |-> 0, rowBytes |-> 0,
          tooLarge |-> FALSE, markerActionIDs |-> {}]
  /\ colCache = [t \in Table |-> None]
  /\ reader = "scanning"

Iterate == Emit \/ ReadPlain \/ ReadForeignRows \/ ReadRows

Next ==
  \/ \E s \in Server : \E w \in Workload : Commit(s, w)
  \/ \E s \in Server : \E t \in Table \ SystemTable : Alter(s, t)
  \/ Iterate

Spec == Init /\ [][Next]_vars

\* Callers of Next call it again until it fails or ends, and getEvent returns what is in the log.
FairSpec == Spec /\ WF_vars(Iterate)

\* What clients mostly do: transactions of statements on one table each; DDL on its own; and a
\* statement on a table of an engine without transactions, which COMMIT ends.  The others are
\* written to the log in other ways, and some of the properties below do not hold of them.
Plain(w) == /\ w.how \in {"commit", "ddl", "autocommit"} /\ ~w.joined
            /\ w.how = "ddl" => w.stmts = <<>>
            /\ w.how = "autocommit" =>
                 \E i \in DOMAIN w.stmts : w.stmts[i].table \notin InnoDB \cup SystemTable
-----------------------------------------------------------------------------
(* What must be true.                                                      *)

\* The type invariant of the log and the iterator.
TypeOK ==
  /\ \A i \in DOMAIN committed : committed[i].gtid \in Gtid /\ committed[i].changes \in Seq(Change)
  /\ gnos \in [Server -> 1..MaxTxns + 1]
  /\ names \in [Table -> Names] /\ colCache \in [Table -> Names \cup {None}]
  /\ b.current \in Transaction \cup {None}
  /\ b.pending \in Seq(Change) /\ b.rowCount \in Nat /\ b.rowBytes \in Nat
  /\ b.tooLarge \in BOOLEAN /\ b.markerActionIDs \subseteq Image
  /\ \A i \in DOMAIN emitted : emitted[i].txn \in Transaction /\ emitted[i].markers \subseteq Image
  /\ reader \in {"scanning", "ended", "failed"}

\* Next returns the committed transactions in commit order, each once and under its own GTID:
\* none is merged with its neighbour, split or passed over.
OneForOne ==
  /\ Len(emitted) <= Len(committed)
  /\ \A i \in DOMAIN emitted : emitted[i].txn.gtid = committed[i].gtid

\* A transaction that is said to be executable carries all its changes of user tables, as
\* they were and in their order: no plan is made from a part of a transaction, or from rows of
\* another one, whatever tables, limits and other transactions came before it.
ExecutableIsComplete ==
  \A i \in DOMAIN emitted : LET e == emitted[i].txn IN
    e.executable => \E j \in DOMAIN committed : /\ committed[j].gtid = e.gtid
                                                /\ committed[j].changes = e.rows

\* The row count and the tables that `txn list` and the index show are those of the whole
\* transaction, also of one that is too large to keep, unless its schema could not be proven.
SummaryIsHonest ==
  \A i \in DOMAIN emitted : LET e == emitted[i].txn
                                c == committed[i].changes IN
    "schema" \notin e.reasons =>
      e.rowCount = Len(c) /\ e.tables = {c[j].table : j \in DOMAIN c}

\* The iterator never holds more of a transaction than the policy allows, however large it is.
Total(rows) ==
  LET upTo[i \in 0 .. Len(rows)] ==
        IF i = 0 THEN 0 ELSE upTo[i - 1] + SizeOf(rows[i].before) + SizeOf(rows[i].after)
  IN  upTo[Len(rows)]
BoundedMemory == /\ RowLimit > 0  => Len(b.pending) <= RowLimit
                 /\ ByteLimit > 0 => Total(b.pending) <= ByteLimit

First(seq, Matches(_)) ==
  LET hits == {i \in DOMAIN seq : Matches(seq[i])}
  IN  IF hits = {} THEN None ELSE seq[CHOOSE i \in hits : \A j \in hits : i <= j]

\* Source.FindActionGTID: the GTID that `plan apply` reports is that of the transaction which
\* inserted this very action's marker, never of one that committed next to it.
\* (The first one is a faulty variant that takes any compensation for the one looked for.)
FindActionGTIDOfAny(id) == First(emitted, LAMBDA e : e.markers # {})
FindActionGTID(id) == First(emitted, LAMBDA e : id \in e.markers)
ActionsAreCorrelated ==
  \A id \in Image : FindActionGTID(id) # None =>
    \E i \in DOMAIN committed : id \in committed[i].actions
                                /\ committed[i].gtid = FindActionGTID(id).txn.gtid

\* Source.Find: `txn show` and `plan create` work on the transaction whose GTID was asked for
\* ("Find locates one transaction by GTID").  stripGTIDPrefix compares what follows the colon.
Find(gtid) == First(emitted, LAMBDA e : e.txn.gtid # None /\ e.txn.gtid.gno = gtid.gno)
FindsTheOneAsked == \A i \in DOMAIN committed :
                      Find(committed[i].gtid) # None => Find(committed[i].gtid).txn.gtid = committed[i].gtid

\* The help text of `txn list --table`, "filter to one table" (internal/cli/txn.go:41): what is
\* listed has changed a row of that table.
ListIsFiltered == TableFilter # None => \A i \in DOMAIN emitted : TableFilter \in emitted[i].txn.tables

\* README, "无主键表和非 InnoDB 表仍可 list/show": a scan does not fail on a table's engine.
ScanGoesOn == reader # "failed"

\* Every committed transaction is returned in the end, unless the scan ends or fails before.
Delivered == \A n \in 1..MaxTxns :
               Len(committed) >= n ~> (Len(emitted) >= n \/ reader # "scanning")
=============================================================================
