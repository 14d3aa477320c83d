----------------------------- MODULE Compensation ----------------------------
(***************************************************************************)
(* What a plan does to rows.  A source transaction changes a table; a plan *)
(* is created from its row changes (planner.Build), checked against the    *)
(* rows of the moment (executor.Check), possibly resolved by an operator   *)
(* (planner.BuildResolved), applied, and followed by the plans of its      *)
(* action chain (BuildReapply, BuildChainedRevert), while other clients    *)
(* change the same table in between.                                       *)
(*                                                                         *)
(* One table stands for all of them: operations, unique keys and           *)
(* fingerprints never relate two tables.  A row is a function from columns *)
(* to values, an image a row restricted to some columns, and a table a set *)
(* of rows, so two identical rows of a table without key are one.  Applying *)
(* is one step here; its transaction is the subject of ApplyProtocol.      *)
(***************************************************************************)
EXTENDS Integers, Sequences, SequencesExt, FiniteSets, Functions, TLC

CONSTANTS
  Dom,          \* the columns, each with the set of its non-NULL values
  Null,         \* the SQL NULL
  None,         \* no row, no plan
  Nullable,     \* columns that may be NULL
  NullReads,    \* what Check reads for a NULL of a nullable column: a value, or Unreadable
  Unreadable,   \* the column's type has no value for it: the row cannot be read
  Generated,    \* stored generated columns, each with the column it copies
  UniqueKeys,   \* column sets of the unique keys: PRIMARY first, then by name
  MaxRows,      \* bound: rows of the first table
  MaxChanges,   \* bound: row changes of the source transaction
  MaxForeign,   \* bound: row changes of other clients
  MaxDepth      \* policy max_action_depth

Cols    == DOMAIN Dom
GenCols == DOMAIN Generated
Stored  == UNION {Dom[c] : c \in Cols}
Value   == Stored \cup {Null}
Row     == {r \in [Cols -> Value] :
              \A c \in Cols : /\ r[c] \in Dom[c] \cup (IF c \in Nullable THEN {Null} ELSE {})
                              /\ c \in GenCols => r[c] = r[Generated[c]]}
NoImage == [c \in {} |-> Null]
Has(img) == DOMAIN img # {}

Images == UNION {[S -> Value] : S \in SUBSET Cols}
Ops    == [kind : {"insert", "update", "delete"}, key : Images, expect : Images, write : Images]
Plans  == [mode : {"revert", "reapply"}, class : {"safe", "unsafe_resolved"}, depth : Nat,
           ops : Seq(Ops)]

ASSUME CompensationAssumption ==
  /\ Cols # {} /\ Nullable \subseteq Cols /\ GenCols \subseteq Cols
  /\ \A c \in GenCols : Generated[c] \in Cols \ GenCols
  /\ NullReads \in [Nullable -> Stored \cup {Unreadable}]
  /\ UniqueKeys \in Seq((SUBSET Cols) \ {{}})
  /\ \A c \in Cols : Null \notin Dom[c] /\ Unreadable \notin Dom[c] \cup {Null}
  /\ None \notin Row \cup Plans
  /\ {MaxRows, MaxChanges, MaxForeign, MaxDepth} \subseteq Nat

VARIABLES
  table,        \* the rows of the table now
  before, after,\* the table before and after the source transaction
  changes,      \* its row changes, in binlog order; committed once `root` may be created
  root,         \* the plan `plan create` wrote
  plan,         \* the newest plan: root, resolved, or the next one of the chain
  reviewed,     \* the rows `plan resolve` looked at to make `plan`, and what it skipped
  applied,      \* whether `plan` has been applied, and with it its action recorded
  foreign       \* how much of MaxForeign is spent

vars == <<table, before, after, changes, root, plan, reviewed, applied, foreign>>

-----------------------------------------------------------------------------
(* MySQL: predicates, unique keys, generated columns (external).            *)

Matches(row, img)   == \A c \in DOMAIN img : row[c] = img[c]
Selected(t, img)    == {r \in t : Matches(r, img)}
Collide(r, s, k)    == \A c \in k : r[c] = s[c] /\ r[c] # Null
Legal(t)            == \A r, s \in t : r # s => \A k \in ToSet(UniqueKeys) : ~Collide(r, s, k)
Regenerated(r)      == [c \in Cols |-> IF c \in GenCols THEN r[Generated[c]] ELSE r[c]]
Assigned(r, img)    == Regenerated([c \in Cols |-> IF c \in DOMAIN img THEN img[c] ELSE r[c]])

\* One row change: an insert, a delete or an update that changes something.
Change(t, old, new) ==
  /\ old # new
  /\ old = None \/ old \in t
  /\ new = None \/ new \in Row \ t
  /\ Legal((t \ {old}) \cup ({new} \ {None}))

Changed(t, old, new) == (t \ {old}) \cup ({new} \ {None})

-----------------------------------------------------------------------------
(* planner.Build.                                                           *)

ImageOf(row) == IF row = None THEN NoImage ELSE row

\* selectUniqueKey: the first key complete and not NULL in the image (0: none).  A
\* generated column counts as not NULL, whatever it holds.
NotNull(img, c) == c \notin Nullable \/ c \in GenCols \/ img[c] # Null
SelectUniqueKey(img) ==
  SelectInSeq(UniqueKeys, LAMBDA k : k \subseteq DOMAIN img /\ \A c \in k : NotNull(img, c))

\* rowForKey: the after image, or the before image of a DELETE.
RowForKey(rc) == IF Has(rc.after) THEN rc.after ELSE rc.before

\* chooseKey: chosen for the table's first row change and cached for all the others.
ChooseKey(rcs) == SelectUniqueKey(RowForKey(rcs[1]))

KindOf(rc) == CASE ~Has(rc.before) -> "insert" [] ~Has(rc.after) -> "delete" [] OTHER -> "update"
Opposite(kind) == CASE kind = "insert" -> "delete" [] kind = "delete" -> "insert"
                    [] OTHER -> kind

\* withoutGeneratedColumns
WithoutGenerated(img) == Restrict(img, DOMAIN img \ GenCols)

\* buildOne.  (The first one is a faulty variant that deletes by key alone.)
BuildOneBlind(rc, mode, key) ==
  [kind   |-> IF mode = "revert" THEN Opposite(KindOf(rc)) ELSE KindOf(rc),
   key    |-> Restrict(RowForKey(rc), key),
   expect |-> IF KindOf(rc) = "insert" THEN NoImage
              ELSE IF mode = "revert" THEN rc.after ELSE rc.before,
   write  |-> WithoutGenerated(IF mode = "revert" THEN rc.before ELSE rc.after)]
BuildOne(rc, mode, key) ==
  [kind   |-> IF mode = "revert" THEN Opposite(KindOf(rc)) ELSE KindOf(rc),
   key    |-> Restrict(RowForKey(rc), key),
   expect |-> IF mode = "revert" THEN rc.after ELSE rc.before,
   write  |-> WithoutGenerated(IF mode = "revert" THEN rc.before ELSE rc.after)]

\* reverseRows for a revert.  (The first one is a faulty variant that forgets it.)
ForwardOrder(rcs, mode)   == rcs
ExecutionOrder(rcs, mode) == IF mode = "revert" THEN Reverse(rcs) ELSE rcs

BuildOperations(rcs, mode) ==
  LET key  == UniqueKeys[ChooseKey(rcs)]
      rows == ExecutionOrder(rcs, mode)
  IN  [i \in DOMAIN rows |-> BuildOne(rows[i], mode, key)]

-----------------------------------------------------------------------------
(* planner.BuildReapply and BuildChainedRevert.                             *)

\* invertRevertOperation.  (The first one is a faulty variant that looks for the
\* reverted row under the key it had before it was reverted.)
InvertSameKey(op) ==
  [kind |-> Opposite(op.kind), key |-> op.key, expect |-> op.write, write |-> op.expect]
Invert(op) ==
  [kind   |-> Opposite(op.kind),
   key    |-> Restrict(IF op.kind = "delete" THEN op.expect ELSE op.write, DOMAIN op.key),
   expect |-> op.write,
   write  |-> op.expect]

Invertible(ops) ==
  \A i \in DOMAIN ops :
    DOMAIN ops[i].key \subseteq DOMAIN (IF ops[i].kind = "delete" THEN ops[i].expect ELSE ops[i].write)

InvertedOperations(ops) == [i \in DOMAIN ops |-> Invert(ops[Len(ops) + 1 - i])]

-----------------------------------------------------------------------------
(* executor.Check: every operation against the rows as they are now.        *)

\* ReadByKey takes the first row the key selects, in no particular order.
Readable(t, op) == IF Selected(t, op.key) = {} THEN {None} ELSE Selected(t, op.key)

\* ReadByKey hands every scanned column to Decode as a []byte.  For NULL it is a nil []byte, which
\* is not the nil that Decode takes for NULL: it is decoded as a value of no bytes.
ReadBack(row) == [c \in Cols |-> IF row[c] = Null THEN NullReads[c] ELSE row[c]]
CanBeRead(row) == Unreadable \notin Range(ReadBack(row))

\* checkOneOperation and compareRow: the kind of conflict of op with the row read.
Conflict(op, row) ==
  IF row = None THEN IF op.kind = "insert" THEN "none" ELSE "row_missing"
  ELSE IF ~CanBeRead(row) THEN "unsupported_op"
  ELSE IF op.kind = "insert" THEN "row_exists"
  ELSE IF Matches(ReadBack(row), op.expect) THEN "none" ELSE "row_mismatch"

\* Check may say READY, and may find exactly the conflicting rows of `seen`.
Ready(t, ops)      == \A i \in DOMAIN ops :
                        \E row \in Readable(t, ops[i]) : Conflict(ops[i], row) = "none"
Conflicting(ops, seen) == {i \in DOMAIN ops : Conflict(ops[i], seen[i]) # "none"}

-----------------------------------------------------------------------------
(* planner.BuildResolved.                                                   *)

Reached(row, op) == Matches(ReadBack(row), op.write)

\* overwriteOperation drops the operations that have nothing left to do ...
\* (The first one is a faulty variant that drops an insert whenever there is a row.)
DroppedExisting(op, row) == IF op.kind = "insert" THEN row # None
                            ELSE IF row = None THEN op.kind = "delete"
                            ELSE op.kind = "update" /\ Reached(row, op)
Dropped(op, row) == \/ op.kind \in {"update", "insert"} /\ row # None /\ Reached(row, op)
                    \/ op.kind = "delete" /\ row = None

\* ... refuses those it cannot turn into another one ...
Overwritable(op, row) ==
  /\ row # None => CanBeRead(row)
  /\ op.kind = "update" /\ row = None => DOMAIN op.key \subseteq DOMAIN op.write

\* ... and binds the others to the row as it was read.
\* (The first one is a faulty variant that keeps the old precondition.)
OverwrittenUnbound(op, row) ==
  IF row = None THEN [op EXCEPT !.kind = "insert", !.expect = NoImage,
                                !.key = Restrict(op.write, DOMAIN op.key)]
                ELSE [op EXCEPT !.kind = IF @ = "insert" THEN "update" ELSE @, !.expect = NoImage]
Overwritten(op, row) ==
  IF row = None THEN [op EXCEPT !.kind = "insert", !.expect = NoImage,
                                !.key = Restrict(op.write, DOMAIN op.key)]
                ELSE [op EXCEPT !.kind = IF @ = "insert" THEN "update" ELSE @, !.expect = ReadBack(row)]

ResolvedOperations(ops, seen, skip) ==
  LET bad == Conflicting(ops, seen)
      resolved[i \in 0..Len(ops)] ==
        IF i = 0 THEN <<>>
        ELSE IF i \notin bad THEN Append(resolved[i - 1], ops[i])
        ELSE IF i \in skip \/ Dropped(ops[i], seen[i]) THEN resolved[i - 1]
        ELSE Append(resolved[i - 1], Overwritten(ops[i], seen[i]))
  IN  resolved[Len(ops)]

-----------------------------------------------------------------------------
(* ApplyWriter.applyOp, operation after operation, all or nothing.          *)

\* buildPredicate(key, expect): a column is bound once, the key's value first.
Predicate(op) == [c \in DOMAIN op.key \cup DOMAIN op.expect |->
                    IF c \in DOMAIN op.key THEN op.key[c] ELSE op.expect[c]]

Failed == [ok |-> FALSE, rows |-> {}]

ApplyOp(acc, op) ==
  LET t      == acc.rows
      locked == Selected(t, op.key)
      hit    == Selected(t, Predicate(op))
      old    == IF op.kind = "insert" THEN None ELSE CHOOSE r \in hit : TRUE
      new    == IF op.kind = "delete" THEN None
                ELSE Assigned(IF old = None THEN [c \in Cols |-> Null] ELSE old, op.write)
  IN  IF \/ ~acc.ok
         \/ op.kind = "insert" /\ locked # {}               \* lockForOp
         \/ op.kind # "insert" /\ \A r \in hit : hit # {r}  \* RowsAffected is not 1
         \/ DOMAIN op.write \cap GenCols # {}               \* MySQL error 3105
         \/ ~Change(t, old, new)                            \* 1062, or nothing changes
      THEN Failed
      ELSE [ok |-> TRUE, rows |-> Changed(t, old, new)]

Execute(t, ops) ==
  LET result[i \in 0..Len(ops)] ==
        IF i = 0 THEN [ok |-> TRUE, rows |-> t] ELSE ApplyOp(result[i - 1], ops[i])
  IN  result[Len(ops)]

-----------------------------------------------------------------------------
Plan(mode, class, depth, ops) == [mode |-> mode, class |-> class, depth |-> depth, ops |-> ops]

Init ==
  /\ before \in {t \in UNION {kSubset(n, Row) : n \in 0..MaxRows} : Legal(t)}
  /\ table = before /\ after = before
  /\ changes = <<>> /\ root = None /\ plan = None /\ reviewed = None
  /\ applied = FALSE /\ foreign = 0

\* One row change of the source transaction and its event in the binlog (FULL row image).
SourceChange(old, new) ==
  /\ root = None /\ Len(changes) < MaxChanges
  /\ Change(table, old, new)
  /\ table' = Changed(table, old, new) /\ after' = table'
  /\ changes' = Append(changes, [before |-> ImageOf(old), after |-> ImageOf(new)])
  /\ UNCHANGED <<before, root, plan, reviewed, applied, foreign>>

\* `plan create` after the source transaction has committed: planner.Build.
Create(mode) ==
  /\ root = None /\ changes # <<>>
  /\ ChooseKey(changes) # 0
  /\ root' = Plan(mode, "safe", 0, BuildOperations(changes, mode))
  /\ plan' = root'
  /\ UNCHANGED <<table, before, after, changes, reviewed, applied, foreign>>

\* Another client changes a row.
ForeignChange(old, new) ==
  /\ root # None /\ foreign < MaxForeign
  /\ Change(table, old, new)
  /\ table' = Changed(table, old, new)
  /\ foreign' = foreign + 1
  /\ UNCHANGED <<before, after, changes, root, plan, reviewed, applied>>

\* `plan resolve`: Check reads the rows `seen`, the operator skips some of the conflicting
\* operations and overwrites the others.
Resolve(seen, skip) ==
  LET ops == plan.ops
      bad == Conflicting(ops, seen)
  IN  /\ \A i \in DOMAIN ops : seen[i] \in Readable(table, ops[i])
      /\ bad # {} /\ skip \subseteq bad
      /\ \A i \in bad \ skip : Overwritable(ops[i], seen[i])
      /\ plan' = Plan(plan.mode, "unsafe_resolved", plan.depth, ResolvedOperations(ops, seen, skip))
      /\ reviewed' = [rows |-> table, ops |-> ops, seen |-> seen, skip |-> skip]
      /\ UNCHANGED <<table, before, after, changes, root, applied, foreign>>

\* `plan apply`: Check says READY and every operation affects its one row.
Apply ==
  /\ plan # None /\ ~applied
  /\ Ready(table, plan.ops)
  /\ Execute(table, plan.ops).ok
  /\ table' = Execute(table, plan.ops).rows
  /\ applied' = TRUE
  /\ UNCHANGED <<before, after, changes, root, plan, reviewed, foreign>>

\* max_action_depth bounds the depth of the action that would follow one of depth d.
DepthAllowedOffByOne(d) == d <= MaxDepth                       \* faulty variant
DepthAllowed(d) == d + 1 <= MaxDepth

\* `action reapply` and `action revert`, alternating, from the root revert plan.
Continue ==
  LET mode == IF plan.mode = "revert" THEN "reapply" ELSE "revert" IN
  /\ applied /\ root.mode = "revert"
  /\ plan.depth = 0 => plan = root
  /\ DepthAllowed(plan.depth)
  /\ mode = "reapply" => Invertible(root.ops)
  /\ plan' = Plan(mode, "safe", plan.depth + 1,
                  IF mode = "reapply" THEN InvertedOperations(root.ops) ELSE root.ops)
  /\ reviewed' = None /\ applied' = FALSE
  /\ UNCHANGED <<table, before, after, changes, root, foreign>>

Next ==
  \/ \E old \in table \cup {None}, new \in Row \cup {None} :
       SourceChange(old, new) \/ ForeignChange(old, new)
  \/ \E mode \in {"revert", "reapply"} : Create(mode)
  \/ /\ plan # None /\ ~applied
     /\ \E seen \in [DOMAIN plan.ops -> table \cup {None}] :
          \E skip \in SUBSET DOMAIN plan.ops : Resolve(seen, skip)
  \/ Apply
  \/ Continue

Spec == Init /\ [][Next]_vars

-----------------------------------------------------------------------------
PlanOK(p) == /\ p.mode \in {"revert", "reapply"} /\ p.class \in {"safe", "unsafe_resolved"}
             /\ p.depth \in 0..MaxDepth /\ Len(p.ops) <= MaxChanges
             /\ \A i \in DOMAIN p.ops : p.ops[i] \in Ops

\* The type invariant: the table keeps its unique keys, plans hold operations.
TypeOK ==
  /\ \A t \in {table, before, after} : t \subseteq Row /\ Legal(t)
  /\ Len(changes) <= MaxChanges
  /\ \A p \in {root, plan} : p = None \/ PlanOK(p)
  /\ applied \in BOOLEAN /\ foreign \in 0..MaxForeign

Applying == applied' /\ ~applied

\* What the source transaction as a whole took away and brought.
Gone == before \ after
New  == after \ before

\* Whether every operation looks for its row under a key without NULL.
KeysNotNull == \A i \in DOMAIN plan.ops : Null \notin Range(plan.ops[i].key)

\* A safe plan undoes (or redoes) exactly what the source transaction did: it applies only where
\* every row the transaction left is still as it left it, and then changes the table by the net
\* effect of the transaction and nothing else, along the whole chain of actions.  (A reapply from
\* the source transaction looks for its rows under the keys they get: ExactWhateverTheKey.)
NetEffect ==
  IF plan.mode = "revert" THEN New \subseteq table /\ table' = (table \ New) \cup Gone
                          ELSE Gone \subseteq table /\ table' = (table \ Gone) \cup New
ExactEffect ==
  [][Applying /\ plan.class = "safe" /\ (root.mode = "revert" \/ KeysNotNull) => NetEffect]_vars

\* The comment of compareRow (internal/executor/check.go:243): "a conflict for each column where
\* current != expect", so the row an operation changes is the row it expects.
ExactWhateverTheKey == [][Applying /\ plan.class = "safe" => NetEffect]_vars

\* Nobody has changed a row since the plan's predecessor: the source transaction, or the action
\* the plan continues.
Undisturbed ==
  /\ plan # None /\ ~applied /\ plan.class = "safe"
  /\ table = IF plan.mode = "revert" THEN after ELSE before

\* On undisturbed rows a plan that Check calls READY can be applied: no operation stands in the
\* way of a later one, if no key is NULL.
ReadyApplies == Undisturbed /\ KeysNotNull /\ Ready(table, plan.ops) => Execute(table, plan.ops).ok

\* The same for every key, as the status READY suggests (internal/executor/check.go:22).
ReadyWhateverTheKey == Undisturbed /\ Ready(table, plan.ops) => Execute(table, plan.ops).ok

\* The keys under which a row change finds and leaves its row.
KeysOf(rc) == {Restrict(img, UniqueKeys[ChooseKey(changes)]) : img \in {rc.before, rc.after} \ {NoImage}}
TouchedOnce == \A i, j \in DOMAIN changes : i # j => KeysOf(changes[i]) \cap KeysOf(changes[j]) = {}

\* Whether no operation finds a row with a NULL in it.
NoNullsRead == \A i \in DOMAIN plan.ops : \A r \in Selected(table, plan.ops[i].key) : Null \notin Range(r)

\* Check reports no conflict while the rows are as the plan's predecessor left them, if the
\* source transaction touched no row twice (Check compares every operation with the rows before
\* the plan, not with what the operations before it leave), no row that is read holds a NULL
\* (NullIsNoConflict) and no key is NULL (KeySelectsOneRow), along a chain whose root is a revert
\* (KeyIsOfExpectedRow says what is wrong with a reapply from the source transaction).
NoFalseConflict ==
  Undisturbed /\ TouchedOnce /\ KeysNotNull /\ NoNullsRead /\ root.mode = "revert" =>
    Ready(table, plan.ops)

\* The doc comments of Value.Equal (internal/core/value.go:79-81), "NULL is only equal to NULL", and
\* of valuesEqual (internal/executor/check.go:286-287), "both the binlog and SELECT paths use the
\* same decoder": a NULL that nobody touched since is no conflict.
NullIsNoConflict ==
  Undisturbed /\ TouchedOnce /\ KeysNotNull /\ root.mode = "revert" => Ready(table, plan.ops)

\* The rows the operation should leave, given the row that was seen.
Intended(op, row) ==
  IF op.kind = "delete" THEN {}
  ELSE {Assigned(IF row = None THEN [c \in Cols |-> Null] ELSE row, op.write)}

\* Applied to the rows the operator reviewed, a resolved plan brings every operation that was not
\* skipped to its target, also those dropped because there was nothing left to do, and leaves
\* everything else alone, the skipped rows included.
ResolvedEffect ==
  [][Applying /\ plan.class = "unsafe_resolved" /\ table = reviewed.rows /\ TouchedOnce =>
       LET todo == DOMAIN reviewed.ops \ reviewed.skip
       IN  table' = (table \ {reviewed.seen[i] : i \in todo})
                      \cup UNION {Intended(reviewed.ops[i], reviewed.seen[i]) : i \in todo}]_vars

\* Whether the row operation i looks for is as it was when the plan was reviewed.
Unmoved(i) == LET key == reviewed.ops[i].key
              IN  Selected(table, key) = Selected(reviewed.rows, key)

\* The operations that are still bound to the row that was reviewed: neither dropped, nor an
\* update of a key turned into an insert under the old key.
Bound(i) ==
  LET op == reviewed.ops[i] IN
  /\ i \notin reviewed.skip /\ ~Dropped(op, reviewed.seen[i])
  /\ op.kind = "update" /\ reviewed.seen[i] = None =>
       \A c \in DOMAIN op.key \cap DOMAIN op.write : op.write[c] = op.key[c]

\* Such an operation of a resolved plan is applied only if its row is still the one that was
\* reviewed: a later change conflicts again (overwriteOperation re-binds the expect image).
BoundRowsUnmoved ==
  [][Applying /\ plan.class = "unsafe_resolved" /\ TouchedOnce =>
       \A i \in DOMAIN reviewed.ops : Bound(i) => Unmoved(i)]_vars

\* The doc comment of BuildResolved (internal/planner/resolve.go:38-39): preconditions are bound to
\* the row images observed by Check, "a later change therefore conflicts again".
LaterChangeConflicts ==
  [][Applying /\ plan.class = "unsafe_resolved" =>
       \A i \in DOMAIN reviewed.ops \ reviewed.skip : Unmoved(i)]_vars

\* The comment at internal/backends/mysql/check.go:5-7: the plan's key columns are always a unique
\* key, "so we expect at most one row".
KeySelectsOneRow ==
  root # None => \A i \in DOMAIN root.ops : Cardinality(Selected(table, root.ops[i].key)) <= 1

\* The comment of rowForKey (internal/planner/planner.go:382-384): the key is taken from the after
\* image, which "contains the current state": it is the key of the row the operation expects.
KeyIsOfExpectedRow ==
  root # None => \A i \in DOMAIN root.ops :
    LET op == root.ops[i] IN Has(op.expect) => Matches(op.expect, op.key)
=============================================================================
