---------------------------- MODULE ApplyProtocol ---------------------------
(***************************************************************************)
(* `unredo plan apply`, end to end, against one MySQL target: several CLI  *)
(* invocations read plan files, validate the action chain, check the rows, *)
(* and run the compensation in one InnoDB transaction together with its    *)
(* action marker, while other clients write the same rows, somebody alters *)
(* the table, connections break, invocations are killed and the server     *)
(* restarts.  `unredo action verify` then tells what became of a COMMIT    *)
(* that was never answered.                                                *)
(*                                                                         *)
(* An invocation mints its action_id when it starts and never runs twice,  *)
(* so a run stands for its action id.  plan_id and plan digest stand for   *)
(* each other, because ReadFile refuses a file whose digest does not match *)
(* its contents.  All tables of a plan are one table with one schema       *)
(* version: fingerprints are compared table by table, but any mismatch     *)
(* ends the run the same way.                                              *)
(***************************************************************************)
EXTENDS Integers, Sequences, SequencesExt

CONSTANTS
  Run,            \* invocations of `plan apply`; a run is its action_id
  PlanId,         \* plan files
  Key,            \* unique-key values of the table
  Val,            \* row images
  None,           \* no row, no plan, no action, no owner
  SourceTxn,      \* the row changes [key, before, after] of the source transaction
  InitialRows,    \* the rows when the model starts: after the source transaction
  MaxDepth,       \* policy max_action_depth (0..MaxDepth are the legal depths)
  GapLocks,       \* TRUE under REPEATABLE READ, FALSE under READ COMMITTED
  MaxForeign,     \* bound: writes of other clients
  MaxSchema,      \* bound: the highest schema version an ALTER TABLE reaches
  MaxCrash        \* bound: server restarts

Row    == Val \cup {None}
Change == [key : Key, before : Row, after : Row]
Op     == [key : Key, expect : Row, write : Row]
Modes  == {"revert", "reapply"}

ASSUME ProtocolAssumption ==
  /\ None \notin Run \cup PlanId \cup Val
  /\ SourceTxn \in Seq(Change)
  /\ \A i \in DOMAIN SourceTxn : SourceTxn[i].before # SourceTxn[i].after
  /\ InitialRows \in [Key -> Row]
  /\ GapLocks \in BOOLEAN
  /\ MaxDepth \in Nat \ {0} /\ MaxForeign \in Nat /\ MaxSchema \in Nat /\ MaxCrash \in Nat

VARIABLES
  plans,          \* the plan files on disk (None: not written)
  \* per run: what the CLI process is doing
  pc, plan, step, outcome, verdict,
  \* InnoDB: per connection, then per row
  txn,            \* "none", "active", or "inflight" once COMMIT has arrived
  pending,        \* runs whose marker is inserted but not committed
  mdl,            \* runs that hold the table's metadata lock
  db,             \* committed rows
  cur,            \* rows as the current (locking) reads see them
  owner,          \* holder of the record lock
  gap,            \* holders of the lock on the gap where a missing row would be
  markers,        \* committed rows of unredo_meta.action_markers
  schema,         \* schema version of the table
  foreign, crashes \* how many of MaxForeign and MaxCrash are spent

cliVars    == <<pc, plan, step, outcome>>
sessVars   == <<txn, pending, mdl>>
rowVars    == <<cur, owner, gap>>
boundVars  == <<foreign, crashes>>
vars == <<plans, cliVars, verdict, sessVars, rowVars, db, markers, schema, boundVars>>

-----------------------------------------------------------------------------
(* Plan files.                                                             *)

RevertOf(c)  == [key |-> c.key, expect |-> c.after,  write |-> c.before]
ReapplyOf(c) == [key |-> c.key, expect |-> c.before, write |-> c.after]

\* planner.buildOperations: a revert runs the changes backwards.
RootOps(mode) ==
  LET n == Len(SourceTxn)
  IN  [i \in 1..n |-> IF mode = "revert" THEN RevertOf(SourceTxn[n + 1 - i])
                                         ELSE ReapplyOf(SourceTxn[i])]

\* planner.BuildReapply over invertRevertOperation.
Inverted(ops) ==
  LET n == Len(ops)
  IN  [i \in 1..n |-> [key |-> ops[n + 1 - i].key, expect |-> ops[n + 1 - i].write,
                                                   write  |-> ops[n + 1 - i].expect]]

PlanRec == [mode : Modes, class : {"safe", "unsafe_resolved"}, root : PlanId,
            parent : Run \cup {None}, depth : 0..MaxDepth, ops : Seq(Op), schema : 0..MaxSchema]

Written(p)    == plans[p] # None
Write(p, rec) == plans' = [plans EXCEPT ![p] = rec]

\* The target state a marker records.  (The first one is a faulty variant that writes action_type
\* into its neighbour.)
TargetIsType(mode) == IF mode = "revert" THEN "REVERT" ELSE "REAPPLY"
TargetOf(mode) == IF mode = "revert" THEN "ORIGINAL_REVERTED" ELSE "ORIGINAL_APPLIED"

\* `plan create`: a root plan for the source transaction.
CreatePlan(p, mode) ==
  /\ ~Written(p)
  /\ Write(p, [mode |-> mode, class |-> "safe", root |-> p, parent |-> None,
               depth |-> 0, ops |-> RootOps(mode), schema |-> schema])
  /\ UNCHANGED <<cliVars, verdict, sessVars, rowVars, db, markers, schema, boundVars>>

\* LatestAction(root): ORDER BY chain_depth DESC LIMIT 1.
IsLatest(m) == /\ m \in markers
               /\ \A n \in markers : n.root = m.root => n.depth <= m.depth

\* max_action_depth bounds the depth of the action that would follow one of depth d.
DepthAllowed(d) == d + 1 <= MaxDepth

\* `action reapply` and `action revert`: validateActionParent, then BuildReapply
\* or BuildChainedRevert from the immutable root plan.
NextPlan(p, root, m, mode) ==
  /\ ~Written(p) /\ Written(root)
  /\ plans[root].mode = "revert" /\ plans[root].class = "safe"
  /\ m \in markers
  /\ m.target # TargetOf(mode)
  /\ m.root = root
  /\ m.depth = 0 => m.plan = root
  /\ IsLatest(m)
  /\ DepthAllowed(m.depth)
  /\ Write(p, [mode |-> mode, class |-> "safe", root |-> root, parent |-> m.action,
               depth |-> m.depth + 1, schema |-> plans[root].schema,
               ops |-> IF mode = "reapply" THEN Inverted(plans[root].ops)
                                           ELSE plans[root].ops])
  /\ UNCHANGED <<cliVars, verdict, sessVars, rowVars, db, markers, schema, boundVars>>

\* executor.checkOneOperation: an insert wants no row, an update or a delete its
\* expect image.
Conflicts(op, row) == row # op.expect

\* planner.overwriteOperation: re-bind the precondition to the row Check saw; the
\* operation is dropped when that row is already what it would write.
Overwritten(op, row) == [op EXCEPT !.expect = row]

\* `plan resolve`: Check says CONFLICT, every conflicting operation is skipped or
\* overwritten, the others are kept; the plan keeps its parent's place in the chain.
ResolvePlan(p, parent, skip) ==
  LET old   == plans[parent]
      ops   == old.ops
      bad   == {i \in DOMAIN ops : Conflicts(ops[i], db[ops[i].key])}
      keep  == {i \in DOMAIN ops \ skip : i \in bad => db[ops[i].key] # ops[i].write}
      new   == [i \in DOMAIN ops |-> IF i \in bad THEN Overwritten(ops[i], db[ops[i].key])
                                                  ELSE ops[i]]
  IN  /\ ~Written(p) /\ Written(parent)
      /\ old.schema = schema
      /\ bad # {} /\ skip \subseteq bad
      /\ \E n \in 0..Len(ops) : \E at \in [1..n -> DOMAIN ops] :
           /\ \A i, j \in 1..n : i < j => at[i] < at[j]
           /\ {at[i] : i \in 1..n} = keep
           /\ Write(p, [old EXCEPT !.class = "unsafe_resolved",
                                   !.ops = [i \in 1..n |-> new[at[i]]]])
      /\ UNCHANGED <<cliVars, verdict, sessVars, rowVars, db, markers, schema, boundVars>>

-----------------------------------------------------------------------------
(* One invocation of `plan apply`, up to its transaction.                  *)

Ops(r)   == plans[plan[r]].ops
CurOp(r) == Ops(r)[step[r]]

\* Backend.validateActionChain.
ChainValid(p) ==
  LET q == plans[p] IN
  IF q.parent = None
  THEN q.depth = 0
  ELSE /\ q.depth # 0 /\ q.depth <= MaxDepth
       /\ \E m \in markers : /\ m.action = q.parent
                             /\ m.root = q.root /\ m.depth + 1 = q.depth
                             /\ IsLatest(m)
                             /\ m.target # TargetOf(q.mode)

Goto(r, l)      == pc' = [pc EXCEPT ![r] = l]
Report(r, o)    == outcome' = [outcome EXCEPT ![r] = o]
\* An error return once the transaction is open: the deferred ROLLBACK comes next.
Fail(r, o)      == Goto(r, "rollback") /\ Report(r, o)

\* runPlanApply up to Backend.Apply's validateActionChain; it may always be refused, for a
\* wrong confirmation, a missing --accept-risk or a query that fails.
Start(r, p) ==
  /\ pc[r] = "idle" /\ Written(p)
  /\ plan' = [plan EXCEPT ![r] = p]
  /\ step' = [step EXCEPT ![r] = 1]
  /\ \/ ChainValid(p) /\ Goto(r, "check") /\ UNCHANGED outcome
     \/ Goto(r, "done") /\ Report(r, "refused")
  /\ UNCHANGED <<plans, verdict, sessVars, rowVars, db, markers, schema, boundVars>>

\* executor.Check: fingerprints first, then one plain SELECT per operation, each
\* seeing the rows committed at its own moment.  A read that fails is a conflict too.
CheckSchema(r) ==
  /\ pc[r] = "check"
  /\ \/ Report(r, IF Ops(r) = <<>> \/ plans[plan[r]].schema = schema THEN "ready"
                                                                   ELSE "schema_mismatch")
     \/ Ops(r) # <<>> /\ Report(r, "conflict")
  /\ Goto(r, "check_rows")
  /\ UNCHANGED <<plans, plan, step, verdict, sessVars, rowVars, db, markers, schema, boundVars>>

CheckRow(r) ==
  /\ pc[r] = "check_rows" /\ step[r] <= Len(Ops(r))
  /\ \/ outcome[r] = "ready" /\ Report(r, "conflict")
     \/ /\ Conflicts(CurOp(r), db[CurOp(r).key]) => outcome[r] # "ready"
        /\ UNCHANGED outcome
  /\ step' = [step EXCEPT ![r] = @ + 1]
  /\ UNCHANGED <<plans, pc, plan, verdict, sessVars, rowVars, db, markers, schema, boundVars>>

CheckEnds(r) ==
  /\ pc[r] = "check_rows" /\ step[r] > Len(Ops(r))
  /\ IF outcome[r] = "ready" THEN Goto(r, "begin") /\ Report(r, "none")
                             ELSE Goto(r, "done") /\ UNCHANGED outcome
  /\ UNCHANGED <<plans, plan, step, verdict, sessVars, rowVars, db, markers, schema, boundVars>>

-----------------------------------------------------------------------------
(* The transaction.                                                        *)

Live(r)     == txn[r] = "active"
AtCommit(r) == pc[r] = "lock" /\ step[r] > Len(Ops(r))

\* The metadata locks of the plan's tables, held to the end of the transaction.
NothingLocked(r) == mdl                                         \* faulty variant
TablesLocked(r)  == IF Ops(r) = <<>> THEN mdl ELSE mdl \cup {r}

\* START TRANSACTION and SELECT ... LIMIT 0 FOR UPDATE on every table.
LockSchemas(r) ==
  /\ pc[r] = "begin" /\ txn[r] = "none"
  /\ txn' = [txn EXCEPT ![r] = "active"]
  /\ mdl' = TablesLocked(r)
  /\ Goto(r, "schema")
  /\ UNCHANGED <<plans, plan, step, outcome, verdict, pending, rowVars, db, markers,
                 schema, boundVars>>

\* The fingerprints again, on another connection, under the metadata locks.
VerifySchemas(r) ==
  /\ pc[r] = "schema" /\ Live(r)
  /\ IF Ops(r) = <<>> \/ plans[plan[r]].schema = schema
     THEN Goto(r, "marker") /\ UNCHANGED outcome
     ELSE Fail(r, "schema_mismatch")
  /\ UNCHANGED <<plans, plan, step, verdict, sessVars, rowVars, db, markers, schema, boundVars>>

MarkerOf(r) == LET q == plans[plan[r]] IN
  [action |-> r, plan |-> plan[r], root |-> q.root, depth |-> q.depth,
   parent |-> q.parent, target |-> TargetOf(q.mode)]

\* The unique keys of action_markers: PRIMARY, uq_plan_id and uq_root_depth.
\* (The first two are faulty variants, with fewer keys.)
DuplicateAction(m, n) == m.action = n.action
DuplicatePlan(m, n)   == m.action = n.action \/ m.plan = n.plan
Duplicate(m, n) == \/ m.action = n.action
                   \/ m.plan = n.plan
                   \/ m.root = n.root /\ m.depth = n.depth

\* The INSERT waits for an uncommitted duplicate and fails (1062) on a committed one.
InsertMarker(r) ==
  /\ pc[r] = "marker" /\ Live(r)
  /\ \A s \in pending : ~Duplicate(MarkerOf(r), MarkerOf(s))
  /\ IF \E m \in markers : Duplicate(MarkerOf(r), m)
     THEN Fail(r, "replayed") /\ UNCHANGED <<step, pending>>
     ELSE /\ pending' = pending \cup {r}
          /\ step' = [step EXCEPT ![r] = 1]
          /\ Goto(r, "lock") /\ UNCHANGED outcome
  /\ UNCHANGED <<plans, plan, verdict, txn, mdl, rowVars, db, markers, schema, boundVars>>

\* lockForOp: SELECT ... FOR UPDATE locks the row, or the gap where it is missing.
LockRow(r) ==
  LET op == CurOp(r)
      k  == op.key
  IN  /\ pc[r] = "lock" /\ Live(r) /\ step[r] <= Len(Ops(r))
      /\ owner[k] \in {None, r}
      /\ IF cur[k] = None
         THEN /\ gap' = IF GapLocks /\ owner[k] = None THEN [gap EXCEPT ![k] = @ \cup {r}] ELSE gap
              /\ UNCHANGED owner
         ELSE owner' = [owner EXCEPT ![k] = r] /\ UNCHANGED gap
      /\ IF (cur[k] = None) = (op.expect = None) THEN Goto(r, "write") /\ UNCHANGED outcome
                                                 ELSE Fail(r, "conflict")
      /\ UNCHANGED <<plans, plan, step, verdict, sessVars, cur, db, markers, schema, boundVars>>

\* The WHERE of writeUpdate and writeDelete: key and expect image; an UPDATE to the same
\* values reports no affected row, which counts as drift too.
AppliesByKey(op, row) == (row = None) = (op.expect = None)        \* faulty variant
Applies(op, row)      == row = op.expect /\ op.write # op.expect

\* An INSERT waits for the other holders of the gap.
CanWrite(r, op) ==
  \/ op.expect # None
  \/ owner[op.key] \in {None, r} /\ gap[op.key] \subseteq {r}

\* writeInsert, writeUpdate, writeDelete: exactly one row is affected, or it is a conflict.
WriteRow(r) ==
  LET op == CurOp(r)
      k  == op.key
  IN  /\ pc[r] = "write" /\ Live(r) /\ CanWrite(r, op)
      /\ IF Applies(op, cur[k])
         THEN /\ cur' = [cur EXCEPT ![k] = op.write]
              /\ owner' = [owner EXCEPT ![k] = r]
              /\ step' = [step EXCEPT ![r] = @ + 1]
              /\ Goto(r, "lock") /\ UNCHANGED outcome
         ELSE Fail(r, "conflict") /\ UNCHANGED <<cur, owner, step>>
      /\ UNCHANGED <<plans, plan, verdict, sessVars, gap, db, markers, schema, boundVars>>

StatementsButWrites == {"begin", "schema", "marker", "lock"}       \* faulty variant
Statements == {"begin", "schema", "marker", "lock", "write"}

\* Any statement may fail: lock wait timeout, deadlock, --timeout, a broken connection,
\* or a server that restarted since.
StatementFails(r) ==
  /\ pc[r] \in Statements /\ ~AtCommit(r)
  /\ Fail(r, "error")
  /\ UNCHANGED <<plans, plan, step, verdict, sessVars, rowVars, db, markers, schema, boundVars>>

\* What Apply makes of any error of COMMIT: neither success nor failure.
\* (The first two are faulty variants.)
CommitErrorIsError   == "error"
CommitErrorIsSuccess == "applied"
CommitError          == "commit_unknown"

\* COMMIT reaches the server.
SendCommit(r) ==
  /\ AtCommit(r) /\ Live(r)
  /\ Goto(r, "sent")
  /\ txn' = [txn EXCEPT ![r] = "inflight"]
  /\ UNCHANGED <<plans, plan, step, outcome, verdict, pending, mdl, rowVars, db, markers,
                 schema, boundVars>>

\* COMMIT is not even sent (the context is done, or the connection is gone): still reported
\* as unknown.
CommitNotSent(r) ==
  /\ AtCommit(r)
  /\ Fail(r, CommitError)
  /\ UNCHANGED <<plans, plan, step, verdict, sessVars, rowVars, db, markers, schema, boundVars>>

\* The server answers COMMIT with success; Apply returns the action id.
CommitAnswered(r) ==
  /\ pc[r] = "sent" /\ \E m \in markers : m.action = r
  /\ Goto(r, "done") /\ Report(r, "applied")
  /\ UNCHANGED <<plans, plan, step, verdict, sessVars, rowVars, db, markers, schema, boundVars>>

\* The server answers COMMIT with an error and keeps the transaction open.
CommitRefused(r) ==
  /\ pc[r] = "sent" /\ txn[r] = "inflight"
  /\ txn' = [txn EXCEPT ![r] = "active"]
  /\ Fail(r, CommitError)
  /\ UNCHANGED <<plans, plan, step, verdict, pending, mdl, rowVars, db, markers, schema, boundVars>>

\* No answer arrives, whatever the server did or will still do with the COMMIT; the driver
\* has closed the connection, so the deferred ROLLBACK cannot reach it.
CommitUnanswered(r) ==
  /\ pc[r] = "sent"
  /\ Goto(r, "done") /\ Report(r, CommitError)
  /\ UNCHANGED <<plans, plan, step, verdict, sessVars, rowVars, db, markers, schema, boundVars>>

-----------------------------------------------------------------------------
(* The server's side: commit, rollback, restart (InnoDB, external).        *)

Ended(S) == /\ txn' = [r \in Run |-> IF r \in S THEN "none" ELSE txn[r]]
            /\ pending' = pending \ S
            /\ mdl' = mdl \ S
            /\ owner' = [k \in Key |-> IF owner[k] \in S THEN None ELSE owner[k]]
            /\ gap' = [k \in Key |-> gap[k] \ S]

\* Roll the transactions of S back and release everything they hold.
Undo(S) == /\ Ended(S)
           /\ cur' = [k \in Key |-> IF owner[k] \in S THEN db[k] ELSE cur[k]]

\* Marker and rows become visible in one step.
ServerCommit(r) ==
  /\ txn[r] = "inflight"
  /\ Ended({r})
  /\ db' = [k \in Key |-> IF owner[k] = r THEN cur[k] ELSE db[k]]
  /\ markers' = markers \cup (IF r \in pending THEN {MarkerOf(r)} ELSE {})
  /\ UNCHANGED <<plans, cliVars, verdict, cur, schema, boundVars>>

\* The deferred ROLLBACK (on a background context) and the return of the error.
Rollback(r) ==
  /\ pc[r] = "rollback" /\ txn[r] = "active"
  /\ Undo({r})
  /\ Goto(r, "done")
  /\ UNCHANGED <<plans, plan, step, outcome, verdict, db, markers, schema, boundVars>>

\* The ROLLBACK finds its connection closed; the server still holds the transaction.
RollbackLost(r) ==
  /\ pc[r] = "rollback"
  /\ Goto(r, "done")
  /\ UNCHANGED <<plans, plan, step, outcome, verdict, sessVars, rowVars, db, markers, schema,
                 boundVars>>

\* The server notices that the client of an open transaction is gone, or never receives
\* (or cannot carry out) a COMMIT whose client no longer listens.
ServerAbandon(r) ==
  /\ pc[r] = "done" /\ txn[r] # "none"
  /\ Undo({r})
  /\ UNCHANGED <<plans, cliVars, verdict, db, markers, schema, boundVars>>

\* The CLI process dies.
KillRun(r) ==
  /\ pc[r] \notin {"idle", "done"}
  /\ Goto(r, "done") /\ Report(r, "killed")
  /\ UNCHANGED <<plans, plan, step, verdict, sessVars, rowVars, db, markers, schema, boundVars>>

\* mysqld restarts: InnoDB recovery rolls every uncommitted transaction back.
ServerRestart ==
  /\ crashes < MaxCrash
  /\ crashes' = crashes + 1
  /\ Undo(Run)
  /\ UNCHANGED <<plans, cliVars, verdict, db, markers, schema, foreign>>

\* Another client changes one row in an autocommit transaction, respecting InnoDB's locks.
ForeignWrite(k, v) ==
  /\ foreign < MaxForeign /\ v # db[k]
  /\ owner[k] = None
  /\ db[k] = None => gap[k] = {}
  /\ foreign' = foreign + 1
  /\ db' = [db EXCEPT ![k] = v]
  /\ cur' = [cur EXCEPT ![k] = v]
  /\ UNCHANGED <<plans, cliVars, verdict, sessVars, owner, gap, markers, schema, crashes>>

\* ALTER TABLE waits until nobody holds the metadata lock.
AlterTable ==
  /\ schema < MaxSchema /\ mdl = {}
  /\ schema' = schema + 1
  /\ UNCHANGED <<plans, cliVars, verdict, sessVars, rowVars, db, markers, boundVars>>

-----------------------------------------------------------------------------
(* `action verify --action-id r --plan p`, for the run whose outcome is     *)
(* unknown; it may be repeated until it says COMMITTED.                     *)

Settle(r, v) == verdict' = [verdict EXCEPT ![r] = v]

CanVerify(r) == /\ pc[r] = "done" /\ outcome[r] = "commit_unknown"
                /\ verdict[r] # "COMMITTED"

\* The marker is found: COMMITTED if it belongs to the plan, otherwise no verdict.
VerifyFinds(r, p) ==
  /\ CanVerify(r) /\ Written(p)
  /\ \E m \in markers :
       /\ m.action = r
       /\ Settle(r, IF m.plan = p THEN "COMMITTED" ELSE "INDETERMINATE")
  /\ UNCHANGED <<plans, cliVars, sessVars, rowVars, db, markers, schema, boundVars>>

\* No marker up to the end of the settling window.
VerifyExpires(r) ==
  /\ CanVerify(r) /\ \A m \in markers : m.action # r
  /\ Settle(r, "NOT_COMMITTED")
  /\ UNCHANGED <<plans, cliVars, sessVars, rowVars, db, markers, schema, boundVars>>

\* The target cannot be queried, or is another instance.
VerifyFails(r) ==
  /\ CanVerify(r)
  /\ Settle(r, "INDETERMINATE")
  /\ UNCHANGED <<plans, cliVars, sessVars, rowVars, db, markers, schema, boundVars>>

-----------------------------------------------------------------------------
Init ==
  /\ plans = [p \in PlanId |-> None]
  /\ pc = [r \in Run |-> "idle"]
  /\ plan = [r \in Run |-> None]
  /\ step = [r \in Run |-> 1]
  /\ outcome = [r \in Run |-> "none"]
  /\ verdict = [r \in Run |-> "none"]
  /\ txn = [r \in Run |-> "none"]
  /\ pending = {} /\ mdl = {}
  /\ db = InitialRows /\ cur = InitialRows
  /\ owner = [k \in Key |-> None]
  /\ gap = [k \in Key |-> {}]
  /\ markers = {}
  /\ schema = 0 /\ foreign = 0 /\ crashes = 0

PlanStep ==
  \/ \E p \in PlanId, mode \in Modes : CreatePlan(p, mode)
  \/ \E p, root \in PlanId, mode \in Modes : \E m \in markers : NextPlan(p, root, m, mode)
  \/ \E p, parent \in PlanId : \E skip \in SUBSET (1..Len(SourceTxn)) :
       ResolvePlan(p, parent, skip)

ClientStep(r) ==
  \/ CheckSchema(r) \/ CheckRow(r) \/ CheckEnds(r)
  \/ LockSchemas(r) \/ VerifySchemas(r) \/ InsertMarker(r)
  \/ LockRow(r) \/ WriteRow(r) \/ StatementFails(r)
  \/ SendCommit(r) \/ CommitNotSent(r)
  \/ CommitAnswered(r) \/ CommitRefused(r) \/ CommitUnanswered(r)
  \/ Rollback(r) \/ RollbackLost(r)

ServerStep(r) == ServerCommit(r) \/ ServerAbandon(r)

VerifyStep(r) == (\E p \in PlanId : VerifyFinds(r, p)) \/ VerifyExpires(r) \/ VerifyFails(r)

Next ==
  \/ PlanStep
  \/ \E r \in Run : \/ \E p \in PlanId : Start(r, p)
                    \/ ClientStep(r) \/ ServerStep(r) \/ VerifyStep(r)
                    \/ KillRun(r)
  \/ ServerRestart
  \/ \E k \in Key, v \in Row : ForeignWrite(k, v)
  \/ AlterTable

Spec == Init /\ [][Next]_vars

\* Every wait of the client ends, because --timeout bounds each statement and the driver closes
\* the connection when it fires; InnoDB carries out the COMMITs it has received and cleans up
\* after clients that are gone.
Fairness == \A r \in Run : WF_vars(ClientStep(r)) /\ WF_vars(ServerStep(r))

FairSpec == Spec /\ Fairness
-----------------------------------------------------------------------------
(* What must be true.                                                      *)

Reports  == {"none", "ready", "refused", "schema_mismatch", "conflict", "replayed", "error",
             "commit_unknown", "killed", "applied"}
Labels   == {"idle", "check", "check_rows", "begin", "schema", "marker", "lock", "write", "sent",
             "rollback", "done"}
Markers  == [action : Run, plan : PlanId, root : PlanId, depth : 0..MaxDepth,
             parent : Run \cup {None}, target : {"ORIGINAL_REVERTED", "ORIGINAL_APPLIED"}]

\* The type invariant of the protocol's state.
TypeOK ==
  /\ plans \in [PlanId -> PlanRec \cup {None}]
  /\ pc \in [Run -> Labels]
  /\ plan \in [Run -> PlanId \cup {None}]
  /\ step \in [Run -> Nat \ {0}]
  /\ outcome \in [Run -> Reports]
  /\ verdict \in [Run -> {"none", "COMMITTED", "NOT_COMMITTED", "INDETERMINATE"}]
  /\ txn \in [Run -> {"none", "active", "inflight"}]
  /\ pending \subseteq Run /\ mdl \subseteq Run
  /\ db \in [Key -> Row] /\ cur \in [Key -> Row]
  /\ owner \in [Key -> Run \cup {None}]
  /\ gap \in [Key -> SUBSET Run]
  /\ markers \subseteq Markers
  /\ schema \in 0..MaxSchema /\ foreign \in 0..MaxForeign /\ crashes \in 0..MaxCrash

Committed == {m.action : m \in markers}

\* A plan is compensated at most once and a place in a chain is taken at most once, however
\* often `plan apply` is started, interrupted and retried, also by an operator who ignores
\* COMMIT_UNKNOWN (insertMarker, uq_plan_id, uq_root_depth).
ExactlyOnce == \A m, n \in markers :
                 m # n => m.plan # n.plan /\ (m.root = n.root => m.depth # n.depth)

\* An outcome that tells the operator nothing was changed is true for ever: the run's marker
\* is not committed, and no COMMIT of it is on its way (Apply's error returns).
FailureIsFinal ==
  \A r \in Run :
    pc[r] = "done" /\ outcome[r] \in {"refused", "schema_mismatch", "conflict", "replayed", "error"}
      => r \notin Committed /\ txn[r] # "inflight"

\* "applied", and the verdict COMMITTED of `action verify`, are only given when the marker
\* of exactly this action and plan is committed.
SuccessIsCommitted ==
  \A r \in Run :
    (pc[r] = "done" /\ outcome[r] = "applied") \/ verdict[r] = "COMMITTED"
      => \E m \in markers : m.action = r /\ m.plan = plan[r]

\* While a run changes rows, and until its COMMIT is decided, the table has the schema its
\* plan was made for (lockAndCheckSchemas: no ALTER TABLE between the check and the writes).
SchemaHeld ==
  \A r \in Run : txn[r] # "none" /\ r \in pending /\ Ops(r) # <<>> => plans[plan[r]].schema = schema

\* Which of the first i operations of ops are about row k.
Writers(ops, k, i) == {j \in 1..i : ops[j].key = k}

\* The rows after the first i operations of ops: each as the last of them that is about it wrote it.
After(rows, ops, i) ==
  [k \in Key |-> IF Writers(ops, k, i) = {} THEN rows[k] ELSE ops[Max(Writers(ops, k, i))].write]

Fits(rows, ops) ==
  \A i \in 1..Len(ops) : After(rows, ops, i - 1)[ops[i].key] = ops[i].expect

Commits(r) == r \notin Committed /\ r \in Committed'

\* Marker and data commit together and completely: a step that commits an action changes the
\* rows from a state in which every operation of its plan finds its expect image to the state
\* all its operations produce, and touches nothing else; no other step of Unredo changes a row.
AtomicCompensation ==
  [][/\ \A r \in Run : Commits(r) => /\ Fits(db, Ops(r))
                                     /\ db' = After(db, Ops(r), Len(Ops(r)))
     /\ markers' = markers => db' = db \/ foreign' = foreign + 1]_vars

\* An action continues the action that was the newest of its chain when it commits, so no
\* chain forks although the newest action is read long before (validateActionChain).
NoFork ==
  [][\A m \in markers' \ markers :
       IF m.depth = 0 THEN \A n \in markers : n.root # m.root
                      ELSE \E n \in markers : n.action = m.parent /\ IsLatest(n)]_markers

Ledger == INSTANCE ActionLedger WITH ledger <- markers, ActionId <- Run

\* The marker table behaves as the ledger of module ActionLedger.
ImplementsLedger == Ledger!Spec

\* Every chain of committed actions is one line: no two actions share a plan or a place, none is
\* missing below another, and neighbours compensate in opposite directions, so that LatestAction
\* returns the end of the history.
ChainsAreLines == Ledger!Linear

\* The doc comment of executor.ErrApplyReplayed (internal/executor/apply.go:93-95): the plan_id
\* constraint blocked a second apply, "the data was already compensated on the first run".
ReplayedMeansApplied ==
  \A r \in Run : pc[r] = "done" /\ outcome[r] = "replayed"
                   => \E m \in markers : m.plan = plan[r]

\* `plan apply` always comes to an end, whatever it waits for.
RunEnds == \A r \in Run : pc[r] # "idle" ~> pc[r] = "done"

\* No transaction, and so no lock and no undecided COMMIT, stays for ever.
TransactionEnds == \A r \in Run : txn[r] # "none" ~> txn[r] = "none"

-----------------------------------------------------------------------------
(* The inductive invariant from which the safety properties follow.         *)

\* Where each run and its transaction can be at the same time.  An action is
\* committed only by a transaction, which is over once it is.
Phases ==
  \A r \in Run :
    /\ pc[r] # "idle" => plan[r] \in PlanId /\ Written(plan[r])
    /\ pc[r] \in {"idle", "check", "check_rows", "begin"} => txn[r] = "none"
    /\ txn[r] = "inflight" => pc[r] \in {"sent", "done"} /\ r \in pending
    /\ pc[r] \in {"lock", "write"} /\ txn[r] = "active" => r \in pending
    /\ pc[r] = "write" => step[r] <= Len(Ops(r))
    /\ txn[r] # "none" => r \notin Committed
    /\ r \in Committed => pc[r] \in {"sent", "done"}
    /\ r \in pending => txn[r] # "none"

\* What validateActionChain saw is still true whenever it is relied on.
ParentStands ==
  \A r \in Run :
    pc[r] \notin {"idle", "done"} \/ r \in pending =>
      LET q == plans[plan[r]] IN
      IF q.parent = None
      THEN q.depth = 0
      ELSE \E m \in markers : /\ m.action = q.parent /\ m.root = q.root
                              /\ m.depth + 1 = q.depth /\ m.target # TargetOf(q.mode)

\* Uncommitted markers are unique among themselves and among the committed ones.
PendingUnique ==
  \A r \in pending : /\ \A m \in markers : ~Duplicate(MarkerOf(r), m)
                     /\ \A s \in pending : s # r => ~Duplicate(MarkerOf(r), MarkerOf(s))

\* A committed marker is the one its run inserted.
MarkersHonest == \A m \in markers : m = MarkerOf(m.action)

\* Below every committed action there is one at each smaller depth.
Gapless == \A m \in markers : \A d \in 0..m.depth :
             \E n \in markers : n.root = m.root /\ n.depth = d

\* What a run has reported is true, and nothing is reported before the end.
ReportsHonest ==
  \A r \in Run :
    /\ outcome[r] = "applied" => r \in Committed
    /\ verdict[r] = "COMMITTED" => r \in Committed
    /\ pc[r] = "done" /\ outcome[r] \in {"refused", "schema_mismatch", "conflict", "replayed", "error"}
         => r \notin Committed /\ txn[r] # "inflight"
    /\ pc[r] \in Statements \cup {"sent"} => outcome[r] = "none"

\* The tables of an open transaction are under its metadata locks, and from the moment
\* VerifySchemas has compared it the schema is the plan's.
SchemaLocked ==
  \A r \in Run :
    txn[r] # "none" /\ Ops(r) # <<>> =>
      /\ r \in mdl
      /\ pc[r] = "marker" \/ r \in pending => plans[plan[r]].schema = schema

Inv == /\ TypeOK /\ Phases /\ ParentStands /\ PendingUnique /\ MarkersHonest
       /\ ExactlyOnce /\ Gapless /\ ReportsHonest /\ SchemaLocked
=============================================================================
