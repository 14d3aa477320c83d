------------------------- MODULE ApplyProtocolProofs ------------------------
(***************************************************************************)
(* Theorems about ApplyProtocol, for every set of runs, plans, keys and    *)
(* values and every bound.                                                 *)
(***************************************************************************)
EXTENDS ApplyProtocol, TLAPS

\* The operations of a root plan are operations.
LEMMA RootOpsType ==
  ASSUME NEW mode \in Modes
  PROVE  RootOps(mode) \in Seq(Op)
<1>1. /\ Len(SourceTxn) \in Nat
      /\ \A i \in 1..Len(SourceTxn) : SourceTxn[i] \in Change
  BY ProtocolAssumption
<1>2. \A c \in Change : RevertOf(c) \in Op /\ ReapplyOf(c) \in Op
  BY DEF Change, Op, RevertOf, ReapplyOf
<1>3. \A i \in 1..Len(SourceTxn) : Len(SourceTxn) + 1 - i \in 1..Len(SourceTxn)
  BY <1>1
<1> QED
  BY <1>1, <1>2, <1>3 DEF RootOps

\* Inverting a sequence of operations gives a sequence of operations.
LEMMA InvertedType ==
  ASSUME NEW ops \in Seq(Op)
  PROVE  Inverted(ops) \in Seq(Op)
<1>1. /\ Len(ops) \in Nat
      /\ \A i \in 1..Len(ops) : ops[i] \in Op
  OBVIOUS
<1>2. \A i \in 1..Len(ops) : Len(ops) + 1 - i \in 1..Len(ops)
  BY <1>1
<1>3. \A i \in 1..Len(ops) :
        [key |-> ops[Len(ops) + 1 - i].key, expect |-> ops[Len(ops) + 1 - i].write,
         write |-> ops[Len(ops) + 1 - i].expect] \in Op
  BY <1>1, <1>2 DEF Op
<1> QED
  BY <1>1, <1>3 DEF Inverted

\* A written plan is a plan record, and a file that is not written is None.
LEMMA PlanType ==
  ASSUME TypeOK, NEW p \in PlanId, Written(p)
  PROVE  plans[p] \in PlanRec
BY DEF TypeOK, Written

\* TypeOK is inductive: the steps that write plan files.
LEMMA TypePlanStep ==
  ASSUME TypeOK, PlanStep
  PROVE  TypeOK'
<1>1. ASSUME NEW p \in PlanId, NEW mode \in Modes, CreatePlan(p, mode)
      PROVE  TypeOK'
  <2>1. [mode |-> mode, class |-> "safe", root |-> p, parent |-> None,
         depth |-> 0, ops |-> RootOps(mode), schema |-> schema] \in PlanRec
    BY RootOpsType, ProtocolAssumption DEF PlanRec, TypeOK
  <2> QED
    BY <1>1, <2>1 DEF CreatePlan, Write, TypeOK, cliVars, sessVars, rowVars, boundVars
<1>2. ASSUME NEW p \in PlanId, NEW root \in PlanId, NEW mode \in Modes, NEW m \in markers,
             NextPlan(p, root, m, mode)
      PROVE  TypeOK'
  <2>1. plans[root] \in PlanRec
    BY <1>2, PlanType DEF NextPlan
  <2>2. m \in Markers /\ m.depth + 1 \in 0..MaxDepth
    BY <1>2, ProtocolAssumption DEF TypeOK, NextPlan, DepthAllowed, Markers
  <2>3. Inverted(plans[root].ops) \in Seq(Op) /\ plans[root].ops \in Seq(Op)
    BY <2>1, InvertedType DEF PlanRec
  <2>4. [mode |-> mode, class |-> "safe", root |-> root, parent |-> m.action,
         depth |-> m.depth + 1, schema |-> plans[root].schema,
         ops |-> IF mode = "reapply" THEN Inverted(plans[root].ops)
                                     ELSE plans[root].ops] \in PlanRec
    BY <2>1, <2>2, <2>3 DEF PlanRec, Markers
  <2> QED
    BY <1>2, <2>4 DEF NextPlan, Write, TypeOK, cliVars, sessVars, rowVars, boundVars
<1>3. ASSUME NEW p \in PlanId, NEW parent \in PlanId, NEW skip, ResolvePlan(p, parent, skip)
      PROVE  TypeOK'
  <2> DEFINE ops == plans[parent].ops
             bad == {i \in DOMAIN ops : Conflicts(ops[i], db[ops[i].key])}
             new == [i \in DOMAIN ops |-> IF i \in bad THEN Overwritten(ops[i], db[ops[i].key])
                                                       ELSE ops[i]]
  <2>1. plans[parent] \in PlanRec
    BY <1>3, PlanType DEF ResolvePlan
  <2>2. ops \in Seq(Op) /\ \A i \in DOMAIN ops : ops[i] \in Op
    BY <2>1 DEF PlanRec
  <2>3. \A i \in DOMAIN ops : new[i] \in Op
    BY <2>2 DEF Overwritten, Op, TypeOK
  <2>4a. PICK n \in 0..Len(ops) : \E at \in [1..n -> DOMAIN ops] :
          Write(p, [plans[parent] EXCEPT !.class = "unsafe_resolved",
                                         !.ops = [i \in 1..n |-> new[at[i]]]])
    BY <1>3 DEF ResolvePlan
  <2>4. PICK at \in [1..n -> DOMAIN ops] :
          Write(p, [plans[parent] EXCEPT !.class = "unsafe_resolved",
                                         !.ops = [i \in 1..n |-> new[at[i]]]])
    BY <2>4a
  <2>5. [i \in 1..n |-> new[at[i]]] \in Seq(Op)
    <3>1. \A i \in 1..n : new[at[i]] \in Op
      BY <2>3
    <3> HIDE DEF new
    <3> QED
      BY <3>1, <2>2
  <2>6. [plans[parent] EXCEPT !.class = "unsafe_resolved",
                              !.ops = [i \in 1..n |-> new[at[i]]]] \in PlanRec
    <3> HIDE DEF new
    <3> QED
      BY <2>1, <2>5 DEF PlanRec
  <2> QED
    <3> HIDE DEF new
    <3> QED
      BY <1>3, <2>4, <2>6 DEF ResolvePlan, Write, TypeOK, cliVars, sessVars, rowVars, boundVars
<1> QED
  BY <1>1, <1>2, <1>3 DEF PlanStep

\* A run that has a plan has a written one, so its operations are operations.
LEMMA CurOpType ==
  ASSUME TypeOK, NEW r \in Run, plan[r] \in PlanId, Written(plan[r])
  PROVE  /\ plans[plan[r]] \in PlanRec
         /\ Ops(r) \in Seq(Op)
         /\ step[r] \in Nat \ {0}
         /\ step[r] <= Len(Ops(r)) => CurOp(r) \in Op
<1>1. plans[plan[r]] \in PlanRec
  BY PlanType
<1>2. Ops(r) \in Seq(Op)
  BY <1>1 DEF PlanRec, Ops
<1>3. step[r] \in Nat \ {0}
  BY DEF TypeOK
<1> QED
  BY <1>1, <1>2, <1>3 DEF CurOp

\* The marker a run would insert is a marker.
LEMMA MarkerType ==
  ASSUME TypeOK, NEW r \in Run, plan[r] \in PlanId, Written(plan[r])
  PROVE  MarkerOf(r) \in Markers
BY CurOpType DEF MarkerOf, Markers, PlanRec, TargetOf, Modes

\* TypeOK is inductive: the steps of the client that only move its control state.
LEMMA TypeClientStep ==
  ASSUME TypeOK, NEW r \in Run,
         \/ \E p \in PlanId : Start(r, p)
         \/ CheckSchema(r) \/ CheckRow(r) \/ CheckEnds(r) \/ VerifySchemas(r)
         \/ LockSchemas(r) \/ InsertMarker(r) \/ StatementFails(r)
         \/ SendCommit(r) \/ CommitNotSent(r) \/ CommitAnswered(r)
         \/ CommitRefused(r) \/ CommitUnanswered(r) \/ RollbackLost(r) \/ KillRun(r)
  PROVE  TypeOK'
<1> USE DEF TypeOK, Goto, Report, Fail, cliVars, sessVars, rowVars, boundVars, Labels, Reports
<1>1. CASE \E p \in PlanId : Start(r, p)
  BY <1>1 DEF Start
<1>2. CASE CheckSchema(r)
  <2>1. outcome' \in [Run -> Reports]
    <3>1. \E o \in {"ready", "schema_mismatch", "conflict"} : outcome' = [outcome EXCEPT ![r] = o]
      BY <1>2, Zenon DEF CheckSchema
    <3> QED
      BY <3>1
  <2>2. pc' \in [Run -> Labels]
    BY <1>2 DEF CheckSchema
  <2>3. UNCHANGED <<plans, plan, step, verdict, sessVars, rowVars, db, markers, schema, boundVars>>
    BY <1>2 DEF CheckSchema
  <2> QED
    BY <2>1, <2>2, <2>3
<1>3. CASE CheckRow(r)
  BY <1>3 DEF CheckRow
<1>4. CASE CheckEnds(r)
  BY <1>4 DEF CheckEnds
<1>5. CASE VerifySchemas(r)
  BY <1>5 DEF VerifySchemas
<1>6. CASE LockSchemas(r)
  BY <1>6 DEF LockSchemas, TablesLocked
<1>7. CASE InsertMarker(r)
  BY <1>7 DEF InsertMarker
<1>8. CASE StatementFails(r)
  BY <1>8 DEF StatementFails
<1>9. CASE SendCommit(r)
  BY <1>9 DEF SendCommit
<1>10. CASE CommitNotSent(r)
  BY <1>10 DEF CommitNotSent, CommitError
<1>11. CASE CommitAnswered(r)
  BY <1>11 DEF CommitAnswered
<1>12. CASE CommitRefused(r)
  BY <1>12 DEF CommitRefused, CommitError
<1>13. CASE CommitUnanswered(r)
  BY <1>13 DEF CommitUnanswered, CommitError
<1>14. CASE RollbackLost(r)
  BY <1>14 DEF RollbackLost
<1>15. CASE KillRun(r)
  BY <1>15 DEF KillRun
<1> QED
  BY <1>1, <1>2, <1>3, <1>4, <1>5, <1>6, <1>7, <1>8, <1>9, <1>10, <1>11, <1>12, <1>13, <1>14,
     <1>15

\* TypeOK is inductive: the two steps that touch a row under its lock.
LEMMA TypeRowStep ==
  ASSUME TypeOK, Phases, NEW r \in Run, LockRow(r) \/ WriteRow(r)
  PROVE  TypeOK'
<1>1. plan[r] \in PlanId /\ Written(plan[r])
  BY DEF Phases, LockRow, WriteRow
<1>2. step[r] <= Len(Ops(r))
  BY DEF Phases, LockRow, WriteRow
<1>3. CurOp(r) \in Op
  BY <1>1, <1>2, CurOpType
<1>4. CurOp(r).key \in Key /\ CurOp(r).write \in Row
  BY <1>3 DEF Op
<1>5. pc' \in [Run -> Labels] /\ outcome' \in [Run -> Reports]
  <2>1. \/ Goto(r, "write") /\ UNCHANGED outcome
        \/ Goto(r, "lock") /\ UNCHANGED outcome
        \/ Fail(r, "conflict")
    BY Zenon DEF LockRow, WriteRow
  <2> QED
    BY <2>1 DEF TypeOK, Goto, Report, Fail, Labels, Reports
<1>6. cur' \in [Key -> Row] /\ step' \in [Run -> Nat \ {0}]
  <2>1. \/ cur' = cur /\ step' = step
        \/ /\ cur' = [cur EXCEPT ![CurOp(r).key] = CurOp(r).write]
           /\ step' = [step EXCEPT ![r] = @ + 1]
    BY Zenon DEF LockRow, WriteRow
  <2> QED
    BY <2>1, <1>4 DEF TypeOK
<1>7. owner' \in [Key -> Run \cup {None}]
  <2>1. owner' = owner \/ owner' = [owner EXCEPT ![CurOp(r).key] = r]
    BY Zenon DEF LockRow, WriteRow
  <2> QED
    BY <2>1, <1>4 DEF TypeOK
<1>8. gap' \in [Key -> SUBSET Run]
  <2>1. CASE LockRow(r)
    <3>1. gap' = gap \/ gap' = [gap EXCEPT ![CurOp(r).key] = @ \cup {r}]
      BY <2>1, Zenon DEF LockRow
    <3> QED
      BY <3>1, <1>4 DEF TypeOK
  <2>2. CASE WriteRow(r)
    BY <2>2 DEF WriteRow, TypeOK
  <2> QED
    BY <2>1, <2>2
<1>9. UNCHANGED <<plans, plan, verdict, sessVars, db, markers, schema, boundVars>>
  BY DEF LockRow, WriteRow
<1> QED
  BY <1>5, <1>6, <1>7, <1>8, <1>9 DEF TypeOK, sessVars, boundVars

\* TypeOK is inductive: the server ends a transaction.
LEMMA TypeServerStep ==
  ASSUME TypeOK, Phases, NEW r \in Run,
         \/ ServerCommit(r) \/ Rollback(r) \/ ServerAbandon(r)
  PROVE  TypeOK'
<1> USE DEF TypeOK, Goto, cliVars, sessVars, rowVars, boundVars, Labels
<1>1. CASE ServerCommit(r)
  <2>1. MarkerOf(r) \in Markers
    BY <1>1, MarkerType DEF ServerCommit, Phases
  <2> QED
    BY <1>1, <2>1 DEF ServerCommit, Ended
<1>2. CASE Rollback(r)
  BY <1>2 DEF Rollback, Undo, Ended
<1>3. CASE ServerAbandon(r)
  BY <1>3 DEF ServerAbandon, Undo, Ended
<1> QED
  BY <1>1, <1>2, <1>3

\* TypeOK is inductive: the verifier and the world outside.
LEMMA TypeWorldStep ==
  ASSUME TypeOK,
         \/ \E r \in Run : VerifyStep(r)
         \/ ServerRestart
         \/ \E k \in Key, v \in Row : ForeignWrite(k, v)
         \/ AlterTable
  PROVE  TypeOK'
<1> USE ProtocolAssumption DEF TypeOK, cliVars, sessVars, rowVars, boundVars
<1>1. CASE \E r \in Run : VerifyStep(r)
  <2>1. PICK r \in Run : VerifyStep(r)
    BY <1>1
  <2>2. \E v \in {"COMMITTED", "NOT_COMMITTED", "INDETERMINATE"} :
          verdict' = [verdict EXCEPT ![r] = v]
    BY <2>1, Zenon DEF VerifyStep, VerifyFinds, VerifyExpires, VerifyFails, Settle
  <2>3. UNCHANGED <<plans, cliVars, sessVars, rowVars, db, markers, schema, boundVars>>
    BY <2>1 DEF VerifyStep, VerifyFinds, VerifyExpires, VerifyFails
  <2> QED
    BY <2>2, <2>3
<1>2. CASE ServerRestart
  BY <1>2 DEF ServerRestart, Undo, Ended
<1>3. CASE \E k \in Key, v \in Row : ForeignWrite(k, v)
  BY <1>3 DEF ForeignWrite
<1>4. CASE AlterTable
  BY <1>4 DEF AlterTable
<1> QED
  BY <1>1, <1>2, <1>3, <1>4

-----------------------------------------------------------------------------
(* What no step does: rewrite a plan file, give a run another plan, or take  *)
(* a marker back.                                                            *)

\* Which plans and markers a step can touch.
Kept == /\ \A p \in PlanId : Written(p) => plans'[p] = plans[p]
        /\ \A r \in Run : pc[r] # "idle" => plan'[r] = plan[r] /\ pc'[r] # "idle"

\* Plan files are written once, and a run keeps its plan.
LEMMA StepKeeps ==
  ASSUME Inv, Next
  PROVE  Kept
<1> USE DEF Kept, Goto, cliVars, sessVars, rowVars, boundVars
<1>1. CASE PlanStep
  <2>1. ASSUME NEW p \in PlanId, NEW rec, ~Written(p), Write(p, rec), UNCHANGED <<plan, pc>>
        PROVE  Kept
    BY <2>1 DEF Write, Written, Inv, TypeOK
  <2>2. ASSUME NEW p \in PlanId, NEW mode \in Modes, CreatePlan(p, mode)
        PROVE  Kept
    BY <2>1, <2>2, Zenon DEF CreatePlan
  <2>3. ASSUME NEW p \in PlanId, NEW root \in PlanId, NEW mode \in Modes, NEW m \in markers,
               NextPlan(p, root, m, mode)
        PROVE  Kept
    BY <2>1, <2>3, Zenon DEF NextPlan
  <2>4. ASSUME NEW p \in PlanId, NEW parent \in PlanId, NEW skip, ResolvePlan(p, parent, skip)
        PROVE  Kept
    BY <2>1, <2>4, Zenon DEF ResolvePlan
  <2> QED
    BY <1>1, <2>2, <2>3, <2>4 DEF PlanStep
<1>2. ASSUME NEW r \in Run, NEW p \in PlanId, Start(r, p)
      PROVE  Kept
  BY <1>2 DEF Start, Inv, TypeOK
<1>3. ASSUME NEW r \in Run, ClientStep(r) \/ KillRun(r)
      PROVE  Kept
  <2>1. plans' = plans /\ plan' = plan
    BY <1>3 DEF ClientStep, CheckSchema, CheckRow, CheckEnds, LockSchemas, VerifySchemas,
         InsertMarker, LockRow, WriteRow, StatementFails, SendCommit, CommitNotSent,
         CommitAnswered, CommitRefused, CommitUnanswered, Rollback, RollbackLost, KillRun
  <2>2. pc' = pc \/ \E l \in Labels \ {"idle"} : Goto(r, l)
    <3>1. \/ pc' = pc \/ Goto(r, "check_rows") \/ Goto(r, "begin") \/ Goto(r, "done")
          \/ Goto(r, "schema") \/ Goto(r, "marker") \/ Goto(r, "rollback") \/ Goto(r, "lock")
          \/ Goto(r, "write") \/ Goto(r, "sent")
      BY <1>3, Zenon DEF Fail, ClientStep, CheckSchema, CheckRow, CheckEnds, LockSchemas,
         VerifySchemas, InsertMarker, LockRow, WriteRow, StatementFails, SendCommit,
         CommitNotSent, CommitAnswered, CommitRefused, CommitUnanswered, Rollback,
         RollbackLost, KillRun
    <3> QED
      BY <3>1 DEF Labels
  <2> QED
    BY <2>1, <2>2 DEF Inv, TypeOK
<1>4. ASSUME NEW r \in Run, ServerStep(r) \/ VerifyStep(r)
      PROVE  Kept
  BY <1>4 DEF ServerStep, ServerCommit, ServerAbandon, Undo, VerifyStep, VerifyFinds,
       VerifyExpires, VerifyFails
<1>5. CASE ServerRestart \/ (\E k \in Key, v \in Row : ForeignWrite(k, v)) \/ AlterTable
  BY <1>5 DEF ServerRestart, ForeignWrite, AlterTable
<1> QED
  BY <1>1, <1>2, <1>3, <1>4, <1>5 DEF Next

\* A run that has left "idle" keeps its plan, its operations and its marker.
LEMMA KeptPlan ==
  ASSUME Inv, Kept, NEW r \in Run, pc[r] # "idle"
  PROVE  /\ plan[r] \in PlanId /\ Written(plan[r]) /\ Written(plan[r])'
         /\ plan'[r] = plan[r] /\ pc'[r] # "idle"
         /\ plans'[plan'[r]] = plans[plan[r]]
         /\ Ops(r)' = Ops(r) /\ MarkerOf(r)' = MarkerOf(r)
<1>1. plan[r] \in PlanId /\ Written(plan[r])
  BY DEF Inv, Phases
<1>2. plan'[r] = plan[r] /\ pc'[r] # "idle" /\ plans'[plan[r]] = plans[plan[r]]
  BY <1>1 DEF Kept
<1> QED
  BY <1>1, <1>2 DEF Written, Ops, MarkerOf

\* A run with an open transaction or a marker, committed or not, has left "idle".
LEMMA Engaged ==
  ASSUME Inv, NEW r \in Run, txn[r] # "none" \/ r \in pending \/ r \in Committed
  PROVE  pc[r] # "idle"
BY DEF Inv, Phases

\* Steps that neither insert nor commit a marker nor start a run cannot disturb the chains.
LEMMA FrameStep ==
  ASSUME Inv, Kept, markers' = markers, pending' \subseteq pending,
         \A r \in Run : pc'[r] \notin {"idle", "done"} => pc[r] \notin {"idle", "done"}
  PROVE  ParentStands' /\ PendingUnique' /\ MarkersHonest' /\ ExactlyOnce' /\ Gapless'
<1>1. ParentStands'
  <2> SUFFICES ASSUME NEW r \in Run, pc'[r] \notin {"idle", "done"} \/ r \in pending'
               PROVE  LET q == plans'[plan'[r]] IN
                      IF q.parent = None
                      THEN q.depth = 0
                      ELSE \E m \in markers' : /\ m.action = q.parent /\ m.root = q.root
                                               /\ m.depth + 1 = q.depth
                                               /\ m.target # TargetOf(q.mode)
    BY DEF ParentStands, TargetOf
  <2>1. pc[r] \notin {"idle", "done"} \/ r \in pending
    OBVIOUS
  <2>2. plans'[plan'[r]] = plans[plan[r]]
    BY <2>1, Engaged, KeptPlan
  <2> QED
    BY <2>1, <2>2 DEF Inv, ParentStands
<1>2. PendingUnique'
  <2>1. \A r \in pending : r \in Run /\ MarkerOf(r)' = MarkerOf(r)
    BY Engaged, KeptPlan DEF Inv, TypeOK
  <2> QED
    BY <2>1 DEF Inv, PendingUnique, Duplicate
<1>3. MarkersHonest'
  <2>1. \A m \in markers : MarkerOf(m.action)' = MarkerOf(m.action)
    <3> SUFFICES ASSUME NEW m \in markers
                 PROVE  MarkerOf(m.action)' = MarkerOf(m.action)
      OBVIOUS
    <3>1. m.action \in Run /\ m.action \in Committed
      BY DEF Inv, TypeOK, Markers, Committed
    <3> QED
      BY <3>1, Engaged, KeptPlan
  <2> QED
    BY <2>1 DEF Inv, MarkersHonest
<1>4. ExactlyOnce' /\ Gapless'
  BY DEF Inv, ExactlyOnce, Gapless
<1> QED
  BY <1>1, <1>2, <1>3, <1>4

\* Where runs and transactions are and what has been reported.
Local == Phases /\ ReportsHonest /\ SchemaLocked

\* Steps of a client that change neither the server's transaction nor its marker.
LEMMA LocalControlStep ==
  ASSUME Inv, Kept, NEW r \in Run,
         \/ CheckSchema(r) \/ CheckRow(r) \/ CheckEnds(r) \/ VerifySchemas(r)
         \/ LockRow(r) \/ WriteRow(r) \/ StatementFails(r) \/ CommitNotSent(r)
         \/ CommitAnswered(r) \/ CommitUnanswered(r) \/ RollbackLost(r) \/ KillRun(r)
  PROVE  Local'
<1> USE DEF Inv, TypeOK, Goto, Report, Fail, cliVars, sessVars, rowVars, boundVars, Live
<1>1. /\ \A s \in Run : pc[s] # "idle" => Written(plan[s])' /\ Ops(s)' = Ops(s)
      /\ \A s \in Run : pc[s] # "idle" => plan'[s] = plan[s] /\ pc'[s] # "idle"
                                          /\ plans'[plan'[s]] = plans[plan[s]]
      /\ \A s \in Run : txn[s] # "none" => pc[s] # "idle"
  BY KeptPlan, Engaged
<1>2. /\ plans' = plans /\ plan' = plan /\ verdict' = verdict /\ sessVars' = sessVars
      /\ markers' = markers /\ schema' = schema /\ Committed' = Committed
  BY DEF CheckSchema, CheckRow, CheckEnds, VerifySchemas, LockRow, WriteRow, StatementFails,
         CommitNotSent, CommitAnswered, CommitUnanswered, RollbackLost, KillRun, Committed
<1>3. CASE CheckSchema(r)
  BY <1>1, <1>2, <1>3 DEF CheckSchema, Local, Phases, ReportsHonest, SchemaLocked, Statements
<1>4. CASE CheckRow(r)
  BY <1>1, <1>2, <1>4 DEF CheckRow, Local, Phases, ReportsHonest, SchemaLocked, Statements
<1>5. CASE CheckEnds(r)
  <2>1. pc[r] = "check_rows" /\ step' = step /\ txn[r] = "none"
    BY <1>5 DEF CheckEnds, Phases
  <2>2. CASE outcome[r] = "ready"
    <3>1. pc' = [pc EXCEPT ![r] = "begin"] /\ outcome' = [outcome EXCEPT ![r] = "none"]
      BY <1>5, <2>2 DEF CheckEnds
    <3>2. Phases'
      BY <1>1, <1>2, <2>1, <3>1 DEF Phases
    <3>3. ReportsHonest'
      BY <1>1, <1>2, <2>1, <3>1 DEF ReportsHonest, Statements
    <3>4. SchemaLocked'
      BY <1>1, <1>2, <2>1, <3>1 DEF SchemaLocked
    <3> QED
      BY <3>2, <3>3, <3>4 DEF Local
  <2>3. CASE outcome[r] # "ready"
    <3>1. pc' = [pc EXCEPT ![r] = "done"] /\ outcome' = outcome
      BY <1>5, <2>3 DEF CheckEnds
    <3> QED
      BY <1>1, <1>2, <2>1, <3>1 DEF Local, Phases, ReportsHonest, SchemaLocked, Statements
  <2> QED
    BY <2>2, <2>3
<1>6. CASE VerifySchemas(r)
  <2>1. pc[r] = "schema" /\ step' = step /\ txn[r] = "active"
    BY <1>6 DEF VerifySchemas
  <2>2. CASE Ops(r) = <<>> \/ plans[plan[r]].schema = schema
    <3>1. pc' = [pc EXCEPT ![r] = "marker"] /\ outcome' = outcome
      BY <1>6, <2>2 DEF VerifySchemas
    <3> QED
      BY <1>1, <1>2, <2>1, <2>2, <3>1
      DEF Local, Phases, ReportsHonest, SchemaLocked, Statements
  <2>3. CASE ~(Ops(r) = <<>> \/ plans[plan[r]].schema = schema)
    <3>1. /\ pc' = [pc EXCEPT ![r] = "rollback"]
          /\ outcome' = [outcome EXCEPT ![r] = "schema_mismatch"]
      BY <1>6, <2>3 DEF VerifySchemas
    <3> QED
      BY <1>1, <1>2, <2>1, <3>1 DEF Local, Phases, ReportsHonest, SchemaLocked, Statements
  <2> QED
    BY <2>2, <2>3
<1>7. CASE LockRow(r)
  <2>1. pc[r] = "lock" /\ step' = step /\ txn[r] = "active" /\ step[r] <= Len(Ops(r))
    BY <1>7 DEF LockRow
  <2>2. \/ pc' = [pc EXCEPT ![r] = "write"] /\ outcome' = outcome
        \/ /\ pc' = [pc EXCEPT ![r] = "rollback"]
           /\ outcome' = [outcome EXCEPT ![r] = "conflict"]
    BY <1>7, Zenon DEF LockRow
  <2> QED
    BY <1>1, <1>2, <2>1, <2>2 DEF Local, Phases, ReportsHonest, SchemaLocked, Statements
<1>8. CASE WriteRow(r)
  BY <1>1, <1>2, <1>8, SMTT(30) DEF WriteRow, Local, Phases, ReportsHonest, SchemaLocked, Statements
<1>9. CASE StatementFails(r)
  BY <1>1, <1>2, <1>9 DEF StatementFails, Local, Phases, ReportsHonest, SchemaLocked, Statements,
                               AtCommit
<1>10. CASE CommitNotSent(r)
  BY <1>1, <1>2, <1>10 DEF CommitNotSent, Local, Phases, ReportsHonest, SchemaLocked, Statements,
                               CommitError, AtCommit
<1>11. CASE CommitAnswered(r)
  BY <1>1, <1>2, <1>11 DEF CommitAnswered, Local, Phases, ReportsHonest, SchemaLocked, Statements,
                               Committed
<1>12. CASE CommitUnanswered(r)
  BY <1>1, <1>2, <1>12 DEF CommitUnanswered, Local, Phases, ReportsHonest, SchemaLocked, Statements,
                               CommitError
<1>13. CASE RollbackLost(r)
  BY <1>1, <1>2, <1>13 DEF RollbackLost, Local, Phases, ReportsHonest, SchemaLocked, Statements
<1>14. CASE KillRun(r)
  BY <1>1, <1>2, <1>14 DEF KillRun, Local, Phases, ReportsHonest, SchemaLocked, Statements
<1> QED
  BY <1>3, <1>4, <1>5, <1>6, <1>7, <1>8, <1>9, <1>10, <1>11, <1>12, <1>13, <1>14

\* Steps that open, mark, send or refuse a transaction.
LEMMA LocalTransactionStep ==
  ASSUME Inv, Kept, NEW r \in Run,
         LockSchemas(r) \/ InsertMarker(r) \/ SendCommit(r) \/ CommitRefused(r)
  PROVE  Local'
<1> USE DEF Inv, TypeOK, Goto, Report, Fail, cliVars, sessVars, rowVars, boundVars, Live
<1>1. /\ \A s \in Run : pc[s] # "idle" => Written(plan[s])' /\ Ops(s)' = Ops(s)
      /\ \A s \in Run : pc[s] # "idle" => plan'[s] = plan[s] /\ pc'[s] # "idle"
                                          /\ plans'[plan'[s]] = plans[plan[s]]
      /\ \A s \in Run : txn[s] # "none" => pc[s] # "idle"
  BY KeptPlan, Engaged
<1>2. /\ plans' = plans /\ plan' = plan /\ verdict' = verdict
      /\ markers' = markers /\ schema' = schema /\ Committed' = Committed
  BY DEF LockSchemas, InsertMarker, SendCommit, CommitRefused, Committed
<1>3. CASE LockSchemas(r)
  <2>1. Phases'
    BY <1>1, <1>2, <1>3 DEF LockSchemas, TablesLocked, Phases
  <2>2. ReportsHonest'
    BY <1>1, <1>2, <1>3 DEF LockSchemas, TablesLocked, ReportsHonest, Phases, Statements
  <2>3. SchemaLocked'
    BY <1>1, <1>2, <1>3 DEF LockSchemas, TablesLocked, SchemaLocked, Phases
  <2> QED
    BY <2>1, <2>2, <2>3 DEF Local
<1>4. CASE InsertMarker(r)
  <2>1. Phases'
    BY <1>1, <1>2, <1>4 DEF InsertMarker, Phases
  <2>2. ReportsHonest'
    BY <1>1, <1>2, <1>4 DEF InsertMarker, ReportsHonest, Phases, Statements
  <2>3. SchemaLocked'
    BY <1>1, <1>2, <1>4 DEF InsertMarker, SchemaLocked, Phases
  <2> QED
    BY <2>1, <2>2, <2>3 DEF Local
<1>5. CASE SendCommit(r)
  <2>1. Phases'
    BY <1>1, <1>2, <1>5 DEF SendCommit, AtCommit, Phases
  <2>2. ReportsHonest'
    BY <1>1, <1>2, <1>5 DEF SendCommit, AtCommit, ReportsHonest, Phases, Statements
  <2>3. SchemaLocked'
    BY <1>1, <1>2, <1>5 DEF SendCommit, AtCommit, SchemaLocked, Phases
  <2> QED
    BY <2>1, <2>2, <2>3 DEF Local
<1>6. CASE CommitRefused(r)
  <2>1. Phases'
    BY <1>1, <1>2, <1>6 DEF CommitRefused, CommitError, Phases
  <2>2. ReportsHonest'
    BY <1>1, <1>2, <1>6 DEF CommitRefused, CommitError, ReportsHonest, Phases, Statements
  <2>3. SchemaLocked'
    BY <1>1, <1>2, <1>6 DEF CommitRefused, CommitError, SchemaLocked, Phases
  <2> QED
    BY <2>1, <2>2, <2>3 DEF Local
<1> QED
  BY <1>3, <1>4, <1>5, <1>6

\* Steps that roll transactions back, whoever asks for it.
LEMMA LocalUndoStep ==
  ASSUME Inv, Kept, NEW S \in SUBSET Run, Undo(S), markers' = markers, schema' = schema,
         outcome' = outcome, verdict' = verdict, step' = step, plan' = plan,
         \/ pc' = pc
         \/ \E r \in S : pc[r] = "rollback" /\ txn[r] = "active" /\ Goto(r, "done")
  PROVE  Local'
<1> USE DEF Inv, TypeOK, Goto, Report, Fail, cliVars, sessVars, rowVars, boundVars, Live
<1>1. /\ \A s \in Run : pc[s] # "idle" => Written(plan[s])' /\ Ops(s)' = Ops(s)
      /\ \A s \in Run : pc[s] # "idle" => plan'[s] = plan[s] /\ pc'[s] # "idle"
                                          /\ plans'[plan'[s]] = plans[plan[s]]
      /\ \A s \in Run : txn[s] # "none" => pc[s] # "idle"
  BY KeptPlan, Engaged
<1>2. /\ txn' = [r \in Run |-> IF r \in S THEN "none" ELSE txn[r]]
      /\ pending' = pending \ S /\ mdl' = mdl \ S /\ Committed' = Committed
  BY DEF Undo, Ended, Committed
<1>3. \A r \in Run : \/ pc'[r] = pc[r]
                     \/ pc[r] = "rollback" /\ pc'[r] = "done" /\ r \in S
  <2>1. CASE pc' = pc
    BY <2>1
  <2>2. CASE pc' # pc
    <3>1. PICK r \in S : pc[r] = "rollback" /\ pc' = [pc EXCEPT ![r] = "done"]
      BY <2>2
    <3> QED
      BY <3>1
  <2> QED
    BY <2>1, <2>2
<1>4. Phases'
  BY <1>1, <1>2, <1>3 DEF Phases
<1>5. ReportsHonest'
  BY <1>1, <1>2, <1>3 DEF ReportsHonest, Phases, Statements
<1>6. SchemaLocked'
  BY <1>1, <1>2, <1>3 DEF SchemaLocked, Phases
<1> QED
  BY <1>4, <1>5, <1>6 DEF Local

\* Steps that leave runs and their transactions alone.
LEMMA LocalWorldStep ==
  ASSUME Inv, Next,
         PlanStep \/ (\E k \in Key, v \in Row : ForeignWrite(k, v)) \/ AlterTable
  PROVE  Local'
<1> USE DEF Inv, TypeOK, Goto, Report, Fail, cliVars, sessVars, rowVars, boundVars, Live
<1> Kept
  BY StepKeeps
<1>1. /\ \A s \in Run : pc[s] # "idle" => Written(plan[s])' /\ Ops(s)' = Ops(s)
      /\ \A s \in Run : pc[s] # "idle" => plan'[s] = plan[s] /\ pc'[s] # "idle"
                                          /\ plans'[plan'[s]] = plans[plan[s]]
      /\ \A s \in Run : txn[s] # "none" => pc[s] # "idle"
  BY KeptPlan, Engaged
<1>2. cliVars' = cliVars /\ sessVars' = sessVars /\ verdict' = verdict /\ markers' = markers
      /\ Committed' = Committed
  BY ZenonT(40) DEF PlanStep, CreatePlan, NextPlan, ResolvePlan, ForeignWrite, AlterTable, Committed
<1>3. schema' = schema \/ mdl = {}
  BY ZenonT(40) DEF PlanStep, CreatePlan, NextPlan, ResolvePlan, ForeignWrite, AlterTable
<1>4. Phases'
  BY <1>1, <1>2, <1>3 DEF Phases
<1>5. ReportsHonest'
  BY <1>1, <1>2, <1>3 DEF ReportsHonest, Phases, Statements
<1>6. SchemaLocked'
  BY <1>1, <1>2, <1>3 DEF SchemaLocked, Phases
<1> QED
  BY <1>4, <1>5, <1>6 DEF Local

\* Steps of `action verify`.
LEMMA LocalVerifyStep ==
  ASSUME Inv, Kept, NEW r \in Run, VerifyStep(r)
  PROVE  Local'
<1> USE DEF Inv, TypeOK, Goto, Report, Fail, cliVars, sessVars, rowVars, boundVars, Live
<1>1. /\ \A s \in Run : pc[s] # "idle" => Written(plan[s])' /\ Ops(s)' = Ops(s)
      /\ \A s \in Run : pc[s] # "idle" => plan'[s] = plan[s] /\ pc'[s] # "idle"
                                          /\ plans'[plan'[s]] = plans[plan[s]]
      /\ \A s \in Run : txn[s] # "none" => pc[s] # "idle"
  BY KeptPlan, Engaged
<1>2. /\ UNCHANGED <<plans, cliVars, sessVars, markers, schema>> /\ Committed' = Committed
  BY DEF VerifyStep, VerifyFinds, VerifyExpires, VerifyFails, Committed
<1>3. verdict'[r] = "COMMITTED" => r \in Committed
  BY DEF VerifyStep, VerifyFinds, VerifyExpires, VerifyFails, Settle, Committed
<1>4. \A s \in Run : s # r => verdict'[s] = verdict[s]
  BY DEF VerifyStep, VerifyFinds, VerifyExpires, VerifyFails, Settle
<1>5. Phases'
  BY <1>1, <1>2, <1>3, <1>4 DEF Phases
<1>6. ReportsHonest'
  BY <1>1, <1>2, <1>3, <1>4 DEF ReportsHonest, Phases, Statements
<1>7. SchemaLocked'
  BY <1>1, <1>2, <1>3, <1>4 DEF SchemaLocked, Phases
<1> QED
  BY <1>5, <1>6, <1>7 DEF Local

-----------------------------------------------------------------------------
(* The three steps that matter to the chains.                                *)

\* Starting a run: the parent validateActionChain found is there.
LEMMA InvStart ==
  ASSUME Inv, Kept, NEW r \in Run, NEW p \in PlanId, Start(r, p)
  PROVE  ParentStands' /\ PendingUnique' /\ MarkersHonest' /\ ExactlyOnce' /\ Gapless' /\ Local'
<1> USE DEF Inv, TypeOK, Goto, Report, cliVars, sessVars, rowVars, boundVars
<1>1. /\ \A s \in Run : pc[s] # "idle" => Written(plan[s])' /\ Ops(s)' = Ops(s)
      /\ \A s \in Run : pc[s] # "idle" => plan'[s] = plan[s] /\ pc'[s] # "idle"
                                          /\ plans'[plan'[s]] = plans[plan[s]]
      /\ \A s \in Run : pc[s] # "idle" => MarkerOf(s)' = MarkerOf(s)
      /\ \A s \in Run : txn[s] # "none" \/ s \in pending \/ s \in Committed => pc[s] # "idle"
  BY KeptPlan, Engaged
<1>2. /\ pc[r] = "idle" /\ Written(p) /\ plan' = [plan EXCEPT ![r] = p]
      /\ step' = [step EXCEPT ![r] = 1]
      /\ UNCHANGED <<plans, verdict, sessVars, markers, schema>> /\ Committed' = Committed
  BY <1>1 DEF Start, Committed
<1>3. r \notin pending /\ r \notin Committed /\ txn[r] = "none"
  BY <1>1, <1>2
<1>4. \/ pc' = [pc EXCEPT ![r] = "check"] /\ ChainValid(p) /\ outcome' = outcome
      \/ /\ pc' = [pc EXCEPT ![r] = "done"]
         /\ outcome' = [outcome EXCEPT ![r] = "refused"]
  BY DEF Start
<1>5. ParentStands'
  <2> SUFFICES ASSUME NEW s \in Run, pc'[s] \notin {"idle", "done"} \/ s \in pending'
               PROVE  LET q == plans'[plan'[s]] IN
                      IF q.parent = None
                      THEN q.depth = 0
                      ELSE \E m \in markers' : /\ m.action = q.parent /\ m.root = q.root
                                               /\ m.depth + 1 = q.depth
                                               /\ m.target # TargetOf(q.mode)
    BY DEF ParentStands, TargetOf
  <2>1. CASE s = r
    <3>1. ChainValid(p) /\ plans'[plan'[s]] = plans[p] /\ markers' = markers
      BY <2>1, <1>2, <1>3, <1>4
    <3> QED
      BY <3>1 DEF ChainValid
  <2>2. CASE s # r
    <3>1. pc[s] \notin {"idle", "done"} \/ s \in pending
      BY <2>2, <1>2, <1>4
    <3>2. plans'[plan'[s]] = plans[plan[s]] /\ markers' = markers
      BY <3>1, <1>1, <1>2
    <3> QED
      BY <3>1, <3>2 DEF ParentStands
  <2> QED
    BY <2>1, <2>2
<1>6. PendingUnique'
  BY <1>1, <1>2, <1>3 DEF PendingUnique, Duplicate
<1>7. MarkersHonest'
  BY <1>1, <1>2, <1>3 DEF MarkersHonest, Markers, Committed
<1>8. ExactlyOnce' /\ Gapless'
  BY <1>2 DEF ExactlyOnce, Gapless
<1>9. Phases'
  BY <1>1, <1>2, <1>3, <1>4 DEF Phases, Written
<1>10. ReportsHonest'
  BY <1>1, <1>2, <1>3, <1>4 DEF ReportsHonest, Statements
<1>11. SchemaLocked'
  BY <1>1, <1>2, <1>3, <1>4 DEF SchemaLocked
<1> QED
  BY <1>5, <1>6, <1>7, <1>8, <1>9, <1>10, <1>11 DEF Local

\* Inserting a marker: the unique keys keep the uncommitted markers apart.
LEMMA InvInsertMarker ==
  ASSUME Inv, Kept, NEW r \in Run, InsertMarker(r)
  PROVE  ParentStands' /\ PendingUnique' /\ MarkersHonest' /\ ExactlyOnce' /\ Gapless'
<1> USE DEF Inv, TypeOK, Goto, Report, Fail, cliVars, sessVars, rowVars, boundVars
<1>1. /\ \A s \in Run : pc[s] # "idle" => Written(plan[s])' /\ Ops(s)' = Ops(s)
      /\ \A s \in Run : pc[s] # "idle" => plan'[s] = plan[s] /\ pc'[s] # "idle"
                                          /\ plans'[plan'[s]] = plans[plan[s]]
      /\ \A s \in Run : pc[s] # "idle" => MarkerOf(s)' = MarkerOf(s)
      /\ \A s \in Run : txn[s] # "none" \/ s \in pending \/ s \in Committed => pc[s] # "idle"
  BY KeptPlan, Engaged
<1>2. /\ pc[r] = "marker" /\ markers' = markers /\ Committed' = Committed
      /\ \A s \in Run : pc'[s] \notin {"idle", "done"} => pc[s] \notin {"idle", "done"}
  BY DEF InsertMarker, Committed
<1>3. CASE \E m \in markers : Duplicate(MarkerOf(r), m)
  <2>1. pending' = pending
    BY <1>3 DEF InsertMarker
  <2> QED
    BY <1>2, <2>1, FrameStep
<1>4. CASE ~ \E m \in markers : Duplicate(MarkerOf(r), m)
  <2>1. pending' = pending \cup {r}
    BY <1>4 DEF InsertMarker
  <2>2. \A s \in pending : ~Duplicate(MarkerOf(r), MarkerOf(s))
    BY DEF InsertMarker
  <2>3. PendingUnique'
    BY <1>1, <1>2, <1>4, <2>1, <2>2 DEF PendingUnique, Duplicate
  <2>4. ParentStands'
    <3>1. \A s \in Run : pc'[s] \notin {"idle", "done"} \/ s \in pending'
                         => pc[s] \notin {"idle", "done"} \/ s \in pending
      BY <1>2, <2>1
    <3> QED
      BY <1>1, <1>2, <3>1 DEF ParentStands, TargetOf
  <2>5. MarkersHonest'
    BY <1>1, <1>2 DEF MarkersHonest, Markers, Committed
  <2>6. ExactlyOnce' /\ Gapless'
    BY <1>2 DEF ExactlyOnce, Gapless
  <2> QED
    BY <2>3, <2>4, <2>5, <2>6
<1> QED
  BY <1>3, <1>4

\* What the server's COMMIT of run r does to the marker table.
LEMMA CommitAdds ==
  ASSUME Inv, NEW r \in Run, ServerCommit(r)
  PROVE  /\ markers' = markers \cup {MarkerOf(r)}
         /\ r \in pending /\ r \notin Committed /\ pc[r] # "idle"
         /\ \A m \in markers : ~Duplicate(MarkerOf(r), m)
         /\ MarkerOf(r) \in Markers /\ MarkerOf(r) \notin markers
         /\ MarkerOf(r).action = r
         /\ IF MarkerOf(r).parent = None
            THEN MarkerOf(r).depth = 0
            ELSE \E m \in markers : /\ m.action = MarkerOf(r).parent
                                    /\ m.root = MarkerOf(r).root
                                    /\ m.depth + 1 = MarkerOf(r).depth
                                    /\ m.target # MarkerOf(r).target
<1>1. r \in pending /\ r \notin Committed /\ pc[r] # "idle"
  BY DEF Inv, Phases, ServerCommit
<1>2. plan[r] \in PlanId /\ Written(plan[r])
  BY <1>1 DEF Inv, Phases
<1>3. MarkerOf(r) \in Markers /\ MarkerOf(r).action = r
  BY <1>2, MarkerType DEF Inv, MarkerOf
<1>4. MarkerOf(r) \notin markers
  BY <1>1, <1>3 DEF Committed
<1>5. \A m \in markers : ~Duplicate(MarkerOf(r), m)
  BY <1>1 DEF Inv, PendingUnique
<1>6. markers' = markers \cup {MarkerOf(r)}
  BY <1>1 DEF ServerCommit
<1>7. IF MarkerOf(r).parent = None
      THEN MarkerOf(r).depth = 0
      ELSE \E m \in markers : /\ m.action = MarkerOf(r).parent
                              /\ m.root = MarkerOf(r).root
                              /\ m.depth + 1 = MarkerOf(r).depth
                              /\ m.target # MarkerOf(r).target
  BY <1>1 DEF Inv, ParentStands, MarkerOf
<1> QED
  BY <1>1, <1>3, <1>4, <1>5, <1>6, <1>7

\* Committing keeps chains linear and complete.
LEMMA InvServerCommit ==
  ASSUME Inv, Kept, NEW r \in Run, ServerCommit(r)
  PROVE  ParentStands' /\ PendingUnique' /\ MarkersHonest' /\ ExactlyOnce' /\ Gapless' /\ Local'
<1> USE DEF Inv, TypeOK, cliVars, sessVars, rowVars, boundVars
<1>1. /\ \A s \in Run : pc[s] # "idle" => Written(plan[s])' /\ Ops(s)' = Ops(s)
      /\ \A s \in Run : pc[s] # "idle" => plan'[s] = plan[s] /\ pc'[s] # "idle"
                                          /\ plans'[plan'[s]] = plans[plan[s]]
      /\ \A s \in Run : pc[s] # "idle" => MarkerOf(s)' = MarkerOf(s)
      /\ \A s \in Run : txn[s] # "none" \/ s \in pending \/ s \in Committed => pc[s] # "idle"
  BY KeptPlan, Engaged
<1> DEFINE new == MarkerOf(r)
<1>2. /\ markers' = markers \cup {new} /\ new \notin markers /\ new \in Markers
      /\ r \in pending /\ r \notin Committed /\ pc[r] # "idle" /\ new.action = r
      /\ \A m \in markers : ~Duplicate(new, m)
  BY CommitAdds
<1>3. /\ txn[r] = "inflight" /\ txn' = [s \in Run |-> IF s \in {r} THEN "none" ELSE txn[s]]
      /\ pending' = pending \ {r} /\ mdl' = mdl \ {r}
      /\ UNCHANGED <<plans, cliVars, verdict, schema>>
  BY DEF ServerCommit, Ended
<1>4. Committed' = Committed \cup {r}
  BY <1>2 DEF Committed
<1>5. ParentStands'
  BY <1>1, <1>2, <1>3 DEF ParentStands, TargetOf
<1>6. PendingUnique'
  <2> SUFFICES ASSUME NEW s \in pending'
               PROVE  /\ \A m \in markers' : ~Duplicate(MarkerOf(s)', m)
                      /\ \A u \in pending' : u # s => ~Duplicate(MarkerOf(s)', MarkerOf(u)')
    BY DEF PendingUnique, Duplicate
  <2>1. s \in pending /\ s # r /\ \A u \in pending : MarkerOf(u)' = MarkerOf(u)
    BY <1>1, <1>3
  <2>2. /\ \A m \in markers : ~Duplicate(MarkerOf(s), m)
        /\ ~Duplicate(MarkerOf(s), new)
        /\ \A u \in pending : u # s => ~Duplicate(MarkerOf(s), MarkerOf(u))
    BY <1>2, <2>1 DEF PendingUnique
  <2> HIDE DEF new
  <2> QED
    BY <1>2, <1>3, <2>1, <2>2
<1>7. MarkersHonest'
  BY <1>1, <1>2 DEF MarkersHonest, Markers, Committed
<1>8. ExactlyOnce'
  <2> HIDE DEF new
  <2> QED
    BY <1>2 DEF ExactlyOnce, Duplicate
<1>9. Gapless'
  <2> SUFFICES ASSUME NEW d \in 0..new.depth
               PROVE  \E n \in markers' : n.root = new.root /\ n.depth = d
    BY <1>2 DEF Gapless
  <2>1. CASE d = new.depth
    BY <1>2, <2>1
  <2>2. CASE d # new.depth
    <3>1. new.depth \in Nat /\ d < new.depth
      BY <1>2, <2>2, ProtocolAssumption DEF Markers
    <3>2. PICK m \in markers : m.root = new.root /\ m.depth + 1 = new.depth
      BY <3>1, CommitAdds
    <3>3. m.depth \in Nat /\ d \in 0..m.depth
      BY <3>1, <3>2, ProtocolAssumption DEF Markers
    <3>4. \E n \in markers : n.root = m.root /\ n.depth = d
      BY <3>3 DEF Gapless
    <3> QED
      BY <1>2, <3>2, <3>4
  <2> QED
    BY <2>1, <2>2
<1>10. Phases'
  BY <1>1, <1>3, <1>4 DEF Phases
<1>11. ReportsHonest'
  BY <1>1, <1>3, <1>4 DEF ReportsHonest, Phases, Statements
<1>12. SchemaLocked'
  BY <1>1, <1>3, <1>4 DEF SchemaLocked, Phases
<1> QED
  BY <1>5, <1>6, <1>7, <1>8, <1>9, <1>10, <1>11, <1>12 DEF Local

-----------------------------------------------------------------------------
(* The inductive invariant.                                                  *)

\* The initial states satisfy the inductive invariant.
LEMMA InvInit ==
  ASSUME Init
  PROVE  Inv
<1>1. TypeOK
  BY ProtocolAssumption DEF Init, TypeOK, Labels, Reports
<1>2. ParentStands /\ PendingUnique /\ MarkersHonest /\ ExactlyOnce /\ Gapless
  BY DEF Init, ParentStands, PendingUnique, MarkersHonest, ExactlyOnce, Gapless
<1>3. Phases /\ ReportsHonest /\ SchemaLocked
  BY DEF Init, Phases, ReportsHonest, SchemaLocked, Statements, Committed
<1> QED
  BY <1>1, <1>2, <1>3 DEF Inv

\* A control step of one run moves no other run.
LEMMA ControlMovesOne ==
  ASSUME Inv, NEW r \in Run, NEW s \in Run, s # r,
         \/ CheckSchema(r) \/ CheckRow(r) \/ CheckEnds(r) \/ VerifySchemas(r)
         \/ LockRow(r) \/ WriteRow(r) \/ StatementFails(r) \/ CommitNotSent(r)
         \/ CommitAnswered(r) \/ CommitUnanswered(r) \/ RollbackLost(r) \/ KillRun(r)
  PROVE  pc'[s] = pc[s]
<1>1. \/ pc' = pc \/ Goto(r, "check_rows") \/ Goto(r, "begin") \/ Goto(r, "done")
      \/ Goto(r, "marker") \/ Goto(r, "rollback") \/ Goto(r, "lock") \/ Goto(r, "write")
  BY Zenon DEF Fail, CheckSchema, CheckRow, CheckEnds, VerifySchemas, LockRow, WriteRow,
     StatementFails, CommitNotSent, CommitAnswered, CommitUnanswered, RollbackLost, KillRun
<1> QED
  BY <1>1 DEF Goto, Inv, TypeOK

\* Every step keeps the inductive invariant.
LEMMA InvNext ==
  ASSUME Inv, [Next]_vars
  PROVE  Inv'
<1> DEFINE Chains == ParentStands /\ PendingUnique /\ MarkersHonest /\ ExactlyOnce /\ Gapless
<1> SUFFICES TypeOK' /\ Chains' /\ Local'
  BY DEF Inv, Local
<1>1. CASE UNCHANGED vars
  <2>1. TypeOK'
    BY <1>1 DEF Inv, TypeOK, vars, cliVars, sessVars, rowVars, boundVars
  <2>2. Kept
    BY <1>1 DEF Kept, vars, cliVars
  <2>3. Chains'
    BY <1>1, <2>2, FrameStep DEF vars, cliVars, sessVars
  <2>4. Local'
    BY <1>1 DEF Inv, Local, Phases, ReportsHonest, SchemaLocked, Committed, Ops, Written,
                vars, cliVars, sessVars
  <2> QED
    BY <2>1, <2>3, <2>4
<1>2. CASE Next
  <2>0. Kept
    BY <1>2, StepKeeps
  <2>1. CASE PlanStep
    <3>1. markers' = markers /\ pending' = pending /\ pc' = pc
      BY <2>1, ZenonT(40) DEF PlanStep, CreatePlan, NextPlan, ResolvePlan, cliVars, sessVars
    <3> QED
      BY <1>2, <2>0, <2>1, <3>1, TypePlanStep, FrameStep, LocalWorldStep DEF Inv
  <2>2. ASSUME NEW r \in Run, NEW p \in PlanId, Start(r, p)
        PROVE  TypeOK' /\ Chains' /\ Local'
    BY <2>0, <2>2, TypeClientStep, InvStart DEF Inv
  <2>3. ASSUME NEW r \in Run,
               \/ CheckSchema(r) \/ CheckRow(r) \/ CheckEnds(r) \/ VerifySchemas(r)
               \/ LockRow(r) \/ WriteRow(r) \/ StatementFails(r) \/ CommitNotSent(r)
               \/ CommitAnswered(r) \/ CommitUnanswered(r) \/ RollbackLost(r) \/ KillRun(r)
        PROVE  TypeOK' /\ Chains' /\ Local'
    <3>1. markers' = markers /\ pending' = pending
      BY <2>3 DEF CheckSchema, CheckRow, CheckEnds, VerifySchemas, LockRow, WriteRow,
           StatementFails, CommitNotSent, CommitAnswered, CommitUnanswered, RollbackLost,
           KillRun, sessVars
    <3>2. pc[r] \notin {"idle", "done"}
      BY <2>3 DEF CheckSchema, CheckRow, CheckEnds, VerifySchemas, LockRow, WriteRow,
           StatementFails, CommitNotSent, CommitAnswered, CommitUnanswered, RollbackLost,
           KillRun, Statements, AtCommit
    <3>3. \A s \in Run : s # r => pc'[s] = pc[s]
      BY <2>3, ControlMovesOne
    <3>4. TypeOK'
      BY <2>3, TypeClientStep, TypeRowStep DEF Inv
    <3> QED
      BY <2>0, <2>3, <3>1, <3>2, <3>3, <3>4, FrameStep, LocalControlStep
  <2>4. ASSUME NEW r \in Run, LockSchemas(r) \/ SendCommit(r) \/ CommitRefused(r)
        PROVE  TypeOK' /\ Chains' /\ Local'
    <3>1. /\ markers' = markers /\ pending' = pending
          /\ \A s \in Run : pc'[s] \notin {"idle", "done"} => pc[s] \notin {"idle", "done"}
      BY <2>4 DEF LockSchemas, SendCommit, CommitRefused, Goto, Fail, Inv, TypeOK, AtCommit
    <3> QED
      BY <2>0, <2>4, <3>1, TypeClientStep, FrameStep, LocalTransactionStep DEF Inv
  <2>5. ASSUME NEW r \in Run, InsertMarker(r)
        PROVE  TypeOK' /\ Chains' /\ Local'
    BY <2>0, <2>5, TypeClientStep, InvInsertMarker, LocalTransactionStep DEF Inv
  <2>6. ASSUME NEW r \in Run, ServerCommit(r)
        PROVE  TypeOK' /\ Chains' /\ Local'
    BY <2>0, <2>6, TypeServerStep, InvServerCommit DEF Inv
  <2>7. ASSUME NEW S \in SUBSET Run, Undo(S), TypeOK', markers' = markers, schema' = schema,
               outcome' = outcome, verdict' = verdict, step' = step, plan' = plan,
               \/ pc' = pc
               \/ \E r \in S : pc[r] = "rollback" /\ txn[r] = "active" /\ Goto(r, "done")
        PROVE  Chains' /\ Local'
    <3>1. /\ pending' \subseteq pending
          /\ \A s \in Run : pc'[s] \notin {"idle", "done"} => pc[s] \notin {"idle", "done"}
      <4>1. CASE pc' = pc
        BY <2>7, <4>1 DEF Undo, Ended
      <4>2. CASE pc' # pc
        <5>1. PICK r \in S : pc[r] = "rollback" /\ pc' = [pc EXCEPT ![r] = "done"]
          BY <2>7, <4>2 DEF Goto
        <5> QED
          BY <2>7, <5>1 DEF Undo, Ended, Inv, TypeOK
      <4> QED
        BY <4>1, <4>2
    <3>2. Chains'
      BY <2>0, <2>7, <3>1, FrameStep
    <3>3. Local'
      BY <2>0, <2>7, LocalUndoStep
    <3> QED
      BY <3>2, <3>3
  <2>8. ASSUME NEW r \in Run, Rollback(r) \/ ServerAbandon(r)
        PROVE  TypeOK' /\ Chains' /\ Local'
    <3>1. TypeOK'
      BY <2>8, TypeServerStep DEF Inv
    <3>2. Chains' /\ Local'
      BY <2>7, <2>8, <3>1 DEF Rollback, ServerAbandon, cliVars
    <3> QED
      BY <3>1, <3>2
  <2>9. CASE ServerRestart
    <3>1. TypeOK'
      BY <2>9, TypeWorldStep DEF Inv
    <3>2. Chains' /\ Local'
      BY <2>7, <2>9, <3>1 DEF ServerRestart, cliVars
    <3> QED
      BY <3>1, <3>2
  <2>10. ASSUME NEW r \in Run, VerifyStep(r)
         PROVE  TypeOK' /\ Chains' /\ Local'
    <3>1. markers' = markers /\ pending' = pending /\ pc' = pc
      BY <2>10 DEF VerifyStep, VerifyFinds, VerifyExpires, VerifyFails, cliVars, sessVars
    <3> QED
      BY <2>0, <2>10, <3>1, TypeWorldStep, FrameStep, LocalVerifyStep DEF Inv
  <2>11. CASE (\E k \in Key, v \in Row : ForeignWrite(k, v)) \/ AlterTable
    <3>1. markers' = markers /\ pending' = pending /\ pc' = pc
      BY <2>11 DEF ForeignWrite, AlterTable, cliVars, sessVars
    <3> QED
      BY <1>2, <2>0, <2>11, <3>1, TypeWorldStep, FrameStep, LocalWorldStep DEF Inv
  <2> HIDE DEF Chains
  <2> QED
    BY <1>2, <2>1, <2>2, <2>3, <2>4, <2>5, <2>6, <2>8, <2>9, <2>10, <2>11
    DEF Next, ClientStep, ServerStep
<1> QED
  BY <1>1, <1>2

\* The invariant holds in every state of every behaviour.
THEOREM Invariance == Spec => []Inv
<1>1. Init => Inv
  BY InvInit
<1>2. Inv /\ [Next]_vars => Inv'
  BY InvNext
<1> QED
  BY <1>1, <1>2, PTL DEF Spec

-----------------------------------------------------------------------------
(* The properties.                                                           *)

\* The state of `plan apply`, its plan files and InnoDB is always well typed.
THEOREM TypeCorrect == Spec => []TypeOK
<1>1. Inv => TypeOK
  BY DEF Inv
<1> QED
  BY <1>1, Invariance, PTL

\* However often `plan apply` is started, killed and retried, a plan is committed at most once
\* and a place in a chain is taken at most once.
THEOREM CompensatedAtMostOnce == Spec => []ExactlyOnce
<1>1. Inv => ExactlyOnce
  BY DEF Inv
<1> QED
  BY <1>1, Invariance, PTL

\* A run that reports a failure other than COMMIT_UNKNOWN has not been committed and will not be.
THEOREM FailuresAreFinal == Spec => []FailureIsFinal
<1>1. Inv => FailureIsFinal
  BY DEF Inv, ReportsHonest, FailureIsFinal
<1> QED
  BY <1>1, Invariance, PTL

\* "applied" and the verdict COMMITTED are given only for a committed marker of this run's plan.
THEOREM SuccessesAreCommitted == Spec => []SuccessIsCommitted
<1>1. Inv => SuccessIsCommitted
  <2> SUFFICES ASSUME Inv, NEW r \in Run, r \in Committed
               PROVE  \E m \in markers : m.action = r /\ m.plan = plan[r]
    BY DEF Inv, ReportsHonest, SuccessIsCommitted
  <2>1. PICK m \in markers : m.action = r
    BY DEF Committed
  <2>2. m = MarkerOf(r)
    BY <2>1 DEF Inv, MarkersHonest
  <2> QED
    BY <2>1, <2>2 DEF MarkerOf
<1> QED
  BY <1>1, Invariance, PTL

\* No ALTER TABLE slips between the schema comparison of a run and the end of its transaction.
THEOREM SchemaIsHeld == Spec => []SchemaHeld
<1>1. Inv => SchemaHeld
  BY DEF Inv, SchemaLocked, SchemaHeld
<1> QED
  BY <1>1, Invariance, PTL

\* The only step that writes the marker table is the server's COMMIT.
LEMMA OnlyCommitMarks ==
  ASSUME Inv, [Next]_vars, markers' # markers
  PROVE  \E r \in Run : ServerCommit(r)
<1>1. CASE UNCHANGED vars
  BY <1>1 DEF vars
<1>2. CASE PlanStep \/ ServerRestart \/ AlterTable \/ \E k \in Key, v \in Row : ForeignWrite(k, v)
  BY <1>2 DEF PlanStep, CreatePlan, NextPlan, ResolvePlan, ServerRestart, AlterTable, ForeignWrite
<1>3. ASSUME NEW r \in Run, NEW p \in PlanId, Start(r, p)
      PROVE  FALSE
  BY <1>3 DEF Start
<1>4. ASSUME NEW r \in Run, ClientStep(r) \/ KillRun(r)
      PROVE  FALSE
  BY <1>4 DEF ClientStep, CheckSchema, CheckRow, CheckEnds, LockSchemas, VerifySchemas,
       InsertMarker, LockRow, WriteRow, StatementFails, SendCommit, CommitNotSent,
       CommitAnswered, CommitRefused, CommitUnanswered, Rollback, RollbackLost, KillRun
<1>5. ASSUME NEW r \in Run, ServerAbandon(r) \/ VerifyStep(r)
      PROVE  FALSE
  BY <1>5 DEF ServerAbandon, VerifyStep, VerifyFinds, VerifyExpires, VerifyFails
<1> QED
  BY <1>1, <1>2, <1>3, <1>4, <1>5 DEF Next, ServerStep

\* A committed action continues the newest action of its chain, whatever was committed between
\* the moment validateActionChain read it and the COMMIT.
THEOREM ChainsDoNotFork == Spec => NoFork
<1> DEFINE Continuation == \A m \in markers' \ markers :
             IF m.depth = 0 THEN \A n \in markers : n.root # m.root
                            ELSE \E n \in markers : n.action = m.parent /\ IsLatest(n)
<1>1. Inv /\ [Next]_vars => [Continuation]_markers
  <2> SUFFICES ASSUME Inv, [Next]_vars, markers' # markers
               PROVE  Continuation
    OBVIOUS
  <2>1. PICK r \in Run : ServerCommit(r)
    BY OnlyCommitMarks
  <2> DEFINE new == MarkerOf(r)
  <2>2. /\ markers' = markers \cup {new} /\ new \in Markers
        /\ \A m \in markers : ~(m.root = new.root /\ m.depth = new.depth)
    BY <2>1, CommitAdds DEF Duplicate
  <2>3. \A m \in markers : m.root = new.root => m.depth \in Nat /\ m.depth < new.depth
    <3> SUFFICES ASSUME NEW m \in markers, m.root = new.root, m.depth >= new.depth
                 PROVE  FALSE
      BY <2>2, ProtocolAssumption DEF Inv, TypeOK, Markers
    <3>1. new.depth \in 0..m.depth
      BY <2>2, ProtocolAssumption DEF Inv, TypeOK, Markers
    <3> QED
      BY <2>2, <3>1 DEF Inv, Gapless
  <2>4. CASE new.depth = 0
    BY <2>2, <2>3, <2>4
  <2>5. CASE new.depth # 0
    <3>1. PICK n \in markers : n.action = new.parent /\ n.root = new.root /\ n.depth + 1 = new.depth
      BY <2>1, <2>5, CommitAdds
    <3>2. IsLatest(n)
      BY <2>2, <2>3, <3>1, ProtocolAssumption DEF IsLatest, Inv, TypeOK, Markers
    <3> QED
      BY <2>2, <2>5, <3>1, <3>2
  <2> QED
    BY <2>4, <2>5
<1> QED
  BY <1>1, Invariance, PTL DEF Spec, NoFork

\* The marker table implements the abstract ledger: it starts empty, and every step either leaves
\* it alone or records one entry that clashes with none and continues its parent.
THEOREM MarkersAreALedger == Spec => ImplementsLedger
<1>1. Init => Ledger!Init
  BY DEF Init, Ledger!Init
<1>2. Inv /\ [Next]_vars => [Ledger!Next]_markers
  <2> SUFFICES ASSUME Inv, [Next]_vars, markers' # markers
               PROVE  Ledger!Next
    OBVIOUS
  <2>1. PICK r \in Run : ServerCommit(r)
    BY OnlyCommitMarks
  <2> DEFINE new == MarkerOf(r)
  <2>2. /\ markers' = markers \cup {new} /\ new \in Markers
        /\ \A m \in markers : ~Duplicate(new, m)
    BY <2>1, CommitAdds
  <2>3. /\ new.plan \in PlanId /\ new.action \in Run
        /\ new.root \in PlanId /\ new.target \in Ledger!Target
    BY <2>2 DEF Markers, Ledger!Target
  <2>4. Ledger!Record(new)
    BY <2>2 DEF Duplicate, Ledger!Clash, Ledger!Record
  <2>5. CASE new.parent = None
    <3>1. new.depth = 0
      BY <2>1, <2>5, CommitAdds
    <3>2. new = Ledger!Opening(new.action, new.plan, new.root, new.target)
      BY <2>2, <2>5, <3>1 DEF Markers, Ledger!Opening
    <3>3. Ledger!Open(new.action, new.plan)
      BY <2>3, <2>4, <3>2 DEF Ledger!Open
    <3> QED
      BY <2>3, <3>3 DEF Ledger!Next
  <2>6. CASE new.parent # None
    <3>1. PICK m \in markers : /\ m.action = new.parent /\ m.root = new.root
                               /\ m.depth + 1 = new.depth /\ m.target # new.target
      BY <2>1, <2>6, CommitAdds
    <3>2. m.depth \in Nat /\ m.depth < MaxDepth
      BY <2>2, <3>1, ProtocolAssumption DEF Inv, TypeOK, Markers
    <3>3. new = Ledger!Continuing(new.action, new.plan, m, new.target)
      BY <2>2, <3>1, <3>2 DEF Markers, Ledger!Continuing
    <3>4. Ledger!Continue(new.action, new.plan)
      BY <2>3, <2>4, <3>1, <3>2, <3>3 DEF Ledger!Continue
    <3> QED
      BY <2>3, <3>4 DEF Ledger!Next
  <2> QED
    BY <2>5, <2>6
<1> QED
  BY <1>1, <1>2, Invariance, PTL DEF Spec, ImplementsLedger, Ledger!Spec

-----------------------------------------------------------------------------
(* A ledger is linear, for every number of actions, plans and every maximal *)
(* depth: only the steps of module ActionLedger are used here.              *)

LedgerInv == Ledger!TypeOK /\ Ledger!Linear

\* What both kinds of steps have in common: an entry is recorded, and unless it opens a chain it
\* continues one.
Continues(e, f) == e.root = f.root /\ e.depth = f.depth + 1 /\ e.target # f.target
Recorded(e)     == Ledger!Record(e) /\ (e.depth # 0 => \E f \in markers : Continues(e, f))

\* Every step records an entry.
LEMMA StepRecords ==
  ASSUME LedgerInv, Ledger!Next
  PROVE  \E e \in Ledger!Entry : Recorded(e)
<1>1. PICK a \in Run, p \in PlanId : Ledger!Open(a, p) \/ Ledger!Continue(a, p)
  BY DEF Ledger!Next
<1>2. CASE Ledger!Open(a, p)
  <2>1. PICK root \in PlanId, t \in Ledger!Target : Ledger!Record(Ledger!Opening(a, p, root, t))
    BY <1>2 DEF Ledger!Open
  <2>2. Ledger!Opening(a, p, root, t) \in Ledger!Entry /\ Ledger!Opening(a, p, root, t).depth = 0
    BY ProtocolAssumption DEF Ledger!Opening, Ledger!Entry
  <2> QED
    BY <2>1, <2>2 DEF Recorded
<1>3. CASE Ledger!Continue(a, p)
  <2>1. PICK f \in markers, t \in Ledger!Target :
          f.depth < MaxDepth /\ t # f.target /\ Ledger!Record(Ledger!Continuing(a, p, f, t))
    BY <1>3 DEF Ledger!Continue
  <2>2. f \in Ledger!Entry
    BY DEF LedgerInv, Ledger!TypeOK
  <2>3. Ledger!Continuing(a, p, f, t) \in Ledger!Entry
    BY <2>1, <2>2, ProtocolAssumption DEF Ledger!Continuing, Ledger!Entry
  <2>4. Continues(Ledger!Continuing(a, p, f, t), f)
    BY <2>1 DEF Ledger!Continuing, Continues
  <2> QED
    BY <2>1, <2>3, <2>4 DEF Recorded
<1> QED
  BY <1>1, <1>2, <1>3

\* Recording an entry keeps every chain gapless: its parent's chain is.
LEMMA RecordGapless ==
  ASSUME LedgerInv, NEW e \in Ledger!Entry, Recorded(e)
  PROVE  Ledger!Gapless'
<1>1. markers' = markers \cup {e} /\ e.depth \in Nat
  BY ProtocolAssumption DEF Recorded, Ledger!Record, Ledger!Entry
<1> SUFFICES ASSUME NEW d \in 0..e.depth
             PROVE  \E f \in markers' : f.root = e.root /\ f.depth = d
  BY <1>1 DEF Ledger!Gapless, LedgerInv, Ledger!Linear
<1>2. CASE d = e.depth
  BY <1>1, <1>2
<1>3. CASE d # e.depth
  <2>1. PICK f \in markers : Continues(e, f)
    BY <1>1, <1>3 DEF Recorded
  <2>2. f.root = e.root /\ f.depth \in Nat /\ d \in 0..f.depth
    BY <1>1, <1>3, <2>1, ProtocolAssumption DEF Continues, LedgerInv, Ledger!TypeOK, Ledger!Entry
  <2> QED
    BY <1>1, <2>2 DEF LedgerInv, Ledger!Linear, Ledger!Gapless
<1> QED
  BY <1>2, <1>3

\* Recording an entry keeps neighbours in a chain opposite: the entry one place below e is the
\* parent of e, and nothing is one place above e yet, for there would be a gap.
LEMMA RecordAlternating ==
  ASSUME LedgerInv, NEW e \in Ledger!Entry, Recorded(e)
  PROVE  Ledger!Alternating'
<1>1. /\ markers' = markers \cup {e} /\ e.depth \in Nat
      /\ \A f \in markers : ~(f.root = e.root /\ f.depth = e.depth)
      /\ \A f \in markers : f.depth \in Nat
  BY ProtocolAssumption DEF Recorded, Ledger!Record, Ledger!Entry, Ledger!Clash, LedgerInv,
           Ledger!TypeOK
<1>2. ASSUME NEW f \in markers, e.root = f.root, e.depth = f.depth + 1
      PROVE  e.target # f.target
  <2>1. PICK p \in markers : Continues(e, p)
    BY <1>1, <1>2 DEF Recorded
  <2>2. p.root = f.root /\ p.depth = f.depth
    BY <1>1, <1>2, <2>1 DEF Continues
  <2>3. p = f
    BY <2>2 DEF LedgerInv, Ledger!Linear, Ledger!NoClash, Ledger!Clash
  <2> QED
    BY <2>1, <2>3 DEF Continues
<1>3. ASSUME NEW f \in markers, f.root = e.root, f.depth = e.depth + 1
      PROVE  FALSE
  <2>1. e.depth \in 0..f.depth
    BY <1>1, <1>3
  <2>2. \E g \in markers : g.root = f.root /\ g.depth = e.depth
    BY <2>1 DEF LedgerInv, Ledger!Linear, Ledger!Gapless
  <2> QED
    BY <1>1, <1>3, <2>2
<1>4. e.depth # e.depth + 1
  BY <1>1
<1> QED
  BY <1>1, <1>2, <1>3, <1>4 DEF LedgerInv, Ledger!Linear, Ledger!Alternating

\* Every state of the ledger is linear: unique places, no holes, alternating directions.
THEOREM LedgerIsLinear == Ledger!Spec => []Ledger!Linear
<1>1. Ledger!Init => LedgerInv
  BY DEF Ledger!Init, LedgerInv, Ledger!TypeOK, Ledger!Linear, Ledger!NoClash, Ledger!Gapless,
           Ledger!Alternating
<1>2. LedgerInv /\ [Ledger!Next]_markers => LedgerInv'
  <2> SUFFICES ASSUME LedgerInv, [Ledger!Next]_markers
               PROVE  LedgerInv'
    OBVIOUS
  <2>1. CASE UNCHANGED markers
    BY <2>1 DEF LedgerInv, Ledger!TypeOK, Ledger!Linear, Ledger!NoClash, Ledger!Gapless,
             Ledger!Alternating
  <2>2. CASE Ledger!Next
    <3>1. PICK e \in Ledger!Entry : Recorded(e)
      BY <2>2, StepRecords
    <3>2. Ledger!TypeOK' /\ Ledger!NoClash'
      BY <3>1 DEF Recorded, Ledger!Record, LedgerInv, Ledger!TypeOK, Ledger!Linear, Ledger!NoClash,
               Ledger!Clash
    <3>3. Ledger!Gapless' /\ Ledger!Alternating'
      BY <3>1, RecordGapless, RecordAlternating
    <3> QED
      BY <3>2, <3>3 DEF LedgerInv, Ledger!Linear
  <2> QED
    BY <2>1, <2>2
<1>3. LedgerInv => Ledger!Linear
  BY DEF LedgerInv
<1> QED
  BY <1>1, <1>2, <1>3, PTL DEF Ledger!Spec

\* What holds of the ledger holds of the marker table: its chains are lines.
THEOREM ChainsAreLinear == Spec => []ChainsAreLines
<1> QED
  BY MarkersAreALedger, LedgerIsLinear, PTL DEF ImplementsLedger, ChainsAreLines

-----------------------------------------------------------------------------
(* A compensation is atomic, for any number of runs, plans, rows and        *)
(* operations, whatever other clients, crashes and lost answers come in     *)
(* between: the step that makes a marker visible finds every operation's    *)
(* expect image in the committed rows and leaves what all of them write.    *)

\* What a run whose marker is inserted has done so far: the rows of the operations behind it are
\* its own, each was as its operation expects it, and the rows it holds are, in its transaction,
\* what these operations make of the committed ones.
Progress(r) ==
  LET ops == Ops(r) IN
  /\ step[r] \in 1 .. Len(ops) + 1
  /\ txn[r] = "inflight" => step[r] = Len(ops) + 1
  /\ \A j \in 1 .. step[r] - 1 : /\ owner[ops[j].key] = r
                                 /\ After(db, ops, j - 1)[ops[j].key] = ops[j].expect
  /\ \A k \in Key : owner[k] = r => cur[k] = After(db, ops, step[r] - 1)[k]
  /\ pc[r] = "write" /\ txn[r] = "active" /\ ops[step[r]].expect # None => owner[ops[step[r]].key] = r

\* Only runs with a marker hold rows, and rows nobody holds are as they were committed.
Held ==
  /\ \A k \in Key : owner[k] \in pending \cup {None}
  /\ \A k \in Key : owner[k] = None => cur[k] = db[k]
  /\ \A r \in pending : Progress(r)

-----------------------------------------------------------------------------
(* The rows after some operations.                                          *)

\* The next operation changes its own row and no other.
LEMMA AfterStep ==
  ASSUME NEW ops \in Seq(Op), NEW rows, NEW i \in 1 .. Len(ops), NEW k \in Key
  PROVE  /\ k = ops[i].key => After(rows, ops, i)[k] = ops[i].write
         /\ k # ops[i].key => After(rows, ops, i)[k] = After(rows, ops, i - 1)[k]
<1>1. CASE k = ops[i].key
  <2>1. i \in Writers(ops, k, i) /\ \A j \in Writers(ops, k, i) : j \in Int /\ i >= j
    BY <1>1 DEF Writers
  <2>2. Max(Writers(ops, k, i)) = i
    <3>1. \A x \in Writers(ops, k, i) : (\A y \in Writers(ops, k, i) : x >= y) => x = i
      BY <2>1
    <3> QED
      BY <2>1, <3>1 DEF Max
  <2> QED
    BY <1>1, <2>1, <2>2 DEF After
<1>2. CASE k # ops[i].key
  <2>1. Writers(ops, k, i) = Writers(ops, k, i - 1)
    BY <1>2 DEF Writers
  <2> QED
    BY <1>2, <2>1 DEF After
<1> QED BY <1>1, <1>2

\* A row no operation is about is as it was.
LEMMA AfterOthers ==
  ASSUME NEW ops, NEW rows, NEW i, NEW k \in Key, \A j \in 1..i : ops[j].key # k
  PROVE  After(rows, ops, i)[k] = rows[k]
BY DEF After, Writers

\* What becomes of a row depends on this row alone.
LEMMA AfterOfRow ==
  ASSUME NEW ops, NEW rows, NEW other, NEW i, NEW k \in Key, rows[k] = other[k]
  PROVE  After(rows, ops, i)[k] = After(other, ops, i)[k]
BY DEF After

\* A run with a marker has a plan with operations, and keeps them.
LEMMA PendingOps ==
  ASSUME Inv, NEW r \in pending
  PROVE  /\ r \in Run /\ r # None /\ txn[r] # "none" /\ Ops(r) \in Seq(Op) /\ Len(Ops(r)) \in Nat
         /\ \A j \in 1 .. Len(Ops(r)) : Ops(r)[j] \in Op /\ Ops(r)[j].key \in Key
         /\ Kept => Ops(r)' = Ops(r)
<1>1. r \in Run /\ r # None /\ txn[r] # "none" /\ pc[r] # "idle"
  BY Engaged, ProtocolAssumption DEF Inv, TypeOK, Phases
<1>2. Ops(r) \in Seq(Op)
  BY <1>1, CurOpType DEF Inv, Phases
<1>3. Kept => Ops(r)' = Ops(r)
  BY <1>1, KeptPlan
<1>4. Len(Ops(r)) \in Nat /\ \A j \in 1 .. Len(Ops(r)) : Ops(r)[j] \in Op
  BY <1>2
<1>5. \A op \in Op : op.key \in Key
  BY DEF Op
<1> QED BY <1>1, <1>2, <1>3, <1>4, <1>5

-----------------------------------------------------------------------------
(* Steps.                                                                   *)

\* A step that leaves a run's rows, and the committed ones under them, as they are.
LEMMA ProgressStays ==
  ASSUME Inv, Kept, NEW r \in pending, Progress(r), step'[r] = step[r],
         \A k \in Key : owner[k] = r => owner'[k] = r /\ cur'[k] = cur[k] /\ db'[k] = db[k],
         \A k \in Key : owner'[k] = r => owner[k] = r,
         txn'[r] = "inflight" => txn[r] = "inflight" \/ step[r] = Len(Ops(r)) + 1,
         pc'[r] = "write" /\ txn'[r] = "active" => pc[r] = "write" /\ txn[r] = "active"
  PROVE  Progress(r)'
<1> DEFINE ops == Ops(r)
<1>1. /\ ops \in Seq(Op) /\ Len(ops) \in Nat /\ Ops(r)' = ops
      /\ \A j \in 1 .. Len(ops) : ops[j].key \in Key
  BY PendingOps
<1>2. step'[r] \in 1 .. Len(ops) + 1 /\ (txn'[r] = "inflight" => step'[r] = Len(ops) + 1)
  BY DEF Progress
<1>3. ASSUME NEW j \in 1 .. step[r] - 1
      PROVE  owner'[ops[j].key] = r /\ After(db', ops, j - 1)[ops[j].key] = ops[j].expect
  <2>1. ops[j].key \in Key /\ owner[ops[j].key] = r /\ After(db, ops, j - 1)[ops[j].key] = ops[j].expect
    BY <1>1 DEF Progress
  <2>2. db'[ops[j].key] = db[ops[j].key]
    BY <2>1
  <2>3. After(db', ops, j - 1)[ops[j].key] = After(db, ops, j - 1)[ops[j].key]
    BY <2>1, <2>2 DEF After
  <2> QED BY <2>1, <2>3
<1>4. ASSUME NEW k \in Key, owner'[k] = r
      PROVE  cur'[k] = After(db', ops, step[r] - 1)[k]
  <2>1. owner[k] = r /\ cur[k] = After(db, ops, step[r] - 1)[k]
    BY <1>4 DEF Progress
  <2>2. After(db', ops, step[r] - 1)[k] = After(db, ops, step[r] - 1)[k]
    BY <2>1, AfterOfRow
  <2> QED BY <2>1, <2>2
<1>5. ASSUME pc'[r] = "write", txn'[r] = "active", ops[step[r]].expect # None
      PROVE  owner'[ops[step[r]].key] = r
  <2>1. owner[ops[step[r]].key] = r /\ step[r] <= Len(ops)
    BY <1>5, PendingOps DEF Progress, Inv, Phases
  <2>2. ops[step[r]].key \in Key
    BY <1>1, <2>1 DEF Progress
  <2> QED BY <2>1, <2>2
<1>6. \A i : After(db, ops, i)' = After(db', ops', i')
  OBVIOUS
<1> HIDE DEF ops
<1> QED
  BY <1>1, <1>2, <1>3, <1>4, <1>5 DEF Progress, ops

\* Steps that touch neither rows nor locks nor markers.
LEMMA HeldControlStep ==
  ASSUME Inv, Kept, Held, UNCHANGED <<cur, owner, db, pending>>,
         \A r \in pending :
           /\ step'[r] = step[r]
           /\ txn'[r] = "inflight" => txn[r] = "inflight" \/ step[r] = Len(Ops(r)) + 1
           /\ pc'[r] = "write" /\ txn'[r] = "active" => pc[r] = "write" /\ txn[r] = "active"
  PROVE  Held'
<1>1. \A r \in pending : Progress(r)'
  BY ProgressStays DEF Held
<1> QED BY <1>1 DEF Held

\* The steps of a client that are of this kind.
LEMMA HeldClientStep ==
  ASSUME Inv, Kept, Held, NEW r \in Run,
         \/ \E p \in PlanId : Start(r, p)
         \/ CheckSchema(r) \/ CheckRow(r) \/ CheckEnds(r) \/ LockSchemas(r) \/ VerifySchemas(r)
         \/ StatementFails(r) \/ SendCommit(r) \/ CommitNotSent(r) \/ CommitAnswered(r)
         \/ CommitRefused(r) \/ CommitUnanswered(r) \/ RollbackLost(r) \/ KillRun(r)
  PROVE  Held'
<1> USE DEF Goto, Report, Fail, cliVars, sessVars, rowVars, boundVars
<1>1. /\ UNCHANGED <<cur, owner, db, pending>>
      /\ step \in [Run -> Nat \ {0}] /\ pc \in [Run -> Labels] /\ pending \subseteq Run
      /\ txn \in [Run -> {"none", "active", "inflight"}]
  BY DEF Inv, TypeOK, Start, CheckSchema, CheckRow, CheckEnds, LockSchemas, VerifySchemas,
         StatementFails, SendCommit, CommitNotSent, CommitAnswered, CommitRefused,
         CommitUnanswered, RollbackLost, KillRun
<1>2. \A s \in pending : step'[s] = step[s]
  <2>1. \A s \in pending : txn[s] # "none" /\ pc[s] \notin {"idle", "check_rows"}
    BY DEF Inv, Phases, TypeOK
  <2>2. step' = step \/ (pc[r] \in {"idle", "check_rows"} /\ \E n : step' = [step EXCEPT ![r] = n])
    BY DEF Start, CheckSchema, CheckRow, CheckEnds, LockSchemas, VerifySchemas,
           StatementFails, SendCommit, CommitNotSent, CommitAnswered, CommitRefused,
           CommitUnanswered, RollbackLost, KillRun
  <2> QED BY <1>1, <2>1, <2>2
<1>3. \A s \in pending : txn'[s] = "inflight" => txn[s] = "inflight" \/ step[s] = Len(Ops(s)) + 1
  <2>1. CASE SendCommit(r)
    <3>1. txn' = [txn EXCEPT ![r] = "inflight"] /\ step[r] > Len(Ops(r))
      BY <2>1 DEF SendCommit, AtCommit
    <3>2. r \in pending => step[r] \in 1 .. Len(Ops(r)) + 1 /\ Len(Ops(r)) \in Nat
      BY PendingOps DEF Held, Progress
    <3> QED BY <1>1, <3>1, <3>2
  <2>2. CASE ~SendCommit(r)
    <3>1. txn' = txn \/ txn' = [txn EXCEPT ![r] = "active"]
      BY <2>2 DEF Start, CheckSchema, CheckRow, CheckEnds, LockSchemas, VerifySchemas,
             StatementFails, CommitNotSent, CommitAnswered, CommitRefused,
             CommitUnanswered, RollbackLost, KillRun
    <3> QED BY <1>1, <3>1
  <2> QED BY <2>1, <2>2
<1>4. \A s \in pending : pc'[s] = "write" /\ txn'[s] = "active" => pc[s] = "write" /\ txn[s] = "active"
  <2>1. pc' = pc \/ \E l \in Labels \ {"write"} : pc' = [pc EXCEPT ![r] = l]
    <3>1. \/ pc' = pc \/ Goto(r, "check") \/ Goto(r, "check_rows") \/ Goto(r, "begin")
          \/ Goto(r, "done") \/ Goto(r, "schema") \/ Goto(r, "marker") \/ Goto(r, "rollback")
          \/ Goto(r, "sent")
      BY Zenon DEF Start, CheckSchema, CheckRow, CheckEnds, LockSchemas, VerifySchemas,
             StatementFails, SendCommit, CommitNotSent, CommitAnswered, CommitRefused,
             CommitUnanswered, RollbackLost, KillRun
    <3> QED BY <3>1 DEF Labels
  <2>2. txn' = txn \/ (pc' # pc /\ pc'[r] # "write" /\ \E t : txn' = [txn EXCEPT ![r] = t])
    BY <1>1 DEF Start, CheckSchema, CheckRow, CheckEnds, LockSchemas, VerifySchemas,
             StatementFails, SendCommit, CommitNotSent, CommitAnswered, CommitRefused,
             CommitUnanswered, RollbackLost, KillRun, AtCommit
  <2> QED BY <1>1, <2>1, <2>2
<1> QED BY <1>1, <1>2, <1>3, <1>4, HeldControlStep

\* A marker is inserted: its run holds nothing yet.
LEMMA HeldInsertMarker ==
  ASSUME Inv, Kept, Held, NEW r \in Run, InsertMarker(r)
  PROVE  Held'
<1>1. /\ UNCHANGED <<cur, owner, db>>
      /\ r \notin pending /\ pc[r] = "marker" /\ txn' = txn
  BY DEF InsertMarker, rowVars, Duplicate
<1>2. CASE pending' = pending /\ step' = step
  <2>1. pc' = [pc EXCEPT ![r] = "rollback"] \/ pc' = [pc EXCEPT ![r] = "lock"]
    BY DEF InsertMarker, Fail, Goto
  <2> QED BY <1>1, <1>2, <2>1, HeldControlStep DEF Inv, TypeOK
<1>3. CASE pending' = pending \cup {r} /\ step' = [step EXCEPT ![r] = 1] /\ Goto(r, "lock")
  <2>1. ASSUME NEW s \in pending
        PROVE  Progress(s)'
    <3>1. s # r /\ s \in Run /\ step'[s] = step[s] /\ pc'[s] = pc[s]
      BY <1>1, <1>3 DEF Inv, TypeOK, Goto
    <3> QED BY <1>1, <3>1, ProgressStays DEF Held
  <2>2. Progress(r)'
    <3>1. step'[r] = 1 /\ pc'[r] = "lock"
      BY <1>3 DEF Inv, TypeOK, Goto
    <3>2. \A k \in Key : owner'[k] # r
      BY <1>1, ProtocolAssumption DEF Held
    <3>3. Len(Ops(r)') \in Nat /\ txn'[r] = "active"
      <4>1. Ops(r)' = Ops(r)
        BY <1>1, KeptPlan
      <4>2. Ops(r) \in Seq(Op)
        BY <1>1, KeptPlan, CurOpType DEF Inv
      <4> QED BY <1>1, <4>1, <4>2 DEF InsertMarker, Live
    <3> QED BY <3>1, <3>2, <3>3 DEF Progress
  <2> QED BY <1>1, <1>3, <2>1, <2>2 DEF Held
<1> QED BY <1>2, <1>3, Zenon DEF InsertMarker

\* What the run sees of the row its next operation is about, while nobody else holds it.
LEMMA RowInHand ==
  ASSUME Inv, Held, NEW r \in pending, NEW k \in Key, owner[k] \in {None, r}
  PROVE  cur[k] = After(db, Ops(r), step[r] - 1)[k]
<1>1. Progress(r) /\ r # None
  BY PendingOps DEF Held
<1>2. CASE owner[k] = r
  BY <1>1, <1>2 DEF Progress
<1>3. CASE owner[k] = None
  <2>1. \A j \in 1 .. step[r] - 1 : Ops(r)[j].key # k
    BY <1>1, <1>3 DEF Progress
  <2>2. After(db, Ops(r), step[r] - 1)[k] = db[k]
    BY <2>1, AfterOthers
  <2> QED BY <1>3, <2>2 DEF Held
<1> QED BY <1>2, <1>3

\* A row is locked.
LEMMA HeldLockRow ==
  ASSUME Inv, Kept, Held, NEW r \in Run, LockRow(r)
  PROVE  Held'
<1> DEFINE op == CurOp(r)
           k  == op.key
<1>1. /\ UNCHANGED <<cur, db, pending, step, txn>> /\ r \in pending /\ r # None /\ pc[r] = "lock"
      /\ owner[k] \in {None, r} /\ step[r] <= Len(Ops(r))
  BY PendingOps, ProtocolAssumption DEF LockRow, sessVars, Live, Inv, Phases
<1>2. op = Ops(r)[step[r]] /\ op \in Op /\ k \in Key
  BY <1>1, PendingOps DEF CurOp, Held, Progress, Op
<1>3. /\ cur[k] = None => owner' = owner
      /\ cur[k] # None => owner' = [owner EXCEPT ![k] = r]
      /\ \/ pc' = [pc EXCEPT ![r] = "write"] /\ (cur[k] = None <=> op.expect = None)
         \/ pc' = [pc EXCEPT ![r] = "rollback"]
  BY DEF LockRow, Goto, Fail
<1>4. owner \in [Key -> Run \cup {None}] /\ pc \in [Run -> Labels] /\ pending \subseteq Run
  BY DEF Inv, TypeOK
<1> HIDE DEF op, k
<1>5. /\ \A l \in Key \ {k} : owner'[l] = owner[l]
      /\ owner'[k] \in {owner[k], r}
      /\ cur[k] # None => owner'[k] = r
  BY <1>2, <1>3, <1>4
<1>6. ASSUME NEW s \in pending, s # r
      PROVE  Progress(s)'
  <2>1. pc'[s] = pc[s] /\ \A l \in Key : owner'[l] = s <=> owner[l] = s
    <3>1. s # None
      BY PendingOps
    <3> QED BY <1>1, <1>3, <1>4, <1>5, <1>6, <3>1
  <2> QED BY <1>1, <2>1, ProgressStays DEF Held
<1>7. Progress(r)'
  <2> DEFINE ops == Ops(r)
  <2>1. /\ Progress(r) /\ Ops(r)' = ops /\ Len(ops) \in Nat /\ txn[r] # "inflight"
        /\ \A j \in 1 .. Len(ops) : ops[j].key \in Key
    BY <1>1, PendingOps DEF Held, LockRow, Live
  <2> HIDE DEF ops
  <2>2. step'[r] \in 1 .. Len(ops) + 1 /\ txn'[r] # "inflight"
    BY <1>1, <2>1 DEF Progress, ops
  <2>3. ASSUME NEW j \in 1 .. step'[r] - 1
        PROVE  owner'[ops[j].key] = r /\ After(db', ops, j - 1)[ops[j].key] = ops[j].expect
    <3>1. owner[ops[j].key] = r /\ After(db, ops, j - 1)[ops[j].key] = ops[j].expect
      BY <1>1, <2>1 DEF Progress, ops
    <3>2. ops[j].key \in Key
      BY <1>1, <2>1, <2>2
    <3> QED BY <1>1, <1>5, <3>1, <3>2
  <2>4. ASSUME NEW l \in Key, owner'[l] = r
        PROVE  cur'[l] = After(db', ops, step'[r] - 1)[l]
    <3>1. owner[l] \in {None, r}
      BY <1>1, <1>5, <2>4
    <3> QED BY <1>1, <3>1, RowInHand DEF ops
  <2>5. ASSUME pc'[r] = "write", ops[step'[r]].expect # None
        PROVE  owner'[ops[step'[r]].key] = r
    <3>1. cur[k] # None
      BY <1>1, <1>2, <1>3, <1>4, <2>5 DEF ops
    <3> QED BY <1>1, <1>2, <1>5, <3>1 DEF k, ops
  <2> QED BY <2>1, <2>2, <2>3, <2>4, <2>5 DEF Progress
<1>8. /\ \A l \in Key : owner'[l] \in pending' \cup {None}
      /\ \A l \in Key : owner'[l] = None => cur'[l] = db'[l]
  BY <1>1, <1>2, <1>5 DEF Held
<1> QED BY <1>1, <1>6, <1>7, <1>8 DEF Held

\* A row is written, or is not as the operation expects it.
LEMMA HeldWriteRow ==
  ASSUME Inv, Kept, Held, NEW r \in Run, WriteRow(r)
  PROVE  Held'
<1> DEFINE op == CurOp(r)
           k  == op.key
<1>1. /\ UNCHANGED <<db, pending, txn>> /\ r \in pending /\ r # None /\ pc[r] = "write"
      /\ txn[r] = "active" /\ step[r] <= Len(Ops(r)) /\ CanWrite(r, op)
  BY PendingOps, ProtocolAssumption DEF WriteRow, sessVars, Live, Inv, Phases
<1>2. op = Ops(r)[step[r]] /\ op \in Op /\ k \in Key /\ Progress(r) /\ step[r] \in 1 .. Len(Ops(r))
  BY <1>1, PendingOps DEF CurOp, Held, Progress, Op
<1>3. owner[k] \in {None, r}
  BY <1>1, <1>2 DEF Progress, CanWrite
<1>4. /\ owner \in [Key -> Run \cup {None}] /\ pc \in [Run -> Labels] /\ pending \subseteq Run
      /\ cur \in [Key -> Row] /\ step \in [Run -> Nat \ {0}]
  BY DEF Inv, TypeOK
<1>5. CASE UNCHANGED <<cur, owner, step>> /\ pc' = [pc EXCEPT ![r] = "rollback"]
  BY <1>1, <1>4, <1>5, HeldControlStep
<1>6. CASE /\ Applies(op, cur[k])
           /\ cur' = [cur EXCEPT ![k] = op.write] /\ owner' = [owner EXCEPT ![k] = r]
           /\ step' = [step EXCEPT ![r] = @ + 1] /\ pc' = [pc EXCEPT ![r] = "lock"]
  <2> HIDE DEF op, k
  <2>1. /\ \A l \in Key \ {k} : owner'[l] = owner[l] /\ cur'[l] = cur[l]
        /\ owner'[k] = r /\ cur'[k] = op.write /\ cur[k] = op.expect
    BY <1>2, <1>4, <1>6 DEF Applies
  <2>2. ASSUME NEW s \in pending, s # r
        PROVE  Progress(s)'
    <3>1. s # None /\ s \in Run
      BY PendingOps
    <3>2. \A l \in Key : owner[l] = s => l # k
      BY <1>3, <2>2, <3>1
    <3>3. pc'[s] = pc[s] /\ step'[s] = step[s] /\ \A l \in Key : owner'[l] = s => owner[l] = s
      BY <1>4, <1>6, <2>1, <2>2, <3>1
    <3> QED BY <1>1, <2>1, <3>2, <3>3, ProgressStays DEF Held
  <2>3. Progress(r)'
    <3> DEFINE ops == Ops(r)
               i   == step[r]
    <3>1. /\ Ops(r)' = ops /\ ops \in Seq(Op) /\ Len(ops) \in Nat /\ i \in 1 .. Len(ops) /\ op = ops[i]
          /\ \A j \in 1 .. Len(ops) : ops[j].key \in Key
      BY <1>1, <1>2, PendingOps
    <3>2. step'[r] = i + 1 /\ pc'[r] = "lock" /\ txn'[r] = "active"
      BY <1>1, <1>4, <1>6
    <3>3. /\ \A j \in 1 .. i - 1 : owner[ops[j].key] = r /\ After(db, ops, j - 1)[ops[j].key] = ops[j].expect
          /\ \A l \in Key : owner[l] = r => cur[l] = After(db, ops, i - 1)[l]
      BY <1>2 DEF Progress
    <3>4. cur[k] = After(db, ops, i - 1)[k]
      BY <1>1, <1>2, <1>3, RowInHand
    <3>5. k = ops[i].key
      BY <3>1 DEF k
    <3> HIDE DEF ops, i
    <3>6. ASSUME NEW j \in 1 .. i
          PROVE  owner'[ops[j].key] = r /\ After(db', ops, j - 1)[ops[j].key] = ops[j].expect
      <4>1. CASE j = i
        BY <1>1, <2>1, <3>1, <3>4, <3>5, <4>1
      <4>2. CASE j # i
        <5>1. j \in 1 .. i - 1 /\ ops[j].key \in Key
          BY <3>1, <4>2
        <5> QED BY <1>1, <2>1, <3>3, <5>1
      <4> QED BY <4>1, <4>2
    <3>7. ASSUME NEW l \in Key, owner'[l] = r
          PROVE  cur'[l] = After(db', ops, i)[l]
      <4>1. /\ l = ops[i].key => After(db, ops, i)[l] = ops[i].write
            /\ l # ops[i].key => After(db, ops, i)[l] = After(db, ops, i - 1)[l]
        <5>1. ops \in Seq(Op) /\ i \in 1 .. Len(ops) /\ l \in Key
          BY <3>1, <3>7
        <5> QED BY ONLY <5>1, AfterStep
      <4> QED BY <1>1, <2>1, <3>1, <3>3, <3>5, <3>7, <4>1
    <3>8. step'[r] - 1 = i /\ step'[r] \in 1 .. Len(ops) + 1
      BY <3>1, <3>2
    <3> QED BY <3>1, <3>2, <3>6, <3>7, <3>8 DEF Progress
  <2>4. /\ \A l \in Key : owner'[l] \in pending' \cup {None}
        /\ \A l \in Key : owner'[l] = None => cur'[l] = db'[l]
    BY <1>1, <1>2, <2>1 DEF Held
  <2> QED BY <1>1, <2>2, <2>3, <2>4 DEF Held
<1> QED BY <1>5, <1>6, Zenon DEF WriteRow, Fail, Goto

\* Transactions are rolled back: what they held is as it was committed.
LEMMA HeldUndoStep ==
  ASSUME Inv, Kept, Held, NEW S \in SUBSET Run, Undo(S), UNCHANGED <<db, step>>,
         \A s \in Run \ S : pc'[s] = pc[s]
  PROVE  Held'
<1>1. /\ pending' = pending \ S /\ pending \subseteq Run /\ None \notin S
      /\ \A s \in Run \ S : txn'[s] = txn[s]
      /\ \A k \in Key : owner[k] \in S => owner'[k] = None /\ cur'[k] = db[k]
      /\ \A k \in Key : owner[k] \notin S => owner'[k] = owner[k] /\ cur'[k] = cur[k]
  BY ProtocolAssumption DEF Undo, Ended, Inv, TypeOK
<1>2. ASSUME NEW s \in pending, s \notin S
      PROVE  Progress(s)'
  <2>1. s \in Run /\ s # None /\ step'[s] = step[s] /\ txn'[s] = txn[s] /\ pc'[s] = pc[s] /\ Progress(s)
    BY <1>1, <1>2, PendingOps DEF Held
  <2>2. \A k \in Key : owner[k] = s => owner'[k] = s /\ cur'[k] = cur[k] /\ db'[k] = db[k]
    BY <1>1, <1>2
  <2>3. \A k \in Key : owner'[k] = s => owner[k] = s
    BY <1>1, <1>2, <2>1
  <2> QED BY <2>1, <2>2, <2>3, ProgressStays
<1>3. \A k \in Key : /\ owner'[k] \in pending' \cup {None}
                     /\ owner'[k] = None => cur'[k] = db'[k]
  BY <1>1 DEF Held
<1> QED BY <1>1, <1>2, <1>3 DEF Held

\* A transaction is committed: the rows it held are the committed ones.
LEMMA HeldServerCommit ==
  ASSUME Inv, Kept, Held, NEW r \in Run, ServerCommit(r)
  PROVE  Held'
<1>1. /\ pending' = pending \ {r} /\ pending \subseteq Run /\ UNCHANGED <<step, pc, cur>> /\ r # None
      /\ \A s \in Run \ {r} : txn'[s] = txn[s]
      /\ \A k \in Key : owner[k] = r => owner'[k] = None /\ db'[k] = cur[k]
      /\ \A k \in Key : owner[k] # r => owner'[k] = owner[k] /\ db'[k] = db[k]
  BY ProtocolAssumption DEF ServerCommit, Ended, Inv, TypeOK, cliVars
<1>2. ASSUME NEW s \in pending, s # r
      PROVE  Progress(s)'
  <2>1. s \in Run /\ s # None /\ step'[s] = step[s] /\ txn'[s] = txn[s] /\ pc'[s] = pc[s] /\ Progress(s)
    BY <1>1, <1>2, PendingOps DEF Held
  <2>2. \A k \in Key : owner[k] = s => owner'[k] = s /\ cur'[k] = cur[k] /\ db'[k] = db[k]
    BY <1>1, <1>2
  <2>3. \A k \in Key : owner'[k] = s => owner[k] = s
    BY <1>1, <1>2, <2>1
  <2> QED BY <2>1, <2>2, <2>3, ProgressStays
<1>3. \A k \in Key : /\ owner'[k] \in pending' \cup {None}
                     /\ owner'[k] = None => cur'[k] = db'[k]
  BY <1>1 DEF Held
<1> QED BY <1>1, <1>2, <1>3 DEF Held

\* Another client writes a row that nobody holds.
LEMMA HeldForeignWrite ==
  ASSUME Inv, Kept, Held, NEW k \in Key, NEW v \in Row, ForeignWrite(k, v)
  PROVE  Held'
<1>1. /\ UNCHANGED <<owner, pending, step, txn, pc>> /\ owner[k] = None
      /\ db'[k] = v /\ cur'[k] = v
      /\ \A l \in Key \ {k} : db'[l] = db[l] /\ cur'[l] = cur[l]
  BY DEF ForeignWrite, Inv, TypeOK, cliVars, sessVars
<1>2. ASSUME NEW s \in pending
      PROVE  Progress(s)'
  <2>1. s # None
    BY PendingOps
  <2> QED BY <1>1, <1>2, <2>1, ProgressStays DEF Held
<1> QED BY <1>1, <1>2 DEF Held

\* Held is inductive, on top of the invariant of ApplyProtocolProofs.
LEMMA HeldNext ==
  ASSUME Inv, Held, [Next]_vars
  PROVE  Held'
<1> USE DEF cliVars, sessVars, rowVars, boundVars
<1>1. CASE UNCHANGED vars
  BY <1>1, HeldControlStep DEF vars, Kept
<1>2. CASE Next
  <2>1. Kept
    BY <1>2, StepKeeps
  <2>2. CASE PlanStep \/ AlterTable \/ \E r \in Run : VerifyStep(r)
    <3>1. UNCHANGED <<cur, owner, db, pending, step, txn, pc>>
      BY <2>2, ZenonT(40) DEF PlanStep, CreatePlan, NextPlan, ResolvePlan, AlterTable, VerifyStep, VerifyFinds,
             VerifyExpires, VerifyFails
    <3> QED BY <2>1, <3>1, HeldControlStep
  <2>3. CASE ServerRestart
    BY <2>1, <2>3, HeldUndoStep DEF ServerRestart
  <2>4. ASSUME NEW k \in Key, NEW v \in Row, ForeignWrite(k, v)
        PROVE  Held'
    BY <2>1, <2>4, HeldForeignWrite
  <2>5. ASSUME NEW r \in Run, Rollback(r) \/ ServerAbandon(r)
        PROVE  Held'
    <3>1. Undo({r}) /\ UNCHANGED <<db, step>> /\ \A s \in Run \ {r} : pc'[s] = pc[s]
      BY <2>5 DEF Rollback, ServerAbandon, Goto, Inv, TypeOK
    <3> QED BY <2>1, <3>1, HeldUndoStep
  <2>6. ASSUME NEW r \in Run, ServerCommit(r)
        PROVE  Held'
    BY <2>1, <2>6, HeldServerCommit
  <2>7. ASSUME NEW r \in Run, (\E p \in PlanId : Start(r, p)) \/ ClientStep(r) \/ KillRun(r)
        PROVE  Held'
    BY <2>1, <2>5, <2>7, HeldClientStep, HeldInsertMarker, HeldLockRow, HeldWriteRow DEF ClientStep
  <2> QED BY <1>2, <2>2, <2>3, <2>4, <2>5, <2>6, <2>7 DEF Next, ServerStep
<1> QED BY <1>1, <1>2

-----------------------------------------------------------------------------
\* A compensation is atomic: when its marker becomes visible every operation of the plan has found
\* its expect image in the committed rows, all of them are written at once and nothing else is; and
\* no other step of Unredo changes a committed row.
THEOREM CompensationIsAtomic == Spec => AtomicCompensation
<1> DEFINE Atomic ==
             /\ \A r \in Run : Commits(r) => /\ Fits(db, Ops(r))
                                             /\ db' = After(db, Ops(r), Len(Ops(r)))
             /\ markers' = markers => db' = db \/ foreign' = foreign + 1
<1>1. Init => Held
  BY DEF Init, Held
<1>2. Inv /\ Held /\ [Next]_vars => Held'
  BY HeldNext
<1>3. Inv /\ Held /\ [Next]_vars => [Atomic]_vars
  <2> SUFFICES ASSUME Inv, Held, Next
               PROVE  Atomic
    OBVIOUS
  <2>1. ASSUME NEW r \in Run, Commits(r)
        PROVE  Fits(db, Ops(r)) /\ db' = After(db, Ops(r), Len(Ops(r)))
    <3>1. PICK s \in Run : ServerCommit(s)
      BY <2>1, OnlyCommitMarks DEF Commits, Committed
    <3>2. s = r /\ r \in pending
      BY <2>1, <3>1 DEF ServerCommit, Commits, Committed, MarkerOf
    <3>3. /\ step[r] = Len(Ops(r)) + 1 /\ Progress(r) /\ Len(Ops(r)) \in Nat
      BY <3>1, <3>2, PendingOps DEF ServerCommit, Held, Progress
    <3>4. Fits(db, Ops(r))
      BY <3>3 DEF Fits, Progress
    <3>5. \A k \in Key : db'[k] = After(db, Ops(r), Len(Ops(r)))[k]
      <4> SUFFICES ASSUME NEW k \in Key PROVE db'[k] = After(db, Ops(r), Len(Ops(r)))[k]
        OBVIOUS
      <4>1. CASE owner[k] = r
        BY <3>1, <3>2, <3>3, <4>1 DEF ServerCommit, Progress
      <4>2. CASE owner[k] # r
        <5>1. db'[k] = db[k]
          BY <3>1, <3>2, <4>2 DEF ServerCommit
        <5>2. \A j \in 1 .. Len(Ops(r)) : Ops(r)[j].key # k
          BY <3>3, <4>2 DEF Progress
        <5> QED BY <5>1, <5>2, AfterOthers
      <4> QED BY <4>1, <4>2
    <3>6. db' = [k \in Key |-> db'[k]]
      BY <3>1 DEF ServerCommit
    <3>7. After(db, Ops(r), Len(Ops(r))) = [k \in Key |-> After(db, Ops(r), Len(Ops(r)))[k]]
      BY DEF After
    <3> QED BY <3>4, <3>5, <3>6, <3>7
  <2>2. ASSUME markers' = markers
        PROVE  db' = db \/ foreign' = foreign + 1
    <3>1. ASSUME NEW r \in Run, ServerCommit(r)
          PROVE  FALSE
      <4>1. r \in pending /\ r \notin Committed
        BY <3>1 DEF ServerCommit, Inv, Phases
      <4>2. MarkerOf(r) \in markers /\ MarkerOf(r).action = r
        BY <2>2, <3>1, <4>1 DEF ServerCommit, MarkerOf
      <4> QED BY <4>1, <4>2 DEF Committed
    <3>2. CASE \E k \in Key, v \in Row : ForeignWrite(k, v)
      BY <3>2 DEF ForeignWrite
    <3>3. CASE PlanStep \/ ServerRestart \/ AlterTable
      BY <3>3 DEF PlanStep, CreatePlan, NextPlan, ResolvePlan, ServerRestart, AlterTable
    <3>4. ASSUME NEW r \in Run, (\E p \in PlanId : Start(r, p)) \/ ClientStep(r) \/ KillRun(r)
                               \/ ServerAbandon(r) \/ VerifyStep(r)
          PROVE  db' = db
      BY <3>4 DEF Start, ClientStep, CheckSchema, CheckRow, CheckEnds, LockSchemas, VerifySchemas,
             InsertMarker, LockRow, WriteRow, StatementFails, SendCommit, CommitNotSent,
             CommitAnswered, CommitRefused, CommitUnanswered, Rollback, RollbackLost, KillRun,
             ServerAbandon, VerifyStep, VerifyFinds, VerifyExpires, VerifyFails
    <3> QED BY <3>1, <3>2, <3>3, <3>4 DEF Next, ServerStep
  <2> QED BY <2>1, <2>2
<1> QED
  BY <1>1, <1>2, <1>3, Invariance, PTL DEF Spec, AtomicCompensation
=============================================================================
