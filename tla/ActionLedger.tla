---------------------------- MODULE ActionLedger ----------------------------
(***************************************************************************)
(* What the table unredo_meta.action_markers promises to every reader of   *)
(* it: a ledger of committed compensations that only grows, in which a     *)
(* plan and a place in a chain are used at most once, and in which every   *)
(* action but the first of its chain undoes exactly the state its parent   *)
(* left.  ApplyProtocol implements this specification; nothing here says   *)
(* how (transactions, locks, COMMITs that are never answered).             *)
(***************************************************************************)
EXTENDS Integers

CONSTANTS ActionId,   \* action_id values
          PlanId,     \* plan_id values; a plan's digest is identified with its id
          MaxDepth,   \* policy max_action_depth
          None        \* the NULL of parent_action_id

VARIABLE ledger       \* the committed rows of action_markers

Target == {"ORIGINAL_REVERTED", "ORIGINAL_APPLIED"}

Entry == [action : ActionId, plan : PlanId, root : PlanId, depth : 0..MaxDepth,
          parent : ActionId \cup {None}, target : Target]

\* The three unique keys of the table: PRIMARY, uq_plan_id, uq_root_depth.
Clash(e, f) == \/ e.action = f.action
               \/ e.plan = f.plan
               \/ e.root = f.root /\ e.depth = f.depth

\* The first action of a chain, and one that continues f.
Opening(a, p, root, t) == [action |-> a, plan |-> p, root |-> root, depth |-> 0,
                           parent |-> None, target |-> t]
Continuing(a, p, f, t) == [action |-> a, plan |-> p, root |-> f.root, depth |-> f.depth + 1,
                           parent |-> f.action, target |-> t]

Init == ledger = {}

Record(e) == /\ \A f \in ledger : ~Clash(e, f)
             /\ ledger' = ledger \cup {e}

Open(a, p) == \E root \in PlanId, t \in Target : Record(Opening(a, p, root, t))

Continue(a, p) == \E f \in ledger, t \in Target :
                    /\ f.depth < MaxDepth /\ t # f.target
                    /\ Record(Continuing(a, p, f, t))

Next == \E a \in ActionId, p \in PlanId : Open(a, p) \/ Continue(a, p)

Spec == Init /\ [][Next]_ledger

-----------------------------------------------------------------------------
\* The ledger holds entries.
TypeOK == ledger \subseteq Entry

\* No two committed actions share a plan, a place in a chain or an action id
\* (the unique keys of migrations/mysql/001_init.sql hold of what committed).
NoClash == \A e, f \in ledger : e # f => ~Clash(e, f)

\* A chain has no holes: below an action of depth d there is one committed
\* action at every smaller depth of the same root (LatestAction, which takes the
\* greatest depth, therefore returns the end of one line of history).
Gapless == \A e \in ledger : \A d \in 0..e.depth :
             \E f \in ledger : f.root = e.root /\ f.depth = d

\* Along a chain the target states alternate, so that two neighbouring actions
\* never compensate in the same direction.
Alternating == \A e, f \in ledger :
                 e.root = f.root /\ e.depth = f.depth + 1 => e.target # f.target

\* What the readers of a chain rely on.
Linear == NoClash /\ Gapless /\ Alternating
=============================================================================
