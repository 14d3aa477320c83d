--------------------------- MODULE MCApplyProtocol --------------------------
(***************************************************************************)
(* Instances of ApplyProtocol for TLC.                                     *)
(***************************************************************************)
EXTENDS ApplyProtocol, TLC

CONSTANTS k1, k2, v1, v2

\* The source transaction updated row k1 and deleted row k2: its revert inserts and updates,
\* its reapply updates and deletes.
TwoRows == << [key |-> k1, before |-> v1, after |-> v2], [key |-> k2, before |-> v1, after |-> None] >>
TwoRowsApplied == k1 :> v2 @@ k2 :> None

\* The source transaction deleted row k1.
OneDelete == << [key |-> k1, before |-> v1, after |-> None] >>
OneDeleteApplied == k1 :> None

Interchangeable == Permutations(Run) \cup Permutations(PlanId)
=============================================================================
