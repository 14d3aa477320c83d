----------------------------- MODULE MCTxnIndex -----------------------------
(***************************************************************************)
(* Instances of TxnIndex for TLC.                                          *)
(***************************************************************************)
EXTENDS TxnIndex, TLC

CONSTANTS b1, b2, u1, u2, u3, p1, p2, p3

\* p1 is built and updated twice in a row; u3 asks for an update in place.
Reads  == u1 :> p1 @@ u2 :> p2 @@ u3 :> p1
Writes == b1 :> p1 @@ u1 :> p2 @@ u2 :> p3 @@ u3 :> p1

\* Two builds are given the same output.
NoReads    == [u \in {} |-> p1]
SameOutput == b1 :> p1 @@ b2 :> p1
=============================================================================
