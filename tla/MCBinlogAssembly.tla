-------------------------- MODULE MCBinlogAssembly --------------------------
(***************************************************************************)
(* Instances of BinlogAssembly for TLC: the tables orders and items of     *)
(* users; memory, a table that is not InnoDB; the table action_markers;    *)
(* unredo_other, another table of the system schemas.                      *)
(***************************************************************************)
EXTENDS BinlogAssembly, TLC

CONSTANTS orders, items, memory, action_markers, unredo_other, i1, i2, big, id1, id2

Sizes == i1 :> 1 @@ i2 :> 1 @@ big :> 5 @@ id1 :> 1 @@ id2 :> 1

Ins(t, v)    == [table |-> t, op |-> "insert", rows |-> <<[before |-> None, after |-> v]>>]
Upd(t, v, w) == [table |-> t, op |-> "update", rows |-> <<[before |-> v, after |-> w]>>]
Del(t, v, w) == [table |-> t, op |-> "delete",
                 rows |-> <<[before |-> v, after |-> None], [before |-> w, after |-> None]>>]
Txn(how, stmts) == [how |-> how, joined |-> FALSE, stmts |-> stmts]

\* One small transaction of two tables, a compensation with its marker, one of three rows, one
\* with too many bytes in its first row, one on another engine, and a CREATE INDEX.
Ordinary == { Txn("commit", <<Upd(orders, i1, i2), Ins(items, i1)>>),
              Txn("commit", <<Ins(orders, i2), Ins(action_markers, id1)>>),
              Txn("commit", <<Del(orders, i1, i2), Upd(items, i2, i1)>>),
              Txn("commit", <<Ins(items, big), Ins(action_markers, id2), Ins(items, i2)>>),
              Txn("autocommit", <<Ins(memory, i1)>>),
              Txn("ddl", <<>>) }

ASSUME \A w \in Ordinary : Plain(w)

OneRow == Txn("commit", <<Ins(orders, i1), Ins(unredo_other, i1)>>)

Prepared     == { OneRow, Txn("xa_prepare", <<Upd(orders, i1, i2)>>) }
Selected     == { OneRow, Txn("create_select", <<Ins(items, i1)>>) }
Joined       == { OneRow, [how |-> "commit", joined |-> TRUE,
                           stmts |-> <<Upd(orders, i1, i2), Upd(items, i1, i2)>>] }
OtherEngine  == { OneRow, Txn("autocommit", <<Ins(memory, i1)>>) }
OnlyOneRow   == { OneRow }
=============================================================================
