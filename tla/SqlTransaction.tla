--------------------------- MODULE SqlTransaction ---------------------------
(***************************************************************************)
(* What SQL promises one client about one table: a transaction, nested     *)
(* savepoints in it, and that ROLLBACK TO brings back the table as it was  *)
(* when the savepoint was set.  The contract is the comments on            *)
(* sqlite3BtreeSavepoint and sqlite3BtreeClearTable in btree.c; the        *)
(* Btree of prolly_btree.c, module Savepoints, is to implement it.         *)
(***************************************************************************)
EXTENDS Naturals, Sequences

CONSTANTS Keys, Vals, NoRow

VARIABLES rows,     \* the table as the client sees it
          durable,  \* the table as of the last commit
          marks,    \* the table at each savepoint set and not yet gone
          open      \* a transaction is open

vars == <<rows, durable, marks, open>>

Table == [Keys -> Vals \cup {NoRow}]
NoRows == [k \in Keys |-> NoRow]

Init == /\ rows = NoRows
        /\ durable = NoRows
        /\ marks = <<>>
        /\ open = FALSE

Begin == /\ ~open
         /\ open' = TRUE
         /\ UNCHANGED <<rows, durable, marks>>

\* one row is written or deleted
Write(k, v) == /\ open
               /\ rows' = [rows EXCEPT ![k] = v]
               /\ UNCHANGED <<durable, marks, open>>

\* DELETE without WHERE
DeleteAll == /\ open
             /\ rows' = NoRows
             /\ UNCHANGED <<durable, marks, open>>

Mark == /\ open
        /\ marks' = Append(marks, rows)
        /\ UNCHANGED <<rows, durable, open>>

\* RELEASE takes the savepoint and those set after it away
Release(i) == /\ marks' = SubSeq(marks, 1, i - 1)
              /\ UNCHANGED <<rows, durable, open>>

\* ROLLBACK TO keeps the savepoint; a statement that fails drops its own
RollbackTo(i) == /\ rows' = marks[i]
                 /\ marks' = SubSeq(marks, 1, i)
                 /\ UNCHANGED <<durable, open>>

Undo == /\ marks # <<>>
        /\ rows' = marks[Len(marks)]
        /\ marks' = SubSeq(marks, 1, Len(marks) - 1)
        /\ UNCHANGED <<durable, open>>

\* ROLLBACK TO the savepoint that began the transaction
RollbackAll == /\ open
               /\ rows' = durable
               /\ marks' = <<>>
               /\ UNCHANGED <<durable, open>>

Commit == /\ open
          /\ durable' = rows
          /\ open' = FALSE
          /\ marks' = <<>>
          /\ UNCHANGED rows

Rollback == /\ open
            /\ rows' = durable
            /\ open' = FALSE
            /\ marks' = <<>>
            /\ UNCHANGED durable

Next == \/ Begin \/ DeleteAll \/ Mark \/ Undo \/ RollbackAll \/ Commit \/ Rollback
        \/ \E k \in Keys, v \in Vals \cup {NoRow} : Write(k, v)
        \/ \E i \in 1..Len(marks) : Release(i) \/ RollbackTo(i)

Spec == Init /\ [][Next]_vars

=============================================================================
