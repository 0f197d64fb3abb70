--------------------------- MODULE StatementIter ----------------------------
(***************************************************************************)
(* A prepared statement of the Node binding (src/statement.cpp) and the    *)
(* JavaScript iterators opened on it.  The statement has one SQLite cursor *)
(* and every iterate() an iterator, so run, get, all and iterate count a   *)
(* generation up, and an iterator of an older generation is invalid.  SQL  *)
(* parameters, row conversion and a closed database (SQLite keeps it open  *)
(* while a statement lives) are left out.                                  *)
(***************************************************************************)
EXTENDS Integers, Sequences

CONSTANTS Iters,    \* iterators a program opens
          Results,  \* rows the statement returns
          MaxRuns   \* bound: executions of the statement

ASSUME RunsAssumption == Results \in Nat /\ MaxRuns \in Nat

VARIABLES stmt,        \* rows stepped, and whether the cursor is open
          generation,  \* generation_
          iter,        \* iterator -> what its closure holds
          got          \* history: iterator -> rows it has returned

iterVars == <<stmt, generation, iter, got>>

Reset == [row |-> 0, active |-> FALSE]
NotYet == [opened |-> FALSE, generation |-> 0, done |-> FALSE]

IterTypeOK ==
  /\ stmt \in [row : 0..Results, active : BOOLEAN]
  /\ generation \in 0..MaxRuns
  /\ iter \in [Iters -> [opened : BOOLEAN, generation : 0..MaxRuns, done : BOOLEAN]]
  /\ \A i \in Iters : iter[i].generation <= generation
  /\ got \in [Iters -> Seq(1..Results)]

IterInit == /\ stmt = Reset
            /\ generation = 0
            /\ iter = [i \in Iters |-> NotYet]
            /\ got = [i \in Iters |-> <<>>]

\* mutant: SQLITE_DONE taken for a row
HasRowOrEnd == stmt.row <= Results
\* sqlite3_step: a row, and the cursor stays open; or the end, or an error
HasRow == stmt.row < Results
Step == [row |-> stmt.row + 1, active |-> TRUE]

\* mutant: an execution that opens no iterator leaves the generation alone
SameGeneration == generation
\* run, get, all and iterate all start with this and a reset
NextGeneration == generation + 1

-----------------------------------------------------------------------------
(* Calls on the statement                                                  *)

\* run, get and all step and reset within the call; a binding that fails comes
\* after the reset too
Run == /\ generation < MaxRuns
       /\ generation' = NextGeneration
       /\ stmt' = Reset
       /\ UNCHANGED <<iter, got>>

Iterate(i) == /\ ~iter[i].opened
              /\ generation < MaxRuns
              /\ generation' = generation + 1
              /\ stmt' = Reset
              /\ iter' = [iter EXCEPT ![i] = [opened |-> TRUE, generation |-> generation + 1,
                                              done |-> FALSE]]
              /\ UNCHANGED got

-----------------------------------------------------------------------------
(* Calls on an iterator                                                    *)

Current(i) == iter[i].generation = generation
Open(i) == iter[i].opened /\ ~iter[i].done
Finish(i) == iter' = [iter EXCEPT ![i].done = TRUE]

NextRow(i) == /\ Open(i)
              /\ Current(i)
              /\ HasRow
              /\ stmt' = Step
              /\ got' = [got EXCEPT ![i] = Append(@, Step.row)]
              /\ UNCHANGED <<generation, iter>>

\* no row: the end or an error, which may come instead of any row
NextLast(i) == /\ Open(i)
               /\ Current(i)
               /\ stmt' = Reset
               /\ Finish(i)
               /\ UNCHANGED <<generation, got>>

NextInvalid(i) == /\ Open(i)
                  /\ ~Current(i)
                  /\ Finish(i)
                  /\ UNCHANGED <<stmt, generation, got>>

\* mutants: an iterator that is done or stale resets too; none does
ResetsAlways(i) == TRUE
ResetsNever(i) == FALSE
\* the statement is reset only by the iterator that owns the cursor
Resets(i) == Open(i) /\ Current(i)

Return(i) == /\ iter[i].opened
             /\ stmt' = IF Resets(i) THEN Reset ELSE stmt
             /\ Finish(i)
             /\ UNCHANGED <<generation, got>>

IterNext == \/ Run
            \/ \E i \in Iters :
                 \/ Iterate(i)
                 \/ NextRow(i)
                 \/ NextLast(i)
                 \/ NextInvalid(i)
                 \/ Return(i)

IterSpec == IterInit /\ [][IterNext]_iterVars

-----------------------------------------------------------------------------

\* An iterator returns the rows of one execution, from the first on, each once,
\* whatever is run on its statement and whenever other iterators are returned.
RowsInOrder == \A i \in Iters : got[i] = [k \in 1..Len(got[i]) |-> k]

\* A cursor left open (it pins the connection's snapshot) belongs to an iterator
\* that can still end it.
NoOrphanCursor == stmt.active => \E i \in Iters : Open(i) /\ Current(i)
=============================================================================
