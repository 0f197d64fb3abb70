----------------------------- MODULE Savepoints -----------------------------
(***************************************************************************)
(* How the Btree of DoltLite undoes a part of a transaction.  A table is a *)
(* tree (root) and a buffer of edits that are not in the tree yet (a       *)
(* ProllyMutMap); an edit knows the savepoint level at which it was made   *)
(* and an undo log knows what it replaced.  A savepoint keeps the root of  *)
(* the table, and, when the buffer is flushed into the tree while the      *)
(* savepoint is open, the buffer as it was.  SQLite does not tell the      *)
(* Btree of a SAVEPOINT: the Btree catches up with SQLite's count at the   *)
(* next write (syncSavepoints).                                            *)
(*                                                                         *)
(* One connection and one table; tables share the stack of savepoints and  *)
(* nothing else.  The levels are those decodeLevel returns: levelBase,     *)
(* which renumbers all edits at once, is applied to them instead.          *)
(***************************************************************************)
EXTENDS Integers, Sequences, FiniteSets, SequencesExt, FiniteSetsExt

CONSTANTS Keys, Vals, NoRow,
          DrainLimit,  \* edits a buffer holds before it is flushed
                       \* (PROLLY_MUTMAP_PENDING_FLUSH_LIMIT)
          MaxDepth,    \* bound: savepoints set at a time
          MaxSteps,    \* bound: statements the client runs
          Habits       \* what the client does that the Btree cannot cope with

LateRollback == "ROLLBACK TO a savepoint that nothing was written since"
LateClear == "DELETE without WHERE over edits, or first after a SAVEPOINT"
OuterRelease == "RELEASE of the outermost savepoint and others with it"
OpenCommit == "COMMIT with savepoints set"

ASSUME ClientAssumption ==
  /\ MaxDepth \in Nat /\ MaxSteps \in Nat
  /\ Habits \subseteq {LateRollback, LateClear, OuterRelease, OpenCommit}

VARIABLES bt,         \* the Btree of the connection
          sql,        \* SQLite's view of transaction and savepoints
          committed,  \* the table committedCatalogHash names
          marks,      \* history: the table at each savepoint and statement
          steps       \* statements run so far

vars == <<bt, sql, committed, marks, steps>>

Row == Vals \cup {NoRow}
Table == [Keys -> Row]
NoRows == [k \in Keys |-> NoRow]

\* ProllyMutMapEntry: NoRow as val is a delete; NoEdit is no entry
NoEdit == [val |-> NoRow, born |-> -1]
\* an undo record whose entry is gone (an entryIdx of -1)
NoEntry == -1
NoMap == [live |-> FALSE, edits |-> [k \in Keys |-> NoEdit], undo |-> <<>>, level |-> 0]

Level == 0..MaxDepth + 1
Edit == [val : Row, born : Level] \cup {NoEdit}
UndoRec == [level : Level, key : Keys, val : Row, born : Level]
Map == [live : BOOLEAN, edits : [Keys -> Edit], undo : Seq(UndoRec), level : Level]
Savepoint == [root : Table, snap : Map]

\* No edit and no undo record claims a level that is not open: it would be
\* undone by a rollback to a savepoint set after it (prolly_mutmap.c, born and
\* level; ensureMutMap and prollyMutMapReleaseSavepoint keep them in step with
\* nSavepoint).  No undo record is left that has lost its entry: the next
\* rollback would look it up at -1 (aMap in prollyMutMapRollbackToSavepoint).
TypeOK == /\ bt \in [root : Table, pending : Map, stack : Seq(Savepoint), write : BOOLEAN]
          /\ Len(bt.stack) <= MaxDepth + 1
          /\ sql \in [auto : BOOLEAN, txn : BOOLEAN, depth : 0..MaxDepth, stmt : {0, 1}]
          /\ committed \in Table
          /\ marks \in Seq(Table)
          /\ Len(marks) = sql.depth + sql.stmt
          /\ steps \in 0..MaxSteps
          /\ bt.pending.live => bt.pending.level = Len(bt.stack)
          /\ \A k \in Keys : bt.pending.edits[k].born <= Len(bt.stack)
          /\ \A i \in DOMAIN bt.pending.undo : bt.pending.undo[i].level <= Len(bt.stack)

Idle == [auto |-> TRUE, txn |-> FALSE, depth |-> 0, stmt |-> 0]

Init == /\ bt = [root |-> NoRows, pending |-> NoMap, stack |-> <<>>, write |-> FALSE]
        /\ sql = Idle
        /\ committed = NoRows
        /\ marks = <<>>
        /\ steps = 0

-----------------------------------------------------------------------------
(* The buffer of edits (prolly_mutmap.c).                                  *)

Edited(m) == {k \in Keys : m.edits[k] # NoEdit}
Apply(m, table) == [k \in Keys |-> IF k \in Edited(m) THEN m.edits[k].val ELSE table[k]]

\* mutant: an edit that replaces one of an outer level forgets it
PutUnlogged(m, k, v) == [m EXCEPT !.edits[k] = [val |-> v, born |-> m.level]]

\* prollyMutMapInsert, prollyMutMapDelete: an edit that replaces one of an
\* outer level leaves it in the undo log; a delete of a delete changes nothing
Put(m, k, v) ==
  LET old == m.edits[k] IN
  IF k \in Edited(m) /\ old.val = NoRow /\ v = NoRow THEN m
  ELSE [m EXCEPT !.edits[k] = [val |-> v, born |-> m.level],
                 !.undo = IF k \in Edited(m) /\ old.born < m.level
                          THEN Append(@, [level |-> m.level, key |-> k,
                                          val |-> old.val, born |-> old.born])
                          ELSE @]

\* the undo records that a rollback to a level leaves alone
Kept(m, level) == Max({0} \cup {i \in DOMAIN m.undo : m.undo[i].level < level})

\* the edits with the undo log applied backwards: the oldest record counts
Undone(m, level) ==
  [k \in Keys |->
     LET recs == {i \in DOMAIN m.undo : i > Kept(m, level) /\ m.undo[i].key = k} IN
     IF recs = {} THEN m.edits[k]
     ELSE [val |-> m.undo[Min(recs)].val, born |-> m.undo[Min(recs)].born]]

\* prollyMutMapRollbackToSavepoint: undo, then drop the edits of the level;
\* an undo record of a dropped edit loses its entry
RollbackMap(m, level) ==
  LET edits == Undone(m, level)
      Dropped(k) == edits[k].born >= level
  IN [m EXCEPT !.edits = [k \in Keys |-> IF Dropped(k) THEN NoEdit ELSE edits[k]],
               !.undo = [i \in 1..Kept(m, level) |->
                           [m.undo[i] EXCEPT !.key = IF Dropped(@) THEN NoEntry ELSE @]],
               !.level = level - 1]

\* mutant: levelBase goes by one more for the edits outside savepoints as well
LoweredTooFar(b) == b - 1

Lowered(b) == IF b > 0 THEN b - 1 ELSE b
Capped(b, level) == IF b >= level THEN level - 1 ELSE b

\* prollyMutMapReleaseSavepoint: the outermost level goes by one more in
\* levelBase, which lowers every edit by one; an inner one joins the level below
ReleaseMap(m, level) ==
  IF level = 1
  THEN [m EXCEPT !.edits = [k \in Keys |-> [m.edits[k] EXCEPT !.born = Lowered(@)]],
                 !.undo = <<>>,
                 !.level = 0]
  ELSE [m EXCEPT !.edits = [k \in Keys |-> [m.edits[k] EXCEPT !.born = Capped(@, level)]],
                 !.undo = [i \in DOMAIN @ |-> [m.undo[i] EXCEPT !.level = Capped(@, level)]],
                 !.level = level - 1]

\* allocEmptyPendingLike, and prollyMutMapClear: the level stays
Emptied(m) == [m EXCEPT !.edits = NoMap.edits, !.undo = <<>>]

-----------------------------------------------------------------------------
(* The Btree (prolly_btree.c); b is a value of bt.                         *)

Contents(b) == Apply(b.pending, b.root)

\* pushSavepoint, until there are n
Pushed(b, n) ==
  LET missing == [i \in 1..(n - Len(b.stack)) |-> [root |-> b.root, snap |-> NoMap]] IN
  IF n <= Len(b.stack) THEN b
  ELSE [b EXCEPT !.stack = @ \o missing,
                 !.pending = IF @.live THEN [@ EXCEPT !.level = n] ELSE @]

\* sqlite3BtreeBeginTrans(p, 1): a first write catches up with the savepoints
BeginWrite(b) == IF b.write THEN b ELSE [Pushed(b, sql.depth) EXCEPT !.write = TRUE]

\* ensureMutMap
Buffered(b) ==
  IF b.pending.live THEN b
  ELSE [b EXCEPT !.pending = [NoMap EXCEPT !.live = TRUE, !.level = Len(b.stack)]]

\* snapshotPendingForFlush: the innermost savepoint takes the buffer, unless it
\* has one from an earlier flush
Captures(b) == b.stack # <<>> /\ ~Last(b.stack).snap.live

\* flushMutMap and prollyBtCursorCount
Flushed(b) ==
  IF Edited(b.pending) = {} THEN b
  ELSE [b EXCEPT !.root = Contents(b),
                 !.pending = Emptied(@),
                 !.stack = IF Captures(b)
                           THEN [@ EXCEPT ![Len(@)].snap = b.pending] ELSE @]

\* flushAllPending at the commit: a buffer that no savepoint took is freed
FlushedForCommit(b) ==
  IF Edited(b.pending) # {} /\ ~Captures(b)
  THEN [b EXCEPT !.root = Contents(b), !.pending = NoMap]
  ELSE Flushed(b)

\* mutMapShouldDrain
Drained(b) ==
  IF Cardinality(Edited(b.pending)) >= DrainLimit THEN Flushed(b) ELSE b

\* prollyBtCursorInsert, and with NoRow prollyBtCursorDelete
Written(b, k, v) ==
  LET ready == Buffered(Pushed(BeginWrite(b), sql.depth + sql.stmt)) IN
  Drained([ready EXCEPT !.pending = Put(@, k, v)])

\* restoreFromCommitted: the catalog is read anew, without buffers
Restored(b) == [b EXCEPT !.root = committed, !.pending = NoMap]

\* mutant: the buffer of the last flush instead of the first
LastSnap(b, i) ==
  LET taken == {j \in i..Len(b.stack) : b.stack[j].snap.live} IN
  IF taken = {} THEN b.pending ELSE b.stack[Max(taken)].snap

\* findPendingSnapshot: what the buffer was at the first flush since savepoint i
FirstSnap(b, i) ==
  LET taken == {j \in i..Len(b.stack) : b.stack[j].snap.live} IN
  IF taken = {} THEN b.pending ELSE b.stack[Min(taken)].snap

\* rollbackNamedSavepoint; the savepoint itself goes as well, and is pushed
\* again by the next write
RolledBack(b, i) ==
  LET m == FirstSnap(b, i) IN
  [b EXCEPT !.root = b.stack[i].root,
            !.pending = IF m.live THEN RollbackMap(m, i) ELSE m,
            !.stack = SubSeq(@, 1, i - 1)]

\* releaseSavepointsFrom with inheritPendingSnapshots
Inherited(b, i) ==
  LET taken == {j \in i..Len(b.stack) : b.stack[j].snap.live} IN
  IF i = 1 \/ taken = {} THEN SubSeq(b.stack, 1, i - 1)
  ELSE [SubSeq(b.stack, 1, i - 1) EXCEPT ![i - 1].snap =
          IF @.live THEN @ ELSE b.stack[Min(taken)].snap]

Released(b, i) ==
  IF i > Len(b.stack) THEN b
  ELSE [b EXCEPT !.pending = IF @.live THEN ReleaseMap(@, i) ELSE @,
                 !.stack = Inherited(b, i)]

\* prollyBtreeSavepoint(SAVEPOINT_ROLLBACK): a savepoint that was not pushed is
\* taken for the transaction
Reverted(b, i) ==
  IF ~b.write THEN b
  ELSE IF i <= Len(b.stack) THEN RolledBack(b, i)
  ELSE Restored(b)

-----------------------------------------------------------------------------
(* SQL statements.                                                         *)

Free == ~sql.auto /\ sql.stmt = 0
May(habit) == habit \in Habits

\* BEGIN, or a SAVEPOINT that begins the transaction
Begin(txn) ==
  /\ sql.auto
  /\ sql' = [Idle EXCEPT !.auto = FALSE, !.txn = txn]
  /\ UNCHANGED <<bt, committed, marks>>

\* OP_Savepoint: SQLite counts, the Btree is not told
SetSavepoint ==
  /\ Free
  /\ sql.depth < MaxDepth
  /\ sql' = [sql EXCEPT !.depth = @ + 1]
  /\ marks' = Append(marks, Contents(bt))
  /\ UNCHANGED <<bt, committed>>

Insert(k, v) ==
  /\ ~sql.auto
  /\ bt' = Written(bt, k, v)
  /\ UNCHANGED <<sql, committed, marks>>

Delete(k) ==
  /\ ~sql.auto
  /\ Contents(bt)[k] # NoRow
  /\ bt' = Written(bt, k, NoRow)
  /\ UNCHANGED <<sql, committed, marks>>

\* OP_Clear: the tree is emptied; neither savepoints nor edits are looked at
DeleteAll ==
  /\ Free
  /\ May(LateClear) \/ (Edited(bt.pending) = {} /\ (bt.write => sql.depth <= Len(bt.stack)))
  /\ bt' = [BeginWrite(bt) EXCEPT !.root = NoRows]
  /\ UNCHANGED <<sql, committed, marks>>

\* SELECT count(*)
Count ==
  /\ ~sql.auto
  /\ Edited(bt.pending) # {}
  /\ bt' = Flushed(bt)
  /\ UNCHANGED <<sql, committed, marks>>

\* a statement that may fail half way opens a savepoint of its own
\* (prollyBtreeBeginStmt)
BeginStmt ==
  /\ Free
  /\ bt' = Pushed(BeginWrite(bt), sql.depth + 1)
  /\ sql' = [sql EXCEPT !.stmt = 1]
  /\ marks' = Append(marks, Contents(bt))
  /\ UNCHANGED committed

\* vdbeCloseStatement
EndStmt ==
  /\ sql.stmt = 1
  /\ bt' = Released(bt, sql.depth + 1)
  /\ sql' = [sql EXCEPT !.stmt = 0]
  /\ marks' = Front(marks)
  /\ UNCHANGED committed

FailStmt ==
  /\ sql.stmt = 1
  /\ bt' = Released(Reverted(bt, sql.depth + 1), sql.depth + 1)
  /\ sql' = [sql EXCEPT !.stmt = 0]
  /\ marks' = Front(marks)
  /\ UNCHANGED committed

RollbackTo(i) ==
  /\ Free
  /\ May(LateRollback) \/ (bt.write => i <= Len(bt.stack))
  /\ bt' = Reverted(bt, i)
  /\ sql' = [sql EXCEPT !.depth = i]
  /\ marks' = SubSeq(marks, 1, i)
  /\ UNCHANGED committed

Release(i) ==
  /\ Free
  /\ May(OuterRelease) \/ (i = 1 => sql.depth = 1)
  /\ bt' = IF bt.write THEN Released(bt, i) ELSE bt
  /\ sql' = [sql EXCEPT !.depth = i - 1]
  /\ marks' = SubSeq(marks, 1, i - 1)
  /\ UNCHANGED committed

\* ROLLBACK TO the savepoint that began the transaction (rollbackAllSavepoints)
RollbackAll ==
  /\ Free
  /\ sql.txn
  /\ bt' = IF bt.write THEN [Restored(bt) EXCEPT !.stack = <<>>] ELSE bt
  /\ sql' = [sql EXCEPT !.depth = 0]
  /\ marks' = <<>>
  /\ UNCHANGED committed

\* COMMIT, or RELEASE of the savepoint that began the transaction
Commit ==
  /\ Free
  /\ May(OpenCommit) \/ sql.depth = 0
  /\ bt' = IF bt.write THEN [FlushedForCommit(bt) EXCEPT !.stack = <<>>, !.write = FALSE]
                       ELSE bt
  /\ committed' = IF bt.write THEN Contents(bt) ELSE committed
  /\ sql' = Idle
  /\ marks' = <<>>

\* ROLLBACK (prollyBtreeRollback)
Rollback ==
  /\ ~sql.auto
  /\ bt' = IF bt.write THEN [Restored(bt) EXCEPT !.stack = <<>>, !.write = FALSE] ELSE bt
  /\ sql' = Idle
  /\ marks' = <<>>
  /\ UNCHANGED committed

Statement ==
  \/ \E txn \in BOOLEAN : Begin(txn)
  \/ \E k \in Keys, v \in Vals : Insert(k, v)
  \/ \E k \in Keys : Delete(k)
  \/ \E i \in 1..sql.depth : RollbackTo(i) \/ Release(i)
  \/ SetSavepoint \/ DeleteAll \/ Count
  \/ BeginStmt \/ EndStmt \/ FailStmt
  \/ RollbackAll \/ Commit \/ Rollback

Next == /\ steps < MaxSteps
        /\ steps' = steps + 1
        /\ Statement

Spec == Init /\ [][Next]_vars

-----------------------------------------------------------------------------
(* Properties.                                                             *)

\* Whatever has been written, flushed, released and rolled back since, a
\* rollback to any pushed savepoint or to the start of the statement would
\* bring back the table as it was then (rollbackNamedSavepoint).
RollbackRestores ==
  bt.write => \A i \in 1..Len(bt.stack) : Contents(RolledBack(bt, i)) = marks[i]

Sql == INSTANCE SqlTransaction WITH
         rows <- Contents(bt), durable <- committed, open <- ~sql.auto

\* each statement is the one of its name: doing nothing instead is no excuse
AsSql ==
  /\ \A k \in Keys, v \in Vals : Insert(k, v) => Sql!Write(k, v)
  /\ \A k \in Keys : Delete(k) => Sql!Write(k, NoRow)
  /\ \A i \in 1..sql.depth : RollbackTo(i) => Sql!RollbackTo(i)
  /\ \A i \in 1..sql.depth : Release(i) => Sql!Release(i)
  /\ DeleteAll => Sql!DeleteAll
  /\ FailStmt => Sql!Undo
  /\ EndStmt => Sql!Release(Len(marks))
  /\ RollbackAll => Sql!RollbackAll
  /\ Commit => Sql!Commit
  /\ Rollback => Sql!Rollback

\* The Btree gives one client the transactions and savepoints of SQL, statement
\* for statement (sqlite3BtreeSavepoint, sqlite3BtreeClearTable).
ImplementsSql == Sql!Spec /\ [][AsSql]_vars


=============================================================================
