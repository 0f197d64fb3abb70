-------------------------------- MODULE Merge --------------------------------
(***************************************************************************)
(* dolt_merge of a branch (f) into main by one session, the three-way diff *)
(* of the rows it is built on, and what becomes of conflicts: resolution,  *)
(* dolt_commit, abort, rollback, close, crash.                             *)
(*                                                                         *)
(* There is one table with rows of two columns and one index.  A session   *)
(* has a working state; the file has the one that was persisted last; and  *)
(* the Btree remembers the one from the start of its write transaction,    *)
(* which a rollback brings back, in the session and in the file.  Branch   *)
(* tips are in the file at once.  dolt_commit is dolt_commit -A, so that   *)
(* the staged catalog is not a state of its own.                           *)
(***************************************************************************)
EXTENDS Ancestry, FiniteSets, Sequences, FiniteSetsExt

CONSTANTS Keys,        \* a set of numbers: rows are in the order of their keys
          Cells,       \* the values of a column
          Bases, Ours, Theirs,  \* the tables the branches start with
          Indexed,     \* the columns of the index
          Updates,     \* the rows users write
          MaxCommits,  \* bound: commits
          MaxUpdates,  \* bound: statements that update a row
          Habits       \* what users do that the code cannot cope with

HurryOn == "no statement that reads right after dolt_conflicts_resolve"
RollBackMerge == "ROLLBACK after a dolt_merge that committed"
AbortLate == "dolt_merge --abort in a transaction that has written"

Columns == 1..2
NoRow == <<>>
Row == [Columns -> Cells] \cup {NoRow}
Table == [Keys -> Row]

ASSUME MergeAssumption ==
  /\ Keys \subseteq Nat /\ Cells \subseteq Nat /\ Indexed \subseteq Columns
  /\ Bases \cup Ours \cup Theirs \subseteq Table /\ Updates \subseteq Row
  /\ MaxCommits \in Nat /\ MaxUpdates \in Nat
  /\ Habits \subseteq {HurryOn, RollBackMerge, AbortLate}

VARIABLES commits,    \* [parents, rows, index] of every commit
          tip,        \* the branch tips, main and f
          sess,       \* the session's working state
          disk,       \* main's working set in the file
          committed,  \* the working state a rollback restores
          tx,         \* none, open (BEGIN), plain (BEGIN, and has written),
                      \* left (a write transaction nobody has ended)
          merge,      \* the dolt_merge that is running
          updates,
          want,       \* history: the rows and conflicts as users were told
          saved,      \* history: the same if the transaction does not commit
          spoiled     \* history: a merge with conflicts was kept

vars == <<commits, tip, sess, disk, committed, tx, merge, updates, want, saved, spoiled>>

\* mutant: every column is indexed
EntryOfRow(k, row) == IF row = NoRow THEN {} ELSE {<<row, k>>}
Entry(k, row) == IF row = NoRow THEN {} ELSE {<<[c \in Indexed |-> row[c]], k>>}
Entries(rows) == UNION {Entry(k, rows[k]) : k \in Keys}

NoConflict == [k \in {} |-> NoRow]
Clean(c) == [rows |-> commits[c].rows, index |-> commits[c].index,
             conf |-> NoConflict, merging |-> FALSE]

Told(work) == [rows |-> work.rows, conf |-> work.conf]

NoMerge == [running |-> FALSE, base |-> 1, left |-> {}, right |-> {},
            edits |-> NoConflict, conf |-> NoConflict]

Partial(S) == UNION {[D -> S] : D \in SUBSET Keys}
WorkType == [rows : Table, conf : Partial(Row), merging : BOOLEAN,
             index : SUBSET ([Indexed -> Cells] \X Keys)]

\* Every commit is made of ones made before it.
TypeOK ==
  /\ \A c \in DOMAIN commits : /\ commits[c].rows \in Table
                               /\ commits[c].parents \subseteq 1..(c - 1)
  /\ tip \in [{"main", "f"} -> DOMAIN commits]
  /\ {sess, disk, committed} \subseteq WorkType
  /\ tx \in {"none", "open", "plain", "left"}
  /\ merge.left \cup merge.right \subseteq Keys
  /\ merge.edits \in Partial(Row) /\ merge.conf \in Partial(Row)
  /\ updates \in 0..MaxUpdates /\ spoiled \in BOOLEAN
  /\ Told(want) = want /\ saved.tip \in DOMAIN commits

Init ==
  \E b \in Bases, o \in Ours, t \in Theirs :
    /\ commits = [c \in 1..3 |-> LET rows == <<b, o, t>>[c] IN
         [parents |-> IF c = 1 THEN {} ELSE {1}, rows |-> rows, index |-> Entries(rows)]]
    /\ tip = [main |-> IF o = b THEN 1 ELSE 2, f |-> IF t = b THEN 1 ELSE 3]
    /\ sess = Clean(tip.main) /\ disk = sess /\ committed = sess
    /\ tx = "none" /\ merge = NoMerge /\ updates = 0
    /\ want = Told(sess) /\ saved = [work |-> want, tip |-> tip.main] /\ spoiled = FALSE

May(habit) == habit \in Habits
Idle == ~merge.running
Explicit == tx \in {"open", "plain"}
\* the resolution that left its transaction behind has been read or written over
Settled == tx # "left" \/ May(HurryOn)

\* what users now believe: for good, or until the transaction is rolled back
Believe(w) == want' = w /\ saved' = IF Explicit THEN saved ELSE [work |-> w, tip |-> tip.main]
BelieveForGood(w) == want' = w /\ saved' = [saved EXCEPT !.work = w]

-----------------------------------------------------------------------------
(* Statements and transactions.                                            *)

\* the file has the state, and no transaction is open
AllIs(work) == sess' = work /\ disk' = work /\ committed' = work /\ tx' = "none"

\* the end of a statement that writes: its own commit unless there is a BEGIN
Write(work) ==
  IF Explicit THEN /\ sess' = work /\ tx' = "plain"
                   /\ UNCHANGED <<disk, committed>>
              ELSE AllIs(work)

Begin ==
  /\ Idle /\ ~Explicit /\ Settled
  /\ tx' = IF tx = "left" THEN "plain" ELSE "open"
  /\ UNCHANGED <<commits, tip, sess, disk, committed, merge, updates, want, saved, spoiled>>

Commit ==
  /\ Idle /\ Explicit
  /\ AllIs(sess)
  /\ saved' = [work |-> want, tip |-> tip.main]
  /\ UNCHANGED <<commits, tip, merge, updates, want, spoiled>>

\* ROLLBACK, and a connection that is closed with its transaction open: the
\* Btree writes the remembered state over the file
Leave ==
  /\ Idle /\ tx # "none" /\ Settled
  /\ saved.tip = tip.main \/ May(RollBackMerge)
  /\ AllIs(committed)
  /\ want' = saved.work /\ saved' = [saved EXCEPT !.tip = tip.main]
  /\ UNCHANGED <<commits, tip, merge, updates, spoiled>>

\* the process is killed, and another one opens the file
Crash ==
  /\ tx # "none" \/ ~Idle
  /\ AllIs(disk)
  /\ merge' = NoMerge
  /\ want' = saved.work /\ saved' = [saved EXCEPT !.tip = tip.main]
  /\ UNCHANGED <<commits, tip, updates, spoiled>>

\* a statement that reads ends a transaction that was left open
Read ==
  /\ Idle /\ tx = "left"
  /\ AllIs(sess)
  /\ UNCHANGED <<commits, tip, merge, updates, want, saved, spoiled>>

Update(k, row) ==
  /\ Idle /\ updates < MaxUpdates /\ sess.rows[k] # row
  /\ Write([sess EXCEPT !.rows[k] = row,
                         !.index = (@ \ Entry(k, sess.rows[k])) \cup Entry(k, row)])
  /\ Believe([want EXCEPT !.rows[k] = row])
  /\ updates' = updates + 1
  /\ UNCHANGED <<commits, tip, merge, spoiled>>

-----------------------------------------------------------------------------
(* dolt_merge: the common ancestor, the three-way diff row by row, and the  *)
(* end of it.                                                              *)

Past(c) == Histories([x \in DOMAIN commits |-> commits[x].parents])[c]

\* a common ancestor that is not an ancestor of another one
Ancestor(a, b) ==
  LET common == Past(a) \cap Past(b)
  IN CHOOSE x \in common : \A y \in common \ {x} : x \notin Past(y)

Changed(from, to) == {k \in Keys : from[k] # to[k]}
Uncommitted == sess.rows # commits[tip.main].rows \/ sess.index # commits[tip.main].index

Behind == Ancestor(tip.main, tip.f) = tip.main   \* and can be fast-forwarded
Merged == tip.f \in Past(tip.main)               \* already up to date

\* main is at a new commit, and the file has it with the working state
Advanced(c, work, to) ==
  /\ tip' = [tip EXCEPT !.main = c]
  /\ sess' = work /\ disk' = work /\ tx' = to
  /\ committed' = IF to = "plain" THEN committed ELSE work

FastForward ==
  /\ Idle /\ Settled /\ ~Merged /\ ~Uncommitted /\ Behind
  /\ Advanced(tip.f, [Clean(tip.f) EXCEPT !.conf = sess.conf, !.merging = sess.merging],
              tx)
  /\ want' = [want EXCEPT !.rows = commits[tip.f].rows]
  /\ saved' = [work |-> want', tip |-> IF tx = "plain" THEN saved.tip ELSE tip.f]
  /\ UNCHANGED <<commits, merge, updates, spoiled>>

StartMerge ==
  /\ Idle /\ Settled /\ ~Merged /\ ~Uncommitted /\ ~Behind
  /\ Len(commits) < MaxCommits
  /\ LET b == Ancestor(tip.main, tip.f)
     IN merge' = [NoMerge EXCEPT !.running = TRUE, !.base = b,
                    !.left = Changed(commits[b].rows, commits[tip.main].rows),
                    !.right = Changed(commits[b].rows, commits[tip.f].rows)]
  /\ UNCHANGED <<commits, tip, sess, disk, committed, tx, updates, want, saved, spoiled>>

First(k, S) == k \in S /\ \A j \in S : k <= j
Set(f, k, row) == [j \in DOMAIN f \cup {k} |-> IF j = k THEN row ELSE f[j]]
Unmerged == UNCHANGED <<commits, tip, sess, disk, committed, tx, updates, want, saved, spoiled>>

\* the change that comes first is one of ours only: our row stays
EmitLeft(k) ==
  /\ First(k, merge.left) /\ First(k, merge.right \cup {k}) /\ k \notin merge.right
  /\ merge' = [merge EXCEPT !.left = @ \ {k}]
  /\ Unmerged

\* one of theirs only
EmitRight(k) ==
  /\ First(k, merge.right) /\ First(k, merge.left \cup {k}) /\ k \notin merge.left
  /\ merge' = [merge EXCEPT !.right = @ \ {k}, !.edits = Set(@, k, commits[tip.f].rows[k])]
  /\ Unmerged

\* tryCellMerge: the columns that one side has changed
CellsClash(b, o, t) == \E c \in Columns : b[c] # o[c] /\ b[c] # t[c] /\ o[c] # t[c]
\* mutant: theirs wins wherever the sides differ
CellsOfTheirs(b, o, t) == [c \in Columns |-> IF o[c] # t[c] THEN t[c] ELSE o[c]]
CellMerge(b, o, t) == [c \in Columns |-> IF b[c] # o[c] THEN o[c] ELSE t[c]]

\* both changed the row: alike, in different columns, or in conflict
EmitBoth(k) ==
  LET b == commits[merge.base].rows[k]
      o == commits[tip.main].rows[k]
      t == commits[tip.f].rows[k]
      rest == [merge EXCEPT !.left = @ \ {k}, !.right = @ \ {k}]
  IN /\ First(k, merge.left) /\ First(k, merge.right)
     /\ merge' = IF o = t THEN rest
                 ELSE IF NoRow \in {b, o, t} \/ CellsClash(b, o, t)
                 THEN [rest EXCEPT !.conf = Set(@, k, t)]
                 ELSE [rest EXCEPT !.edits = Set(@, k, CellMerge(b, o, t))]
     /\ Unmerged

Diffed == merge.running /\ merge.left \cup merge.right = {}

MergedRows == [k \in Keys |-> IF k \in DOMAIN merge.edits THEN merge.edits[k]
                              ELSE commits[tip.main].rows[k]]

\* mutant: what theirs removed stays
IndexesJoined == commits[tip.main].index \cup commits[tip.f].index

\* the index is merged as a tree of its own
MergedIndex ==
  LET base == commits[merge.base].index
      theirs == commits[tip.f].index
  IN (commits[tip.main].index \cup (theirs \ base)) \ (base \ theirs)

\* no conflict: the merge commit, of which a BEGIN keeps the old state to roll back to
MergeCommit ==
  /\ Diffed /\ merge.conf = NoConflict
  /\ commits' = Append(commits, [parents |-> {tip.main, tip.f},
                                 rows |-> MergedRows, index |-> MergedIndex])
  /\ Advanced(Len(commits'), [sess EXCEPT !.rows = MergedRows, !.index = MergedIndex],
              IF Explicit THEN "plain" ELSE "none")
  /\ want' = [want EXCEPT !.rows = MergedRows]
  /\ saved' = [work |-> want', tip |-> IF Explicit THEN saved.tip ELSE tip'.main]
  /\ merge' = NoMerge
  /\ UNCHANGED <<updates, spoiled>>

\* conflicts, in a transaction: they are kept with the rows that merge
KeepConflicts ==
  /\ Diffed /\ merge.conf # NoConflict /\ Explicit
  /\ Write([rows |-> MergedRows, index |-> MergedIndex, conf |-> merge.conf, merging |-> TRUE])
  /\ want' = [rows |-> MergedRows, conf |-> merge.conf]
  /\ merge' = NoMerge /\ spoiled' = TRUE
  /\ UNCHANGED <<commits, tip, updates, saved>>

\* conflicts, without: the merge is undone
UndoMerge ==
  /\ Diffed /\ merge.conf # NoConflict /\ ~Explicit
  /\ AllIs(sess)
  /\ merge' = NoMerge
  /\ UNCHANGED <<commits, tip, updates, want, saved, spoiled>>

-----------------------------------------------------------------------------
(* Conflicts, dolt_commit and abort.                                       *)

\* mutant: the resolution is in the session only
ResolveInSession(work) ==
  /\ Idle /\ sess.conf # NoConflict
  /\ sess' = [work EXCEPT !.conf = NoConflict] /\ disk' = disk
  /\ tx' = IF Explicit THEN "plain" ELSE "left"
  /\ Believe(Told(sess'))
  /\ UNCHANGED <<commits, tip, committed, merge, updates, spoiled>>

\* dolt_conflicts_resolve persists at once, in a write transaction it does
\* not end; their rows go to the table and not to its index
Resolve(work) ==
  /\ Idle /\ sess.conf # NoConflict
  /\ sess' = [work EXCEPT !.conf = NoConflict]
  /\ IF Explicit THEN tx' = "plain" /\ disk' = disk ELSE tx' = "left" /\ disk' = sess'
  /\ Believe(Told(sess'))
  /\ UNCHANGED <<commits, tip, committed, merge, updates, spoiled>>

ResolveOurs == Resolve(sess)
ResolveTheirs ==
  Resolve([sess EXCEPT !.rows = [k \in Keys |-> IF k \in DOMAIN sess.conf THEN sess.conf[k] ELSE @[k]]])

\* DELETE FROM dolt_conflicts_t
DropConflict(k) ==
  /\ Idle /\ k \in DOMAIN sess.conf
  /\ LET conf == [j \in DOMAIN sess.conf \ {k} |-> sess.conf[j]]
     IN Write([sess EXCEPT !.conf = conf]) /\ Believe([want EXCEPT !.conf = conf])
  /\ UNCHANGED <<commits, tip, merge, updates, spoiled>>

\* dolt_commit ends the transaction first; the COMMIT it sends to a session
\* that has none open, and was left with one in the Btree, rolls that back
Ended == IF tx = "left" THEN committed ELSE sess
\* mutant: nobody asks for conflicts
AnyChange == Ended.merging \/ Ended.rows # commits[tip.main].rows
Committable == /\ Ended.conf = NoConflict
               /\ \/ Ended.merging
                  \/ Ended.rows # commits[tip.main].rows \/ Ended.index # commits[tip.main].index

DoltCommit ==
  /\ Idle /\ Settled /\ Committable /\ Len(commits) < MaxCommits
  /\ commits' = Append(commits, [parents |-> {tip.main}, rows |-> Ended.rows, index |-> Ended.index])
  /\ Advanced(Len(commits'), [Ended EXCEPT !.merging = FALSE], "none")
  /\ want' = [want EXCEPT !.conf = NoConflict]
  /\ saved' = [work |-> want', tip |-> tip'.main]
  /\ UNCHANGED <<merge, updates, spoiled>>

RefuseCommit ==
  /\ Idle /\ Settled /\ ~Committable /\ tx # "none"
  /\ AllIs(Ended)
  /\ saved' = [work |-> want, tip |-> tip.main]
  /\ UNCHANGED <<commits, tip, merge, updates, want, spoiled>>

\* dolt_merge --abort persists main's tip, once with the conflicts and once
\* without; it begins no transaction, and one that has written can undo it
Abort ==
  /\ Idle /\ sess.merging /\ Settled
  /\ tx = "plain" /\ committed # Clean(tip.main) => May(AbortLate)
  /\ sess' = Clean(tip.main) /\ disk' = sess'
  /\ committed' = IF tx = "plain" THEN committed ELSE sess'
  /\ want' = Told(sess') /\ saved' = [saved EXCEPT !.work = want']
  /\ UNCHANGED <<commits, tip, tx, merge, updates, spoiled>>

CutAbort ==
  /\ Idle /\ sess.merging
  /\ AllIs([Clean(tip.main) EXCEPT !.conf = sess.conf, !.merging = TRUE])
  /\ want' = Told(sess') /\ saved' = [work |-> want', tip |-> tip.main]
  /\ UNCHANGED <<commits, tip, merge, updates, spoiled>>

\* another connection commits to f; a write transaction has the lock
CommitToF(k, row) ==
  /\ Idle /\ tx \in {"none", "open"} /\ Len(commits) < MaxCommits
  /\ commits[tip.f].rows[k] # row
  /\ LET rows == [commits[tip.f].rows EXCEPT ![k] = row]
     IN commits' = Append(commits, [parents |-> {tip.f}, rows |-> rows, index |-> Entries(rows)])
  /\ tip' = [tip EXCEPT !.f = Len(commits')]
  /\ UNCHANGED <<sess, disk, committed, tx, merge, updates, want, saved, spoiled>>

Next ==
  \/ Begin \/ Commit \/ Leave \/ Crash \/ Read
  \/ FastForward \/ StartMerge \/ MergeCommit \/ KeepConflicts \/ UndoMerge
  \/ ResolveOurs \/ ResolveTheirs \/ DoltCommit \/ RefuseCommit \/ Abort \/ CutAbort
  \/ \E k \in Keys : \/ EmitLeft(k) \/ EmitRight(k) \/ EmitBoth(k)
                     \/ DropConflict(k)
                     \/ \E row \in Updates : Update(k, row) \/ CommitToF(k, row)

Spec == Init /\ [][Next]_vars

-----------------------------------------------------------------------------
(* Properties.                                                             *)

\* A merged row has what each side has changed of it, and a row is in
\* conflict exactly when no row has both (rowMergeCallback over the stream of
\* prollyThreeWayDiff, for the rows the streams have passed).
Has(m, b, o, t) ==
  IF NoRow \in {m, b, o, t}
  THEN (o # b => m = o) /\ (t # b => m = t) /\ (o = b /\ t = b => m = b)
  ELSE \A c \in Columns : /\ o[c] # b[c] => m[c] = o[c]
                          /\ t[c] # b[c] => m[c] = t[c]
                          /\ o[c] = b[c] /\ t[c] = b[c] => m[c] = b[c]
MergesBoth ==
  merge.running =>
    \A k \in Keys \ (merge.left \cup merge.right) :
      LET b == commits[merge.base].rows[k]
          o == commits[tip.main].rows[k]
          t == commits[tip.f].rows[k]
      IN IF k \in DOMAIN merge.conf
         THEN MergedRows[k] = o /\ merge.conf[k] = t /\ ~\E m \in Row : Has(m, b, o, t)
         ELSE Has(MergedRows[k], b, o, t)

\* Merges without conflicts leave the index of the table as its rows say: an
\* index is merged as a tree of its own, beside the table (mergeCatalogPass1).
IndexAgrees ==
  Idle /\ ~spoiled => /\ sess.index = Entries(sess.rows)
                      /\ commits[tip.main].index = Entries(commits[tip.main].rows)

\* Users find the rows and the conflicts they have been told of: a merge, a
\* resolution, an abort and a commit that were answered stay, in the session
\* and over a close or a crash, and a transaction that ends otherwise leaves
\* what was there before it.
AsTold == Idle => Told(sess) = want

\* dolt_commit records the rows users have been told of, and never while one
\* of the conflicts they know is unresolved.
CommitsAsTold ==
  [][ Len(commits') > Len(commits) /\ tip'.main = Len(commits')
      /\ commits'[tip'.main].parents = {tip.main}
      => want.conf = NoConflict /\ commits'[tip'.main].rows = want.rows ]_vars
=============================================================================
