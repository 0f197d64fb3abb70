---------------------------- MODULE BranchCommit ----------------------------
(***************************************************************************)
(* Sessions that commit to one branch with dolt_commit (doltlite.c).  The  *)
(* branch has a tip and a working set that every SQL transaction reads and *)
(* replaces.  A session remembers the commit it takes for the tip (its     *)
(* head) and dolt_commit is optimistic: it builds the commit on that head, *)
(* then takes the lock and gives up if the tip is another commit.  But the *)
(* first query it makes under the lock releases the lock when it ends, and *)
(* the refs are replaced under another lock, without another look.         *)
(* dolt_add and dolt_reset --hard never look: between their last query and *)
(* their append, and between the two appends of dolt_reset --hard, they    *)
(* hold no lock.                                                           *)
(*                                                                         *)
(* Refs are read and replaced atomically here: that they can be, and when  *)
(* a commit of refs that were stored before is dropped, is what module     *)
(* ChunkStore is about.  A catalog is the set of rows in it; clients       *)
(* insert, and dolt_reset --hard takes back what is not committed, so a    *)
(* committed row that is gone has been lost.  Commits are numbered; two    *)
(* dolt_commits never make the same commit, because their messages differ. *)
(* All sessions run in autocommit mode.                                    *)
(***************************************************************************)
EXTENDS Integers, Sequences

CONSTANTS Sessions,    \* connections on the branch
          Rows,        \* rows a client may insert
          MaxCommits,  \* bound: commits made
          Habits       \* what clients do that the code does not cope with

ASSUME CommitsAssumption == MaxCommits \in Nat \ {0}
\* CommitTogether: a dolt_commit during the end of another's, or during another's
\* dolt_reset --hard; StoreTogether: an insert, dolt_add, dolt_reset or the end of
\* a dolt_commit during another's dolt_add or dolt_reset --hard; ResetBehind:
\* dolt_reset when others have gone on; StoreAgain: an insert or dolt_reset --hard
\* that makes a catalog another session wrote last and that has been replaced
\* since, or a dolt_add or dolt_reset that stores the refs of an earlier time while
\* the store reloads for no reason; AfterFailure: dolt_add or dolt_reset after a dolt_commit that failed
ASSUME HabitsAssumption ==
  Habits \subseteq {"CommitTogether", "StoreTogether", "ResetBehind", "StoreAgain",
                   "AfterFailure"}

VARIABLES commits,   \* commit -> parent and catalog
          branch,    \* what refs hold of the branch
          session,   \* session -> its Btree and its store's view of the file
          job,       \* session -> the function it is in, and what that stores
          asked      \* history: sessions refused since they last got an answer

vars == <<commits, branch, session, job, asked>>

Catalog == SUBSET Rows
CommitId == 1..MaxCommits
Commit == [parent : CommitId \cup {0}, cat : Catalog]

\* work, staged and head are the working set: the catalog SQL reads, the one the
\* next commit takes, and the head of the session that stored them, if it said
Branch == [tip : CommitId, work : Catalog, staged : Catalog, head : CommitId \cup {0}]

\* base is committedCatalogHash: no catalog or one.  tip is the branch's tip as
\* the store has it.  news: others have appended since the store last looked.
Session == [open : BOOLEAN, head : CommitId \cup {0}, cat : Catalog,
            base : SUBSET Catalog, staged : Catalog, tip : CommitId,
            news : BOOLEAN]

\* dolt_commit has built its commit and confirmed the head; dolt_add has staged
\* the catalog commit.cat; dolt_reset --hard to that catalog is resetting, and has
\* cleared the working set
Job == [stage : {"idle", "built", "confirmed", "staged", "resetting", "cleared"},
        amend : BOOLEAN, commit : Commit]

NoCommit == [parent |-> 0, cat |-> {}]
NewBranch == [tip |-> 1, work |-> {}, staged |-> {}, head |-> 1]
Closed == [open |-> FALSE, head |-> 0, cat |-> {}, base |-> {}, staged |-> {},
           tip |-> 1, news |-> FALSE]
Idle == [stage |-> "idle", amend |-> FALSE, commit |-> NoCommit]

TypeOK == /\ commits \in Seq(Commit) /\ Len(commits) \in CommitId
          /\ branch \in Branch
          /\ branch.tip \in 1..Len(commits) /\ branch.head \in 0..Len(commits)
          /\ session \in [Sessions -> Session]
          /\ \A s \in Sessions : /\ session[s].head \in IF session[s].open THEN 1..Len(commits) ELSE {0}
                                 /\ session[s].tip \in 1..Len(commits)
          /\ job \in [Sessions -> Job]
          /\ asked \subseteq Sessions

\* a database whose one commit holds the schema and no row
Init == /\ commits = <<NoCommit>>
        /\ branch = NewBranch
        /\ session = [s \in Sessions |-> Closed]
        /\ job = [s \in Sessions |-> Idle]
        /\ asked = {}

Free(s) == session[s].open /\ job[s].stage = "idle"
Committing(s) == job[s].stage \in {"built", "confirmed"}
Resetting(s) == job[s].stage \in {"resetting", "cleared"}

\* s is past the last refresh it is sure to make and has not stored yet
Storing(s) == job[s].stage = "staged" \/ Resetting(s)
Alone(s) == "StoreTogether" \in Habits \/ \A t \in Sessions \ {s} : ~Storing(t)

-----------------------------------------------------------------------------
(* The Btree's view.  p is a session[s].                                   *)

\* mutant: the staged catalog stays the session's
ReloadCatalogOnly(p) == [p EXCEPT !.cat = IF branch.work \in p.base THEN @ ELSE branch.work,
                                  !.tip = branch.tip, !.news = FALSE]

\* btreeReloadBranchWorkingState: the catalog is loaded unless it is the one
\* this connection last began or ended a write with; the staged catalog is
\* always taken over, and the head never is
ReloadWorkingState(p) ==
  [p EXCEPT !.cat = IF branch.work \in p.base THEN @ ELSE branch.work,
            !.staged = branch.staged,
            !.tip = branch.tip,
            !.news = FALSE]

\* what btreeRefreshFromDisk, which starts every statement, may make of p: a
\* store may also reload for no reason (HasMoved in module ChunkStore)
RefreshFromDisk(p) == {ReloadWorkingState(p)} \cup (IF p.news THEN {} ELSE {p})

\* ... and chunkStoreRefreshIfChanged, which leaves the Btree alone
StoreRefreshed(p) == IF p.news THEN [p EXCEPT !.tip = branch.tip, !.news = FALSE] ELSE p

\* Session s, now p, has appended refs with the branch b; the others' stores
\* find out when they next look at the file
Appended(s, p, b) == [t \in Sessions |->
                   IF t = s THEN [p EXCEPT !.tip = b.tip]
                   ELSE [session[t] EXCEPT !.news = session[t].open]]

-----------------------------------------------------------------------------
(* Statements of a session                                                 *)

\* mutants: the working set's head before the tip; the first refresh sets it
WorkingHead == IF branch.head = 0 THEN branch.tip ELSE branch.head
NoHeadYet == 0
\* sqlite3BtreeOpen looks at the working set's head only if there is no tip
HeadAtOpen == branch.tip

Open(s) ==
  /\ ~session[s].open
  /\ session' = [session EXCEPT ![s] = [open |-> TRUE, head |-> HeadAtOpen,
                                        cat |-> branch.work, base |-> {},
                                        staged |-> branch.staged, tip |-> branch.tip,
                                        news |-> FALSE]]
  /\ UNCHANGED <<commits, branch, job, asked>>

Close(s) ==
  /\ Free(s)
  /\ session' = [session EXCEPT ![s] = Closed]
  /\ UNCHANGED <<commits, branch, job, asked>>

Read(s) ==
  /\ Free(s)
  /\ \E p \in RefreshFromDisk(session[s]) : session' = [session EXCEPT ![s] = p]
  /\ UNCHANGED <<commits, branch, job, asked>>

\* another session will not load the catalog w, though it holds another one, or
\* will when it looks
Remembered(s, w) == \E t \in Sessions \ {s} :
                      w \in session[t].base /\ (session[t].cat # w \/ branch.work # w)

\* an autocommit INSERT holds the lock from its BEGIN to its COMMIT; a writer
\* reloads whether the file has grown or not, and stores what it holds
Insert(s, r) ==
  LET p == ReloadWorkingState(session[s])
      work == p.cat \cup {r}
  IN /\ Free(s) /\ Alone(s)
     /\ r \notin p.cat
     /\ "StoreAgain" \in Habits \/ ~Remembered(s, work)
     /\ branch' = [branch EXCEPT !.work = work, !.staged = p.staged, !.head = p.head]
     /\ session' = Appended(s, [p EXCEPT !.cat = work, !.base = {work}], branch')
     /\ UNCHANGED <<commits, job, asked>>

-----------------------------------------------------------------------------
(* dolt_add and dolt_reset                                                 *)

CatOf(c) == commits[c].cat
Parent(c) == commits[c].parent

\* What the branch is in the file when p is stored with a head: p's, as its store
\* has it, whether the file has grown or not (csReloadFromDiskPreservingLocalRefs).
\* Refs that were stored before are no new chunk: then a store that reloads leaves
\* the file's branch
Stored(p, head) ==
  {[tip |-> p.tip, work |-> p.cat, staged |-> p.staged, head |-> head]} \cup
  (IF p.news \/ "StoreAgain" \in Habits THEN {branch} ELSE {})

\* doltlitePersistWorkingSet
Persist(s, p) == /\ branch' \in Stored(p, p.head)
                 /\ session' = Appended(s, StoreRefreshed(p), branch')

\* mutant: any head will do
AnyHead(s) == TRUE

\* doltliteRefreshAndConfirmHead
HeadConfirmed(s) == branch.tip = session[s].head

\* doltliteStageArgsAndPersist for everything: the catalog to stage is the one the
\* session holds after a query ...
Add(s) ==
  /\ Free(s) /\ Alone(s)
  /\ \E p \in RefreshFromDisk(session[s]) :
       /\ "AfterFailure" \in Habits \/ p.cat = branch.work
       /\ session' = [session EXCEPT ![s] = p]
       /\ job' = [job EXCEPT ![s] = [Idle EXCEPT !.stage = "staged", !.commit.cat = p.cat]]
  /\ UNCHANGED <<commits, branch, asked>>

\* ... and it is stored, with the rest of what the session holds, after more of
\* them (dolt_ignore is asked about every table)
StoreStaged(s) ==
  /\ job[s].stage = "staged"
  /\ Persist(s, [session[s] EXCEPT !.staged = job[s].commit.cat])
  /\ job' = [job EXCEPT ![s] = Idle]
  /\ UNCHANGED <<commits, asked>>

\* dolt_reset without arguments makes no query
Unstage(s) ==
  /\ Free(s) /\ Alone(s)
  /\ "ResetBehind" \in Habits \/ (HeadConfirmed(s) /\ ~session[s].news)
  /\ "AfterFailure" \in Habits \/ session[s].news \/ session[s].cat = branch.work
  /\ Persist(s, [session[s] EXCEPT !.staged = CatOf(session[s].head)])
  /\ UNCHANGED <<commits, job, asked>>

\* dolt_reset --hard takes its target for staged and lists the tables, which
\* refreshes the Btree
HardReset(s) ==
  LET target == CatOf(session[s].head) IN
  /\ Free(s) /\ Alone(s)
  /\ "CommitTogether" \in Habits \/ \A t \in Sessions : ~Committing(t)
  /\ "ResetBehind" \in Habits \/ HeadConfirmed(s)
  /\ "StoreAgain" \in Habits \/ ~Remembered(s, target)
  /\ \E p \in RefreshFromDisk([session[s] EXCEPT !.staged = target]) :
       session' = [session EXCEPT ![s] = p]
  /\ job' = [job EXCEPT ![s] = [Idle EXCEPT !.stage = "resetting", !.commit.cat = target]]
  /\ UNCHANGED <<commits, branch, asked>>

\* doltliteHardReset stores the target with the staged catalog that is left and
\* no head, then stages the target ...
ClearWork(s) ==
  LET target == job[s].commit.cat
      p == [session[s] EXCEPT !.cat = target]
  IN /\ job[s].stage = "resetting"
     /\ branch' \in Stored(p, 0)
     /\ session' = Appended(s, [StoreRefreshed(p) EXCEPT !.staged = target], branch')
     /\ job' = [job EXCEPT ![s].stage = "cleared"]
     /\ UNCHANGED <<commits, asked>>

\* ... and all of it is stored once more
StoreReset(s) ==
  /\ job[s].stage = "cleared"
  /\ Persist(s, session[s])
  /\ job' = [job EXCEPT ![s] = Idle]
  /\ UNCHANGED <<commits, asked>>

-----------------------------------------------------------------------------
(* dolt_commit                                                             *)

\* the commit an ordinary and an amending dolt_commit build on
ParentFor(head, amend) == IF amend THEN Parent(head) ELSE head

\* Everything before the lock: its queries refresh the Btree, -A stages the
\* whole catalog, and then there must be something to commit.
Prepare(s, all, amend) ==
  /\ Free(s)
  /\ "CommitTogether" \in Habits \/ \A t \in Sessions : ~Resetting(t)
  /\ Len(commits) < MaxCommits
  /\ \E q \in RefreshFromDisk(session[s]) :
       LET p == IF all THEN [q EXCEPT !.staged = q.cat] ELSE q
           some == IF amend THEN Parent(p.head) # 0 ELSE p.staged # CatOf(p.head)
       IN /\ session' = [session EXCEPT ![s] = p]
          /\ job' = [job EXCEPT ![s] =
                       IF some THEN [stage |-> "built", amend |-> amend,
                                     commit |-> [parent |-> ParentFor(p.head, amend),
                                                 cat |-> p.staged]]
                               ELSE Idle]
          /\ asked' = IF some THEN asked ELSE asked \ {s}
  /\ UNCHANGED <<commits, branch>>

\* Under the lock the tip is the session's head.  The first of the queries that
\* compute schema hashes refreshes the Btree and, as it ends, drops the lock
\* (prollyBtreeCommitPhaseTwo).
Confirm(s) ==
  /\ job[s].stage = "built"
  /\ "CommitTogether" \in Habits \/ \A t \in Sessions : job[t].stage # "confirmed"
  /\ HeadConfirmed(s)
  /\ \E p \in RefreshFromDisk(StoreRefreshed(session[s])) :
       session' = [session EXCEPT ![s] = p]
  /\ job' = [job EXCEPT ![s].stage = "confirmed"]
  /\ UNCHANGED <<commits, branch, asked>>

\* the other queries of dolt_commit, without the lock, and those of dolt_add
Flush(s) ==
  /\ job[s].stage \in {"confirmed", "staged"}
  /\ \E p \in RefreshFromDisk(session[s]) : session' = [session EXCEPT ![s] = p]
  /\ UNCHANGED <<commits, branch, job, asked>>

\* doltliteAdvanceBranch replaces tip and working set by the session's own; the
\* lock is taken again to append them, and what the refs are by now is read and
\* dropped (chunkStoreCommit)
Advance(s) ==
  LET new == Len(commits) + 1
      staged == job[s].commit.cat
  IN /\ job[s].stage = "confirmed"
     /\ Alone(s)
     /\ new <= MaxCommits
     /\ commits' = Append(commits, job[s].commit)
     /\ branch' = [tip |-> new, work |-> session[s].cat, staged |-> staged, head |-> new]
     /\ session' = Appended(s, [StoreRefreshed(session[s]) EXCEPT !.head = new,
                                                                !.staged = staged], branch')
     /\ job' = [job EXCEPT ![s] = Idle]
     /\ asked' = asked \ {s}

\* "commit conflict": the store has been refreshed and the Btree has not
Refuse(s) ==
  /\ job[s].stage = "built"
  /\ ~HeadConfirmed(s)
  /\ session' = [session EXCEPT ![s] = StoreRefreshed(@)]
  /\ job' = [job EXCEPT ![s] = Idle]
  /\ asked' = asked \cup {s}
  /\ UNCHANGED <<commits, branch>>

\* another connection holds the lock, the first or the second time: nothing is
\* refreshed, and the session is as it was (doltliteRestoreTxnState)
LockBusy(s) ==
  /\ Committing(s) /\ Alone(s)
  /\ Sessions # {s}
  /\ job' = [job EXCEPT ![s] = Idle]
  /\ UNCHANGED <<commits, branch, session, asked>>

\* dolt_add and dolt_reset --hard go on to their end
Store(s) == StoreStaged(s) \/ ClearWork(s) \/ StoreReset(s)

\* what a client does that was refused: try again, connected or connecting anew
Retry(s) == s \in asked /\ Prepare(s, TRUE, FALSE)
Return(s) == s \in asked /\ Open(s)

\* or leave the connection whose head has fallen behind; one that leaves for
\* another reason gives up
Leave(s) == s \in asked /\ ~HeadConfirmed(s) /\ Close(s)
GiveUp(s) == s \in asked /\ HeadConfirmed(s) /\ Close(s)

Next == \E s \in Sessions :
          \/ Open(s)
          \/ Close(s)
          \/ Read(s)
          \/ \E r \in Rows : Insert(s, r)
          \/ Add(s)
          \/ StoreStaged(s)
          \/ Unstage(s)
          \/ HardReset(s)
          \/ ClearWork(s)
          \/ StoreReset(s)
          \/ \E all, amend \in BOOLEAN : Prepare(s, all, amend)
          \/ Confirm(s)
          \/ Flush(s)
          \/ Advance(s)
          \/ Refuse(s)
          \/ LockBusy(s)

Spec == Init /\ [][Next]_vars

\* Clients that retry a refused commit, whatever else they do in between, and a
\* lock that is not always busy when they do; statements that store go on
\* (a client that gives up again and again may miss every moment at which no
\* other session is in its dolt_reset --hard)
RetrySpec == Spec /\ \A s \in Sessions : /\ SF_vars(Retry(s))
                                         /\ WF_vars(Return(s))
                                         /\ SF_vars(Confirm(s) \/ Refuse(s))
                                         /\ SF_vars(Advance(s))
                                         /\ WF_vars(Store(s))
                                         /\ <>[][~GiveUp(s)]_vars

\* Clients that also reconnect when their head has fallen behind
ReconnectSpec == RetrySpec /\ \A s \in Sessions : SF_vars(Leave(s))

-----------------------------------------------------------------------------

\* The branch is one line of history: its tip is moved by dolt_commit only, which
\* puts its commit on the tip it replaces or, with --amend, in that tip's place;
\* whatever other sessions commit between its building of the commit and its
\* taking of the lock, between the lock it confirms the head under and the one it
\* appends under, or before a session adds, resets or inserts with old refs in
\* its store, no commit drops off the branch unnoticed.
TipAdvances ==
  [][branch'.tip # branch.tip =>
       \E s \in Sessions :
         /\ job[s].stage = "confirmed" /\ job'[s].stage = "idle"
         /\ commits'[branch'.tip].parent = IF job[s].amend THEN Parent(branch.tip)
                                                           ELSE branch.tip]_vars

\* A commit has every row of its parent, though its catalog was staged by
\* another session, or before other sessions went on.
CommitsKeepRows ==
  \A c \in 1..Len(commits) : Parent(c) # 0 => CatOf(Parent(c)) \subseteq CatOf(c)

\* The working set has every row that is committed on the branch, though each
\* transaction and each dolt_commit stores the catalog its session holds.
WorkKeepsCommitted == CatOf(branch.tip) \subseteq branch.work

\* A refused client that retries is answered in the end: its commit is made,
\* or there is nothing left to commit.  (The bound on commits ends the race.)
Answered == \A s \in Sessions : []<>(s \notin asked \/ Len(commits) = MaxCommits)
=============================================================================
