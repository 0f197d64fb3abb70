---------------------------- MODULE BranchProofs ----------------------------
(***************************************************************************)
(* Proofs about BranchCommit: its types, for all clients, and, for clients *)
(* without the habits its code does not cope with, that no commit drops    *)
(* off the branch and that committed rows stay.                            *)
(***************************************************************************)
EXTENDS BranchCommit, TLAPS

-----------------------------------------------------------------------------
(* What the operators on a session return.                                 *)

LEMMA ReloadedFields ==
  ASSUME TypeOK, NEW p \in Session
  PROVE  LET q == ReloadWorkingState(p) IN
           /\ q \in Session
           /\ q.open = p.open /\ q.head = p.head /\ q.base = p.base /\ ~q.news
           /\ q.staged = branch.staged /\ q.tip = branch.tip
           /\ q.cat = IF branch.work \in p.base THEN p.cat ELSE branch.work
BY DEF TypeOK, Session, Branch, ReloadWorkingState

\* A refresh leaves a session that has seen the file alone, or reloads it.
LEMMA RefreshedFields ==
  ASSUME TypeOK, NEW p \in Session, NEW q \in RefreshFromDisk(p)
  PROVE  /\ q \in Session
         /\ q.open = p.open /\ q.head = p.head /\ q.base = p.base /\ ~q.news
         /\ \/ q = p /\ ~p.news
            \/ /\ q.staged = branch.staged /\ q.tip = branch.tip
               /\ q.cat = IF branch.work \in p.base THEN p.cat ELSE branch.work
<1>1. q = ReloadWorkingState(p) \/ (q = p /\ ~p.news)
  BY DEF RefreshFromDisk
<1> QED
  BY <1>1, ReloadedFields

LEMMA StoreFields ==
  ASSUME TypeOK, NEW p \in Session
  PROVE  LET q == StoreRefreshed(p) IN
           /\ q \in Session
           /\ q.open = p.open /\ q.head = p.head /\ q.base = p.base /\ ~q.news
           /\ q.cat = p.cat /\ q.staged = p.staged
           /\ q.tip = IF p.news THEN branch.tip ELSE p.tip
BY DEF TypeOK, Session, Branch, StoreRefreshed

\* Refs that one session appends are news to the others and leave them as they are.
LEMMA AppendedFields ==
  ASSUME TypeOK, NEW s \in Sessions, NEW p \in Session, NEW b \in Branch,
         session' = Appended(s, p, b)
  PROVE  /\ session' \in [Sessions -> Session]
         /\ session'[s] = [p EXCEPT !.tip = b.tip]
         /\ \A t \in Sessions \ {s} : session'[t] = [session[t] EXCEPT !.news = session[t].open]
BY DEF TypeOK, Session, Branch, Appended

-----------------------------------------------------------------------------
(* Types                                                                   *)

LEMMA Started == Init => TypeOK
BY CommitsAssumption
   DEF Init, TypeOK, CommitId, Commit, Catalog, Branch, Session, Job, NoCommit, NewBranch,
       Closed, Idle

LEMMA OpenTyped ==
  ASSUME TypeOK, NEW s \in Sessions, Open(s) PROVE TypeOK'
BY DEF TypeOK, Open, HeadAtOpen, Session, Branch

LEMMA AppendedTyped ==
  ASSUME TypeOK, NEW s \in Sessions, NEW p \in Session, NEW b \in Branch,
         session' = Appended(s, p, b), Len(commits') \in Nat, Len(commits) <= Len(commits'),
         p.open, p.head \in 1..Len(commits'), b.tip \in 1..Len(commits')
  PROVE  /\ session' \in [Sessions -> Session]
         /\ \A t \in Sessions :
              /\ session'[t].head \in IF session'[t].open THEN 1..Len(commits') ELSE {0}
              /\ session'[t].tip \in 1..Len(commits')
<1>1. /\ session' \in [Sessions -> Session]
      /\ session'[s] = [p EXCEPT !.tip = b.tip]
      /\ \A t \in Sessions \ {s} : session'[t] = [session[t] EXCEPT !.news = session[t].open]
  BY AppendedFields
<1>2. session'[s].open /\ session'[s].head = p.head /\ session'[s].tip = b.tip
  BY <1>1 DEF Session
<1>3. ASSUME NEW t \in Sessions \ {s}
      PROVE  /\ session'[t].head \in IF session'[t].open THEN 1..Len(commits') ELSE {0}
             /\ session'[t].tip \in 1..Len(commits')
  <2>1. /\ session'[t].open = session[t].open /\ session'[t].head = session[t].head
        /\ session'[t].tip = session[t].tip
    BY <1>1 DEF TypeOK, Session
  <2>2. Len(commits) \in Nat
    BY CommitsAssumption DEF TypeOK, CommitId
  <2> QED
    BY <2>1, <2>2 DEF TypeOK
<1> QED
  BY <1>1, <1>2, <1>3

LEMMA StoredTyped ==
  ASSUME TypeOK, NEW s \in Sessions, NEW p \in Session, NEW head \in 0..Len(commits),
         NEW q \in Session, branch' \in Stored(p, head), session' = Appended(s, q, branch'),
         p.tip \in 1..Len(commits), q.open, q.head \in 1..Len(commits),
         UNCHANGED <<commits, asked>>, job' \in [Sessions -> Job]
  PROVE  TypeOK'
<1> DEFINE mine == [tip |-> p.tip, work |-> p.cat, staged |-> p.staged, head |-> head]
<1>1. Len(commits) \in Nat /\ head \in CommitId \cup {0}
  BY CommitsAssumption DEF TypeOK, CommitId
<1>2. mine \in Branch /\ branch \in Branch
  BY <1>1 DEF TypeOK, Session, Branch
<1>3. branch' = mine \/ branch' = branch
  BY DEF Stored
<1>4. branch' \in Branch /\ branch'.tip \in 1..Len(commits) /\ branch'.head \in 0..Len(commits)
  BY <1>2, <1>3 DEF TypeOK
<1>5. /\ session' \in [Sessions -> Session]
      /\ \A t \in Sessions :
           /\ session'[t].head \in IF session'[t].open THEN 1..Len(commits') ELSE {0}
           /\ session'[t].tip \in 1..Len(commits')
  BY <1>1, <1>4, AppendedTyped
<1> QED
  BY <1>4, <1>5 DEF TypeOK

LEMMA PersistTyped ==
  ASSUME TypeOK, NEW s \in Sessions, NEW p \in Session, Persist(s, p),
         p.open, p.head \in 1..Len(commits), p.tip \in 1..Len(commits),
         UNCHANGED <<commits, asked>>, job' \in [Sessions -> Job]
  PROVE  TypeOK'
<1> DEFINE q == StoreRefreshed(p)
<1>1. q \in Session /\ q.open /\ q.head = p.head
  BY StoreFields
<1>2. branch' \in Stored(p, p.head) /\ session' = Appended(s, q, branch')
  BY DEF Persist
<1>3. p.head \in 0..Len(commits)
  OBVIOUS
<1> HIDE DEF q
<1> QED BY <1>1, <1>2, <1>3, StoredTyped

LEMMA InsertTyped ==
  ASSUME TypeOK, NEW s \in Sessions, NEW r \in Rows, Insert(s, r) PROVE TypeOK'
<1> DEFINE p == ReloadWorkingState(session[s])
           work == p.cat \cup {r}
           q == [p EXCEPT !.cat = work, !.base = {work}]
<1>0. session[s] \in Session /\ session[s].head \in 1..Len(commits)
  BY DEF TypeOK, Insert, Free
<1>1. p \in Session /\ p.open /\ p.head = session[s].head /\ p.staged = branch.staged
  BY <1>0, ReloadedFields DEF Insert, Free
<1>2. work \in Catalog
  BY <1>1 DEF Session, Catalog
<1>3. branch' = [branch EXCEPT !.work = work, !.staged = p.staged, !.head = p.head]
  BY DEF Insert
<1>4. branch' \in Branch /\ branch'.tip \in 1..Len(commits) /\ branch'.head \in 0..Len(commits)
  <2> HIDE DEF p, work
  <2>1. branch \in Branch /\ branch.tip \in 1..Len(commits)
    BY DEF TypeOK
  <2>2. p.head \in CommitId /\ p.head \in 0..Len(commits)
    BY <1>0, <1>1, CommitsAssumption DEF TypeOK, CommitId
  <2>3. /\ branch'.tip = branch.tip /\ branch'.head = p.head
        /\ branch' \in Branch
    BY <1>1, <1>2, <1>3, <2>1, <2>2 DEF Branch, Session
  <2> QED BY <2>1, <2>2, <2>3
<1>5. q \in Session /\ q.open /\ q.head = session[s].head
  <2> HIDE DEF p, work
  <2> QED BY <1>1, <1>2 DEF Session
<1>6. session' = Appended(s, q, branch')
  BY DEF Insert
<1>7. Len(commits) \in Nat
  BY CommitsAssumption DEF TypeOK, CommitId
<1>8. /\ session' \in [Sessions -> Session]
      /\ \A t \in Sessions :
           /\ session'[t].head \in IF session'[t].open THEN 1..Len(commits') ELSE {0}
           /\ session'[t].tip \in 1..Len(commits')
  <2> HIDE DEF q
  <2>1. commits' = commits
    BY DEF Insert
  <2> QED BY <1>0, <1>4, <1>5, <1>6, <1>7, <2>1, AppendedTyped
<1> QED
  BY <1>4, <1>8 DEF TypeOK, Insert

\* One session becomes p; the branch stays.
LEMMA OneTyped ==
  ASSUME TypeOK, NEW s \in Sessions, NEW p \in Session,
         session' = [session EXCEPT ![s] = p],
         p.head \in IF p.open THEN 1..Len(commits) ELSE {0}, p.tip \in 1..Len(commits),
         UNCHANGED <<commits, branch>>, job' \in [Sessions -> Job], asked' \subseteq Sessions
  PROVE  TypeOK'
<1>1. session' \in [Sessions -> Session]
  BY DEF TypeOK
<1>2. \A t \in Sessions : session'[t] = IF t = s THEN p ELSE session[t]
  BY DEF TypeOK
<1> QED
  BY <1>1, <1>2 DEF TypeOK

\* A refresh keeps what TypeOK says of a session.
LEMMA RefreshTyped ==
  ASSUME TypeOK, NEW s \in Sessions, session[s].open,
         NEW p \in RefreshFromDisk(session[s]) \cup RefreshFromDisk(StoreRefreshed(session[s]))
                   \cup {StoreRefreshed(session[s])}
  PROVE  /\ p \in Session /\ p.open /\ p.head = session[s].head /\ p.head \in 1..Len(commits)
         /\ p.tip \in 1..Len(commits)
<1> DEFINE q == StoreRefreshed(session[s])
<1>1. /\ session[s] \in Session /\ session[s].head \in 1..Len(commits)
      /\ session[s].tip \in 1..Len(commits) /\ branch.tip \in 1..Len(commits)
  BY DEF TypeOK
<1>2. q \in Session /\ q.open /\ q.head = session[s].head /\ q.tip \in 1..Len(commits)
  BY <1>1, StoreFields
<1>3. CASE p \in RefreshFromDisk(session[s])
  BY <1>1, <1>3, RefreshedFields
<1>4. CASE p \in RefreshFromDisk(q)
  <2> HIDE DEF q
  <2> QED BY <1>1, <1>2, <1>4, RefreshedFields
<1> QED
  BY <1>1, <1>2, <1>3, <1>4

LEMMA CloseTyped ==
  ASSUME TypeOK, NEW s \in Sessions, Close(s) PROVE TypeOK'
<1>1. 1 \in CommitId /\ 1 \in 1..Len(commits)
  BY CommitsAssumption DEF TypeOK, CommitId
<1>2. Closed \in Session /\ Closed.head = 0 /\ ~Closed.open /\ Closed.tip = 1
  BY <1>1 DEF Closed, Session, Catalog
<1> QED
  BY <1>1, <1>2, OneTyped DEF Close, TypeOK

LEMMA ReadTyped ==
  ASSUME TypeOK, NEW s \in Sessions, Read(s) PROVE TypeOK'
<1>1. PICK p \in RefreshFromDisk(session[s]) : session' = [session EXCEPT ![s] = p]
  BY DEF Read
<1> QED
  BY <1>1, RefreshTyped, OneTyped DEF Read, Free, TypeOK

LEMMA CatOfTyped ==
  ASSUME TypeOK, NEW c \in 1..Len(commits)
  PROVE  CatOf(c) \in Catalog /\ Parent(c) \in CommitId \cup {0}
<1>1. commits[c] \in Commit
  BY DEF TypeOK
<1> QED
  BY <1>1 DEF CatOf, Parent, Commit

LEMMA IdleTyped == Idle \in Job /\ Idle.stage = "idle"
BY DEF Idle, Job, NoCommit, Commit, Catalog

LEMMA AddTyped ==
  ASSUME TypeOK, NEW s \in Sessions, Add(s) PROVE TypeOK'
<1>1. PICK p \in RefreshFromDisk(session[s]) :
        /\ session' = [session EXCEPT ![s] = p]
        /\ job' = [job EXCEPT ![s] = [Idle EXCEPT !.stage = "staged", !.commit.cat = p.cat]]
  BY DEF Add
<1>2. p \in Session /\ p.open /\ p.head \in 1..Len(commits) /\ p.tip \in 1..Len(commits)
  BY RefreshTyped DEF Add, Free
<1>3. [Idle EXCEPT !.stage = "staged", !.commit.cat = p.cat] \in Job
  BY <1>2 DEF Idle, Job, NoCommit, Commit, Session
<1> QED
  BY <1>1, <1>2, <1>3, OneTyped DEF Add, TypeOK

LEMMA StoreStagedTyped ==
  ASSUME TypeOK, NEW s \in Sessions, session[s].open, StoreStaged(s) PROVE TypeOK'
<1> DEFINE q == [session[s] EXCEPT !.staged = job[s].commit.cat]
<1>1. /\ session[s] \in Session /\ session[s].head \in 1..Len(commits)
      /\ session[s].tip \in 1..Len(commits) /\ job[s].commit.cat \in Catalog
  BY DEF TypeOK, Job, Commit
<1>2. q \in Session /\ q.open /\ q.head \in 1..Len(commits) /\ q.tip \in 1..Len(commits)
  BY <1>1 DEF Session
<1>3. Persist(s, q) /\ UNCHANGED <<commits, asked>> /\ job' \in [Sessions -> Job]
  BY IdleTyped DEF StoreStaged, TypeOK
<1> HIDE DEF q
<1> QED BY <1>2, <1>3, PersistTyped

LEMMA UnstageTyped ==
  ASSUME TypeOK, NEW s \in Sessions, Unstage(s) PROVE TypeOK'
<1> DEFINE p == session[s]
           q == [p EXCEPT !.staged = CatOf(p.head)]
<1>1. p \in Session /\ p.open /\ p.head \in 1..Len(commits) /\ p.tip \in 1..Len(commits)
  BY DEF TypeOK, Unstage, Free
<1>2. CatOf(p.head) \in Catalog
  BY <1>1, CatOfTyped
<1>3. q \in Session /\ q.open /\ q.head \in 1..Len(commits) /\ q.tip \in 1..Len(commits)
  BY <1>1, <1>2 DEF Session
<1>4. Persist(s, q)
  BY DEF Unstage
<1> QED
  <2> HIDE DEF q
  <2> QED BY <1>3, <1>4, PersistTyped DEF Unstage, TypeOK

\* A session that has taken another catalog for staged is refreshed.
LEMMA ResetTyped ==
  ASSUME TypeOK, NEW s \in Sessions, session[s].open, NEW staged \in Catalog,
         NEW p \in RefreshFromDisk([session[s] EXCEPT !.staged = staged])
  PROVE  /\ p \in Session /\ p.open /\ ~p.news /\ p.base = session[s].base
         /\ p.head = session[s].head /\ p.head \in 1..Len(commits) /\ p.tip \in 1..Len(commits)
         /\ \/ /\ ~session[s].news /\ p.cat = session[s].cat /\ p.staged = staged
               /\ p.tip = session[s].tip
            \/ /\ p.staged = branch.staged /\ p.tip = branch.tip
               /\ p.cat = IF branch.work \in p.base THEN session[s].cat ELSE branch.work
<1> DEFINE q == [session[s] EXCEPT !.staged = staged]
<1>1. /\ session[s] \in Session /\ session[s].head \in 1..Len(commits)
      /\ session[s].tip \in 1..Len(commits) /\ branch.tip \in 1..Len(commits)
  BY DEF TypeOK
<1>2. /\ q \in Session /\ q.open /\ q.head = session[s].head /\ q.tip = session[s].tip
      /\ q.staged = staged /\ q.cat = session[s].cat /\ q.base = session[s].base
      /\ q.news = session[s].news
  BY <1>1 DEF Session
<1>3. p \in RefreshFromDisk(q)
  OBVIOUS
<1> HIDE DEF q
<1> QED BY <1>1, <1>2, <1>3, RefreshedFields

LEMMA HardResetTyped ==
  ASSUME TypeOK, NEW s \in Sessions, HardReset(s) PROVE TypeOK'
<1> DEFINE target == CatOf(session[s].head)
           j == [Idle EXCEPT !.stage = "resetting", !.commit.cat = target]
<1>1. PICK p \in RefreshFromDisk([session[s] EXCEPT !.staged = target]) :
        session' = [session EXCEPT ![s] = p]
  BY DEF HardReset
<1>2. job' = [job EXCEPT ![s] = j] /\ session[s].open /\ UNCHANGED <<commits, branch, asked>>
  BY DEF HardReset, Free
<1>3. target \in Catalog
  BY <1>2, CatOfTyped DEF TypeOK
<1>4. p \in Session /\ p.open /\ p.head \in 1..Len(commits) /\ p.tip \in 1..Len(commits)
  BY <1>2, <1>3, ResetTyped
<1>5. j \in Job
  <2> HIDE DEF target
  <2> QED BY <1>3 DEF Idle, Job, NoCommit, Commit
<1> HIDE DEF j
<1> QED BY <1>1, <1>2, <1>4, <1>5, OneTyped DEF TypeOK

\* The two appends of dolt_reset --hard.
LEMMA ClearWorkFields ==
  ASSUME TypeOK, NEW s \in Sessions, session[s].open, ClearWork(s)
  PROVE  \E p, q \in Session :
           /\ p.cat = job[s].commit.cat /\ p.staged = session[s].staged
           /\ p.tip = session[s].tip /\ p.news = session[s].news
           /\ q.open /\ q.head = session[s].head /\ q.base = session[s].base /\ ~q.news
           /\ q.cat = job[s].commit.cat /\ q.staged = job[s].commit.cat
           /\ q.tip = IF session[s].news THEN branch.tip ELSE session[s].tip
           /\ branch' \in Stored(p, 0) /\ session' = Appended(s, q, branch')
<1> DEFINE target == job[s].commit.cat
           p == [session[s] EXCEPT !.cat = target]
           r == StoreRefreshed(p)
           q == [r EXCEPT !.staged = target]
<1>1. session[s] \in Session /\ target \in Catalog
  BY DEF TypeOK, Job, Commit
<1>2. branch' \in Stored(p, 0) /\ session' = Appended(s, q, branch')
  BY DEF ClearWork
<1> HIDE DEF target
<1>3. /\ p \in Session /\ p.cat = target /\ p.staged = session[s].staged /\ p.open
      /\ p.tip = session[s].tip /\ p.news = session[s].news /\ p.head = session[s].head
      /\ p.base = session[s].base
  BY <1>1 DEF Session
<1> HIDE DEF p
<1>4. /\ r \in Session /\ r.open /\ r.head = p.head /\ r.base = p.base /\ ~r.news
      /\ r.cat = p.cat /\ r.tip = IF p.news THEN branch.tip ELSE p.tip
  BY <1>3, StoreFields
<1> HIDE DEF r
<1>5. /\ q \in Session /\ q.open /\ q.head = r.head /\ q.base = r.base /\ ~q.news
      /\ q.cat = r.cat /\ q.tip = r.tip /\ q.staged = target
  BY <1>1, <1>4 DEF Session
<1> HIDE DEF q
<1> QED BY <1>2, <1>3, <1>4, <1>5 DEF target

LEMMA ClearWorkTyped ==
  ASSUME TypeOK, NEW s \in Sessions, session[s].open, ClearWork(s) PROVE TypeOK'
<1>1. PICK p, q \in Session :
        /\ p.tip = session[s].tip /\ q.open /\ q.head = session[s].head
        /\ branch' \in Stored(p, 0) /\ session' = Appended(s, q, branch')
  BY ClearWorkFields
<1>2. session[s].head \in 1..Len(commits) /\ session[s].tip \in 1..Len(commits)
  BY DEF TypeOK
<1>3. UNCHANGED <<commits, asked>> /\ job' \in [Sessions -> Job]
  BY DEF ClearWork, TypeOK, Job
<1>4. 0 \in 0..Len(commits)
  BY CommitsAssumption DEF TypeOK, CommitId
<1> QED
  BY <1>1, <1>2, <1>3, <1>4, StoredTyped

LEMMA StoreResetTyped ==
  ASSUME TypeOK, NEW s \in Sessions, session[s].open, StoreReset(s) PROVE TypeOK'
<1>1. /\ session[s] \in Session /\ session[s].head \in 1..Len(commits)
      /\ session[s].tip \in 1..Len(commits)
  BY DEF TypeOK
<1>2. Persist(s, session[s]) /\ UNCHANGED <<commits, asked>> /\ job' \in [Sessions -> Job]
  BY IdleTyped DEF StoreReset, TypeOK
<1> QED
  BY <1>1, <1>2, PersistTyped

\* What dolt_commit makes of a session before it takes the lock.
LEMMA PrepareFields ==
  ASSUME TypeOK, NEW s \in Sessions, NEW all \in BOOLEAN, NEW amend \in BOOLEAN,
         Prepare(s, all, amend)
  PROVE  \E q \in RefreshFromDisk(session[s]), p \in Session :
           /\ p = IF all THEN [q EXCEPT !.staged = q.cat] ELSE q
           /\ p.open /\ p.head = session[s].head /\ p.head \in 1..Len(commits)
           /\ p.tip = q.tip /\ p.tip \in 1..Len(commits) /\ p.base = session[s].base
           /\ p.cat = q.cat /\ p.news = q.news
           /\ p.staged = IF all THEN q.cat ELSE q.staged
           /\ session' = [session EXCEPT ![s] = p]
           /\ \/ job' = [job EXCEPT ![s] = Idle]
              \/ job' = [job EXCEPT ![s] = [stage |-> "built", amend |-> amend,
                                            commit |-> [parent |-> ParentFor(p.head, amend),
                                                        cat |-> p.staged]]]
<1>1. PICK q \in RefreshFromDisk(session[s]) :
        LET p == IF all THEN [q EXCEPT !.staged = q.cat] ELSE q
            some == IF amend THEN Parent(p.head) # 0 ELSE p.staged # CatOf(p.head)
        IN /\ session' = [session EXCEPT ![s] = p]
           /\ job' = [job EXCEPT ![s] =
                        IF some THEN [stage |-> "built", amend |-> amend,
                                      commit |-> [parent |-> ParentFor(p.head, amend),
                                                  cat |-> p.staged]]
                                ELSE Idle]
  BY DEF Prepare
<1> DEFINE p == IF all THEN [q EXCEPT !.staged = q.cat] ELSE q
<1>2. /\ q \in Session /\ q.open /\ q.head = session[s].head /\ q.head \in 1..Len(commits)
      /\ q.tip \in 1..Len(commits)
  BY RefreshTyped DEF Prepare, Free
<1>3. q.base = session[s].base
  BY RefreshedFields DEF TypeOK
<1>4. /\ p \in Session /\ p.open /\ p.head = q.head /\ p.tip = q.tip /\ p.base = q.base
      /\ p.cat = q.cat /\ p.news = q.news /\ p.staged = IF all THEN q.cat ELSE q.staged
  BY <1>2 DEF Session
<1>5. session' = [session EXCEPT ![s] = p]
  BY <1>1
<1>6. \/ job' = [job EXCEPT ![s] = Idle]
      \/ job' = [job EXCEPT ![s] = [stage |-> "built", amend |-> amend,
                                    commit |-> [parent |-> ParentFor(p.head, amend),
                                                cat |-> p.staged]]]
  BY <1>1
<1>7. p = IF all THEN [q EXCEPT !.staged = q.cat] ELSE q
  OBVIOUS
<1> HIDE DEF p
<1>8. p.head = session[s].head /\ p.head \in 1..Len(commits) /\ p.tip \in 1..Len(commits)
      /\ p.base = session[s].base
  BY <1>2, <1>3, <1>4
<1> QED BY <1>1, <1>4, <1>5, <1>6, <1>7, <1>8, Zenon

LEMMA PrepareTyped ==
  ASSUME TypeOK, NEW s \in Sessions, NEW all \in BOOLEAN, NEW amend \in BOOLEAN,
         Prepare(s, all, amend)
  PROVE  TypeOK'
<1>1. PICK q \in RefreshFromDisk(session[s]), p \in Session :
        /\ p.open /\ p.head \in 1..Len(commits) /\ p.tip \in 1..Len(commits)
        /\ session' = [session EXCEPT ![s] = p]
        /\ \/ job' = [job EXCEPT ![s] = Idle]
           \/ job' = [job EXCEPT ![s] = [stage |-> "built", amend |-> amend,
                                         commit |-> [parent |-> ParentFor(p.head, amend),
                                                     cat |-> p.staged]]]
  BY PrepareFields
<1>2. Idle \in Job
  BY IdleTyped
<1>3. p.staged \in Catalog /\ p.head \in CommitId
  BY <1>1, CommitsAssumption DEF Session, TypeOK, CommitId
<1>4. ParentFor(p.head, amend) \in CommitId \cup {0}
  BY <1>1, <1>3, CatOfTyped DEF ParentFor
<1>5. [stage |-> "built", amend |-> amend,
       commit |-> [parent |-> ParentFor(p.head, amend), cat |-> p.staged]] \in Job
  BY <1>3, <1>4 DEF Job, Commit
<1>6. job' \in [Sessions -> Job]
  BY <1>1, <1>2, <1>5 DEF TypeOK
<1>7. asked' \subseteq Sessions
  BY DEF Prepare, TypeOK
<1> QED
  BY <1>1, <1>6, <1>7, OneTyped DEF Prepare

LEMMA ConfirmTyped ==
  ASSUME TypeOK, NEW s \in Sessions, session[s].open, Confirm(s) PROVE TypeOK'
<1>1. PICK p \in RefreshFromDisk(StoreRefreshed(session[s])) : session' = [session EXCEPT ![s] = p]
  BY DEF Confirm
<1>2. job' \in [Sessions -> Job]
  BY DEF Confirm, TypeOK, Job
<1> QED
  BY <1>1, <1>2, RefreshTyped, OneTyped DEF Confirm, TypeOK

LEMMA FlushTyped ==
  ASSUME TypeOK, NEW s \in Sessions, session[s].open, Flush(s) PROVE TypeOK'
<1>1. PICK p \in RefreshFromDisk(session[s]) : session' = [session EXCEPT ![s] = p]
  BY DEF Flush
<1> QED
  BY <1>1, RefreshTyped, OneTyped DEF Flush, TypeOK

LEMMA RefuseTyped ==
  ASSUME TypeOK, NEW s \in Sessions, session[s].open, Refuse(s) PROVE TypeOK'
<1>1. Idle \in Job
  BY IdleTyped
<1>2. job' \in [Sessions -> Job] /\ asked' \subseteq Sessions
  BY <1>1 DEF Refuse, TypeOK
<1>3. session' = [session EXCEPT ![s] = StoreRefreshed(session[s])]
  BY DEF Refuse
<1> QED
  BY <1>2, <1>3, RefreshTyped, OneTyped DEF Refuse

LEMMA LockBusyTyped ==
  ASSUME TypeOK, NEW s \in Sessions, LockBusy(s) PROVE TypeOK'
<1>1. Idle \in Job
  BY IdleTyped
<1> QED
  BY <1>1 DEF LockBusy, TypeOK

LEMMA AdvanceTyped ==
  ASSUME TypeOK, NEW s \in Sessions, session[s].open, Advance(s)
  PROVE  TypeOK' /\ Len(commits') = Len(commits) + 1
<1> DEFINE new == Len(commits) + 1
           staged == job[s].commit.cat
           q == StoreRefreshed(session[s])
           p == [q EXCEPT !.head = new, !.staged = staged]
<1>1. Len(commits) \in Nat /\ Len(commits) >= 1 /\ new \in CommitId /\ new <= MaxCommits
  BY CommitsAssumption DEF TypeOK, CommitId, Advance
<1>2. job[s] \in Job /\ job[s].commit \in Commit /\ staged \in Catalog
  BY DEF TypeOK, Job, Commit
<1>3. /\ commits' = Append(commits, job[s].commit)
      /\ branch' = [tip |-> new, work |-> session[s].cat, staged |-> staged, head |-> new]
      /\ session' = Appended(s, p, branch')
      /\ job' = [job EXCEPT ![s] = Idle] /\ asked' = asked \ {s}
  BY DEF Advance
<1>4. commits' \in Seq(Commit) /\ Len(commits') = new
  BY <1>1, <1>2, <1>3 DEF TypeOK
<1>5. q \in Session /\ q.open
  BY RefreshTyped
<1>6. p \in Session /\ p.open /\ p.head = new
  <2> HIDE DEF q, staged, new
  <2> QED BY <1>1, <1>2, <1>5 DEF Session
<1>7. branch' \in Branch /\ branch'.tip = new /\ branch'.head = new
  <2>1. session[s].cat \in Catalog
    BY DEF TypeOK, Session
  <2> HIDE DEF staged, new
  <2> QED BY <1>1, <1>2, <1>3, <2>1 DEF Branch
<1>8. /\ session' \in [Sessions -> Session]
      /\ \A t \in Sessions :
           /\ session'[t].head \in IF session'[t].open THEN 1..Len(commits') ELSE {0}
           /\ session'[t].tip \in 1..Len(commits')
  <2>1. new \in 1..Len(commits') /\ Len(commits) <= Len(commits') /\ Len(commits') \in Nat
    BY <1>1, <1>4
  <2> HIDE DEF p, new
  <2> QED BY <1>3, <1>6, <1>7, <2>1, AppendedTyped
<1>9. job' \in [Sessions -> Job] /\ asked' \subseteq Sessions
  <2>1. Idle \in Job
    BY DEF Idle, Job, NoCommit, Commit, Catalog
  <2> QED BY <1>3, <2>1 DEF TypeOK
<1>10. /\ branch'.tip \in 1..Len(commits') /\ branch'.head \in 0..Len(commits')
       /\ Len(commits') \in CommitId
  BY <1>1, <1>4, <1>7
<1> QED
  BY <1>4, <1>7, <1>8, <1>9, <1>10 DEF TypeOK

\* Only an open session is in a function.
BusyOpen == \A s \in Sessions : job[s].stage # "idle" => session[s].open

LEMMA AppendedOpen ==
  ASSUME TypeOK, NEW s \in Sessions, NEW q \in Session, q.open, session' = Appended(s, q, branch')
  PROVE  \A t \in Sessions : session[t].open => session'[t].open
<1>1. \A t \in Sessions \ {s} : session'[t] = [session[t] EXCEPT !.news = session[t].open]
  BY DEF Appended
<1>2. session'[s].open
  <2>1. session'[s] = [q EXCEPT !.tip = branch'.tip]
    BY DEF Appended
  <2> QED BY <2>1 DEF Session
<1> QED
  BY <1>1, <1>2 DEF TypeOK, Session

LEMMA PersistOpen ==
  ASSUME TypeOK, NEW s \in Sessions, NEW p \in Session, Persist(s, p), p.open
  PROVE  \A t \in Sessions : session[t].open => session'[t].open
<1> DEFINE q == StoreRefreshed(p)
<1>1. session' = Appended(s, q, branch')
  BY DEF Persist
<1>2. q \in Session /\ q.open
  BY StoreFields
<1> HIDE DEF q
<1> QED BY <1>1, <1>2, AppendedOpen

LEMMA BusyOpenKept ==
  ASSUME TypeOK, BusyOpen, [Next]_vars PROVE BusyOpen'
<1> SUFFICES ASSUME NEW t \in Sessions, job'[t].stage # "idle"
             PROVE  session'[t].open
  BY DEF BusyOpen
<1> USE DEF BusyOpen
<1>1. ASSUME NEW s \in Sessions, Open(s) PROVE session'[t].open
  BY <1>1 DEF Open, TypeOK
<1>2. ASSUME NEW s \in Sessions, Close(s) PROVE session'[t].open
  BY <1>2 DEF Close, Free, TypeOK
<1>3. ASSUME NEW s \in Sessions, Read(s) PROVE session'[t].open
  <2>1. PICK p \in RefreshFromDisk(session[s]) : session' = [session EXCEPT ![s] = p]
    BY <1>3 DEF Read
  <2>2. p.open
    BY <1>3, <2>1, RefreshTyped DEF Read, Free
  <2> QED BY <1>3, <2>1, <2>2 DEF Read, TypeOK
<1>4. ASSUME NEW s \in Sessions, NEW r \in Rows, Insert(s, r) PROVE session'[t].open
  <2> DEFINE p == ReloadWorkingState(session[s])
             work == p.cat \cup {r}
             q == [p EXCEPT !.cat = work, !.base = {work}]
  <2>1. session' = Appended(s, q, branch') /\ job' = job /\ session[s].open
    BY <1>4 DEF Insert, Free
  <2>2. p \in Session /\ p.open
    BY <2>1, ReloadedFields DEF TypeOK
  <2>3. q.open /\ session'[s].open = q.open
    <3>1. q.open /\ q = [q EXCEPT !.open = TRUE]
      BY <2>2 DEF Session
    <3>2. session'[s] = [q EXCEPT !.tip = branch'.tip]
      BY <2>1 DEF Appended
    <3> QED BY <2>2, <3>1, <3>2 DEF Session
  <2> QED BY <2>1, <2>3 DEF Appended, TypeOK, Session
<1>5. ASSUME NEW s \in Sessions, Add(s) PROVE session'[t].open
  <2>1. PICK p \in RefreshFromDisk(session[s]) : session' = [session EXCEPT ![s] = p]
    BY <1>5 DEF Add
  <2>2. p.open /\ (t # s => job'[t] = job[t])
    BY <1>5, RefreshTyped DEF Add, Free
  <2> QED BY <2>1, <2>2 DEF TypeOK
<1>6. ASSUME NEW s \in Sessions, Unstage(s) PROVE session'[t].open
  <2> DEFINE q == [session[s] EXCEPT !.staged = CatOf(session[s].head)]
  <2>1. CatOf(session[s].head) \in Catalog
    BY <1>6, CatOfTyped DEF TypeOK, Unstage, Free
  <2>2. q \in Session /\ q.open
    BY <1>6, <2>1 DEF Session, TypeOK, Unstage, Free
  <2>3. Persist(s, q) /\ job' = job
    BY <1>6 DEF Unstage
  <2> QED BY <2>2, <2>3, PersistOpen
<1>7. ASSUME NEW s \in Sessions, HardReset(s) PROVE session'[t].open
  <2> DEFINE target == CatOf(session[s].head)
  <2>1. PICK p \in RefreshFromDisk([session[s] EXCEPT !.staged = target]) :
          session' = [session EXCEPT ![s] = p]
    BY <1>7 DEF HardReset
  <2>2. session[s].open /\ (t # s => job'[t] = job[t])
    BY <1>7 DEF HardReset, Free
  <2>3. target \in Catalog
    BY <2>2, CatOfTyped DEF TypeOK
  <2>4. p.open
    BY <2>2, <2>3, ResetTyped
  <2> QED BY <2>1, <2>2, <2>4 DEF TypeOK
<1>8. ASSUME NEW s \in Sessions, NEW all \in BOOLEAN, NEW amend \in BOOLEAN, Prepare(s, all, amend)
      PROVE  session'[t].open
  <2>1. PICK q \in RefreshFromDisk(session[s]), p \in Session :
          p.open /\ session' = [session EXCEPT ![s] = p]
    BY <1>8, PrepareFields
  <2>2. t # s => job'[t] = job[t]
    BY <1>8 DEF Prepare
  <2> QED BY <2>1, <2>2 DEF TypeOK
<1>9. ASSUME NEW s \in Sessions, Confirm(s) PROVE session'[t].open
  <2>1. PICK p \in RefreshFromDisk(StoreRefreshed(session[s])) : session' = [session EXCEPT ![s] = p]
    BY <1>9 DEF Confirm
  <2>2. session[s].open
    BY <1>9 DEF Confirm
  <2>3. p.open
    BY <2>2, RefreshTyped
  <2> QED BY <1>9, <2>1, <2>3 DEF Confirm, TypeOK
<1>10. ASSUME NEW s \in Sessions, Flush(s) PROVE session'[t].open
  <2>1. PICK p \in RefreshFromDisk(session[s]) : session' = [session EXCEPT ![s] = p]
    BY <1>10 DEF Flush
  <2>2. session[s].open
    BY <1>10 DEF Flush
  <2>3. p.open
    BY <2>2, RefreshTyped
  <2> QED BY <1>10, <2>1, <2>3 DEF Flush, TypeOK
<1>11. ASSUME NEW s \in Sessions, Advance(s) PROVE session'[t].open
  <2>1. t # s
    BY <1>11 DEF Advance, Idle, TypeOK
  <2>2. job'[t] = job[t] /\ session'[t].open = session[t].open
    BY <1>11, <2>1 DEF Advance, Appended, TypeOK, Session
  <2> QED BY <2>2
<1>12. ASSUME NEW s \in Sessions, Refuse(s) PROVE session'[t].open
  <2>1. t # s
    BY <1>12 DEF Refuse, Idle, TypeOK
  <2> QED BY <1>12, <2>1 DEF Refuse, TypeOK
<1>13. ASSUME NEW s \in Sessions, LockBusy(s) PROVE session'[t].open
  <2>1. t # s
    BY <1>13 DEF LockBusy, Idle, TypeOK
  <2> QED BY <1>13, <2>1 DEF LockBusy, TypeOK
<1>14. ASSUME NEW s \in Sessions, StoreStaged(s) \/ StoreReset(s) PROVE session'[t].open
  <2>1. t # s /\ job'[t] = job[t]
    BY <1>14 DEF StoreStaged, StoreReset, Idle, TypeOK
  <2>2. PICK q : session' = Appended(s, q, branch')
    BY <1>14 DEF StoreStaged, StoreReset, Persist
  <2> QED BY <2>1, <2>2 DEF Appended, TypeOK, Session
<1>15. ASSUME NEW s \in Sessions, ClearWork(s) PROVE session'[t].open
  <2>1. session[s].open /\ (t # s => job'[t] = job[t])
    BY <1>15 DEF ClearWork
  <2>2. PICK q \in Session : q.open /\ session' = Appended(s, q, branch')
    BY <1>15, <2>1, ClearWorkFields
  <2> QED BY <2>1, <2>2, AppendedOpen
<1>16. CASE UNCHANGED vars
  BY <1>16 DEF vars
<1> QED
  BY <1>1, <1>2, <1>3, <1>4, <1>5, <1>6, <1>7, <1>8, <1>9, <1>10, <1>11, <1>12, <1>13, <1>14,
     <1>15, <1>16 DEF Next

LEMMA TypeKept ==
  ASSUME TypeOK, BusyOpen, [Next]_vars PROVE TypeOK'
<1>1. CASE UNCHANGED vars
  BY <1>1 DEF vars, TypeOK
<1>2. ASSUME NEW s \in Sessions, Confirm(s) \/ Flush(s) \/ Advance(s) \/ Refuse(s) PROVE TypeOK'
  <2>1. session[s].open
    BY <1>2 DEF BusyOpen, Confirm, Flush, Advance, Refuse
  <2> QED BY <1>2, <2>1, ConfirmTyped, FlushTyped, AdvanceTyped, RefuseTyped
<1>3. ASSUME NEW s \in Sessions, StoreStaged(s) \/ ClearWork(s) \/ StoreReset(s) PROVE TypeOK'
  <2>1. session[s].open
    BY <1>3 DEF BusyOpen, StoreStaged, ClearWork, StoreReset
  <2> QED BY <1>3, <2>1, StoreStagedTyped, ClearWorkTyped, StoreResetTyped
<1> QED
  BY <1>1, <1>2, <1>3, OpenTyped, CloseTyped, ReadTyped, InsertTyped, AddTyped, UnstageTyped,
     HardResetTyped, PrepareTyped, LockBusyTyped DEF Next

\* Whatever the clients do, what the branch, the sessions and their commits hold
\* is of its type: heads and tips name commits that have been made.
THEOREM TypeCorrect == Spec => []TypeOK
<1>1. Init => TypeOK /\ BusyOpen
  <2>1. Init => BusyOpen
    BY DEF Init, BusyOpen, Idle
  <2> QED BY <2>1, Started
<1>2. TypeOK /\ BusyOpen /\ [Next]_vars => (TypeOK /\ BusyOpen)'
  BY TypeKept, BusyOpenKept
<1> QED
  BY <1>1, <1>2, PTL DEF Spec

-----------------------------------------------------------------------------
(* The two shapes of a step: a session looks at the file, or stores refs.  *)

\* Session s becomes p because it has looked at the file; nobody else changes.
\* It has reloaded the working set, or its Btree stays as it is.
Looks(s, p) ==
  /\ p \in Session /\ session[s].open /\ p.open /\ ~p.news
  /\ p.head = session[s].head /\ p.base = session[s].base
  /\ \/ /\ p.cat = IF branch.work \in p.base THEN session[s].cat ELSE branch.work
        /\ p.staged \in {branch.staged, p.cat}
        /\ p.tip = branch.tip
     \/ /\ p.cat = session[s].cat
        /\ p.staged \in {session[s].staged, p.cat, CatOf(session[s].head)}
        /\ p.tip = IF session[s].news THEN branch.tip ELSE session[s].tip
        /\ session[s].news => Committing(s)
  /\ session' = [session EXCEPT ![s] = p]
  /\ UNCHANGED <<commits, branch>>

\* Session s, now p, has appended refs ...
Stores(s, p) ==
  /\ p \in Session /\ p.open /\ ~p.news
  /\ branch'.tip = p.tip
  /\ session' = Appended(s, p, branch')

\* ... with what it holds as the working set
Replaces(s, p, staged) == Stores(s, p) /\ branch'.work = p.cat /\ branch'.staged = staged

LEMMA StoresFields ==
  ASSUME TypeOK, NEW s \in Sessions, NEW p, Stores(s, p)
  PROVE  /\ branch'.tip = p.tip
         /\ session'[s].open /\ ~session'[s].news /\ session'[s].tip = p.tip
         /\ session'[s].head = p.head /\ session'[s].cat = p.cat
         /\ session'[s].base = p.base /\ session'[s].staged = p.staged
         /\ \A t \in Sessions \ {s} :
              /\ session'[t].open = session[t].open /\ session'[t].news = session[t].open
              /\ session'[t].head = session[t].head /\ session'[t].cat = session[t].cat
              /\ session'[t].base = session[t].base /\ session'[t].staged = session[t].staged
<1>2. branch'.tip = p.tip
  BY DEF Stores
<1>3. /\ session'[s] = [p EXCEPT !.tip = branch'.tip]
      /\ \A t \in Sessions \ {s} : session'[t] = [session[t] EXCEPT !.news = session[t].open]
  BY DEF Stores, Appended
<1>4. p \in Session /\ p.open /\ ~p.news
  BY DEF Stores
<1>5. /\ session'[s].open /\ ~session'[s].news /\ session'[s].tip = p.tip
      /\ session'[s].head = p.head /\ session'[s].cat = p.cat
      /\ session'[s].base = p.base /\ session'[s].staged = p.staged
  BY <1>2, <1>3, <1>4 DEF Session
<1>6. ASSUME NEW t \in Sessions \ {s}
      PROVE  /\ session'[t].open = session[t].open /\ session'[t].news = session[t].open
             /\ session'[t].head = session[t].head /\ session'[t].cat = session[t].cat
             /\ session'[t].base = session[t].base /\ session'[t].staged = session[t].staged
  <2>1. session[t] \in Session
    BY DEF TypeOK
  <2>2. session'[t] = [session[t] EXCEPT !.news = session[t].open]
    BY <1>3
  <2> QED BY <2>1, <2>2 DEF Session
<1> QED
  BY <1>2, <1>5, <1>6

LEMMA ReadLooks ==
  ASSUME TypeOK, NEW s \in Sessions, Read(s) PROVE \E p : Looks(s, p)
<1>1. PICK p \in RefreshFromDisk(session[s]) : session' = [session EXCEPT ![s] = p]
  BY DEF Read
<1>2. session[s] \in Session /\ session[s].open /\ UNCHANGED <<commits, branch>>
  BY DEF TypeOK, Read, Free
<1>3. /\ p \in Session /\ p.open = session[s].open /\ p.head = session[s].head
      /\ p.base = session[s].base /\ ~p.news
      /\ \/ p = session[s] /\ ~session[s].news
         \/ /\ p.staged = branch.staged /\ p.tip = branch.tip
            /\ p.cat = IF branch.work \in session[s].base THEN session[s].cat ELSE branch.work
  BY <1>1, <1>2, RefreshedFields
<1> QED
  BY <1>1, <1>2, <1>3 DEF Looks

LEMMA PrepareLooks ==
  ASSUME TypeOK, NEW s \in Sessions, NEW all \in BOOLEAN, NEW amend \in BOOLEAN,
         Prepare(s, all, amend)
  PROVE  \E p : /\ Looks(s, p)
                /\ \/ job' = [job EXCEPT ![s] = Idle]
                   \/ job' = [job EXCEPT ![s] = [stage |-> "built", amend |-> amend,
                                                 commit |-> [parent |-> ParentFor(p.head, amend),
                                                             cat |-> p.staged]]]
<1>1. PICK q \in RefreshFromDisk(session[s]), p \in Session :
           /\ p.open /\ p.head = session[s].head
           /\ p.tip = q.tip /\ p.base = session[s].base
           /\ p.cat = q.cat /\ p.news = q.news
           /\ p.staged = IF all THEN q.cat ELSE q.staged
           /\ session' = [session EXCEPT ![s] = p]
           /\ \/ job' = [job EXCEPT ![s] = Idle]
              \/ job' = [job EXCEPT ![s] = [stage |-> "built", amend |-> amend,
                                            commit |-> [parent |-> ParentFor(p.head, amend),
                                                        cat |-> p.staged]]]
  BY PrepareFields
<1>2. session[s] \in Session
  BY DEF TypeOK
<1>3. /\ ~q.news /\ q.base = session[s].base
      /\ \/ q = session[s] /\ ~session[s].news
         \/ /\ q.staged = branch.staged /\ q.tip = branch.tip
            /\ q.cat = IF branch.work \in session[s].base THEN session[s].cat ELSE branch.work
  BY <1>2, RefreshedFields
<1>4. session[s].open /\ UNCHANGED <<commits, branch>>
  BY DEF Prepare, Free
<1>5. Looks(s, p)
  BY <1>1, <1>3, <1>4 DEF Looks
<1> QED
  BY <1>1, <1>5

LEMMA FlushLooks ==
  ASSUME TypeOK, BusyOpen, NEW s \in Sessions, Flush(s) PROVE \E p : Looks(s, p)
<1>1. PICK p \in RefreshFromDisk(session[s]) : session' = [session EXCEPT ![s] = p]
  BY DEF Flush
<1>2. session[s] \in Session /\ session[s].open /\ UNCHANGED <<commits, branch>>
  BY DEF TypeOK, BusyOpen, Flush
<1>3. /\ p \in Session /\ p.open = session[s].open /\ p.head = session[s].head
      /\ p.base = session[s].base /\ ~p.news
      /\ \/ p = session[s] /\ ~session[s].news
         \/ /\ p.staged = branch.staged /\ p.tip = branch.tip
            /\ p.cat = IF branch.work \in session[s].base THEN session[s].cat ELSE branch.work
  BY <1>1, <1>2, RefreshedFields
<1> QED
  BY <1>1, <1>2, <1>3 DEF Looks

LEMMA ConfirmLooks ==
  ASSUME TypeOK, BusyOpen, NEW s \in Sessions, Confirm(s) PROVE \E p : Looks(s, p)
<1> DEFINE q == StoreRefreshed(session[s])
<1>1. PICK p \in RefreshFromDisk(q) : session' = [session EXCEPT ![s] = p]
  BY DEF Confirm
<1>2. session[s].open /\ Committing(s) /\ UNCHANGED <<commits, branch>>
  BY DEF Confirm, BusyOpen, Committing
<1>3. /\ q \in Session /\ q.open = session[s].open /\ q.head = session[s].head
      /\ q.base = session[s].base /\ ~q.news /\ q.cat = session[s].cat
      /\ q.staged = session[s].staged
      /\ q.tip = IF session[s].news THEN branch.tip ELSE session[s].tip
  BY StoreFields DEF TypeOK
<1> HIDE DEF q
<1>4. /\ p \in Session /\ p.open = q.open /\ p.head = q.head /\ p.base = q.base /\ ~p.news
      /\ \/ p = q /\ ~q.news
         \/ /\ p.staged = branch.staged /\ p.tip = branch.tip
            /\ p.cat = IF branch.work \in q.base THEN q.cat ELSE branch.work
  BY <1>1, <1>3, RefreshedFields
<1> QED
  BY <1>1, <1>2, <1>3, <1>4 DEF Looks

LEMMA RefuseLooks ==
  ASSUME TypeOK, BusyOpen, NEW s \in Sessions, Refuse(s) PROVE \E p : Looks(s, p)
<1> DEFINE p == StoreRefreshed(session[s])
<1>1. session' = [session EXCEPT ![s] = p]
  BY DEF Refuse
<1>2. session[s].open /\ Committing(s) /\ UNCHANGED <<commits, branch>>
  BY DEF Refuse, BusyOpen, Committing
<1>3. /\ p \in Session /\ p.open = session[s].open /\ p.head = session[s].head
      /\ p.base = session[s].base /\ ~p.news /\ p.cat = session[s].cat
      /\ p.staged = session[s].staged
      /\ p.tip = IF session[s].news THEN branch.tip ELSE session[s].tip
  BY StoreFields DEF TypeOK
<1> HIDE DEF p
<1> QED
  BY <1>1, <1>2, <1>3 DEF Looks

LEMMA AddLooks ==
  ASSUME TypeOK, NEW s \in Sessions, Add(s)
  PROVE  \E p, j : /\ Looks(s, p) /\ job' = [job EXCEPT ![s] = j]
                   /\ j.stage = "staged" /\ j.commit.cat = p.cat
                   /\ "AfterFailure" \in Habits \/ p.cat = branch.work
<1>1. PICK p \in RefreshFromDisk(session[s]) :
        /\ "AfterFailure" \in Habits \/ p.cat = branch.work
        /\ session' = [session EXCEPT ![s] = p]
        /\ job' = [job EXCEPT ![s] = [Idle EXCEPT !.stage = "staged", !.commit.cat = p.cat]]
  BY DEF Add
<1> DEFINE j == [Idle EXCEPT !.stage = "staged", !.commit.cat = p.cat]
<1>2. session[s] \in Session /\ session[s].open /\ UNCHANGED <<commits, branch>>
  BY DEF TypeOK, Add, Free
<1>3. /\ p \in Session /\ p.open = session[s].open /\ p.head = session[s].head
      /\ p.base = session[s].base /\ ~p.news
      /\ \/ p = session[s] /\ ~session[s].news
         \/ /\ p.staged = branch.staged /\ p.tip = branch.tip
            /\ p.cat = IF branch.work \in session[s].base THEN session[s].cat ELSE branch.work
  BY <1>1, <1>2, RefreshedFields
<1>4. Looks(s, p)
  BY <1>1, <1>2, <1>3 DEF Looks
<1>5. j.stage = "staged" /\ j.commit.cat = p.cat
  BY DEF Idle, NoCommit
<1>6. job' = [job EXCEPT ![s] = j]
  BY <1>1
<1> HIDE DEF j
<1> QED BY <1>1, <1>4, <1>5, <1>6

LEMMA HardResetLooks ==
  ASSUME TypeOK, NEW s \in Sessions, HardReset(s)
  PROVE  \E p, j : /\ Looks(s, p) /\ job' = [job EXCEPT ![s] = j]
                   /\ j.stage = "resetting" /\ j.commit.cat = CatOf(session[s].head)
<1> DEFINE target == CatOf(session[s].head)
           j == [Idle EXCEPT !.stage = "resetting", !.commit.cat = target]
<1>1. PICK p \in RefreshFromDisk([session[s] EXCEPT !.staged = target]) :
        session' = [session EXCEPT ![s] = p]
  BY DEF HardReset
<1>2. job' = [job EXCEPT ![s] = j] /\ session[s].open /\ UNCHANGED <<commits, branch>>
  BY DEF HardReset, Free
<1>3. target \in Catalog
  BY <1>2, CatOfTyped DEF TypeOK
<1>4. /\ p \in Session /\ p.open /\ ~p.news /\ p.base = session[s].base
      /\ p.head = session[s].head
      /\ \/ /\ ~session[s].news /\ p.cat = session[s].cat /\ p.staged = target
            /\ p.tip = session[s].tip
         \/ /\ p.staged = branch.staged /\ p.tip = branch.tip
            /\ p.cat = IF branch.work \in p.base THEN session[s].cat ELSE branch.work
  BY <1>2, <1>3, ResetTyped
<1>5. Looks(s, p)
  BY <1>1, <1>2, <1>4 DEF Looks
<1>6. j.stage = "resetting" /\ j.commit.cat = target
  BY DEF Idle, NoCommit
<1> HIDE DEF j
<1> QED BY <1>2, <1>5, <1>6

\* A store that has seen the file has the branch's tip.
TipInv == \A s \in Sessions : session[s].open /\ ~session[s].news => session[s].tip = branch.tip

LEMMA PersistStores ==
  ASSUME TypeOK, NEW s \in Sessions, NEW p \in Session, p.open, ~p.news, p.tip = branch.tip,
         Persist(s, p)
  PROVE  Stores(s, p) /\ ("StoreAgain" \in Habits \/ Replaces(s, p, p.staged))
<1>1. StoreRefreshed(p) = p
  BY DEF StoreRefreshed
<1>2. /\ branch' \in {[tip |-> p.tip, work |-> p.cat, staged |-> p.staged, head |-> p.head], branch}
      /\ "StoreAgain" \in Habits \/
           branch' = [tip |-> p.tip, work |-> p.cat, staged |-> p.staged, head |-> p.head]
  BY DEF Persist, Stored
<1>3. branch'.tip = p.tip /\ session' = Appended(s, p, branch')
  BY <1>1, <1>2 DEF Persist
<1> QED
  BY <1>2, <1>3 DEF Stores, Replaces

\* Between the last refresh of dolt_add or dolt_reset --hard and its end nobody
\* else appends, and one session at a time gets so far.
WindowInv == \A s \in Sessions : Storing(s) =>
               ~session[s].news /\ \A t \in Sessions : Storing(t) => t = s

LEMMA WindowTip ==
  ASSUME TypeOK, BusyOpen, TipInv, WindowInv, NEW s \in Sessions, Storing(s)
  PROVE  /\ session[s] \in Session /\ session[s].open /\ ~session[s].news
         /\ session[s].tip = branch.tip /\ job[s].commit.cat \in Catalog
         /\ \A t \in Sessions \ {s} : ~Storing(t)
<1>1. session[s].open
  BY DEF BusyOpen, Storing, Resetting
<1> QED
  BY <1>1 DEF TypeOK, TipInv, WindowInv, Job, Commit

LEMMA InsertStores ==
  ASSUME TypeOK, NEW s \in Sessions, NEW r \in Rows, Insert(s, r)
  PROVE  \E p : /\ Replaces(s, p, p.staged) /\ p.tip = branch.tip /\ p.head = session[s].head
                /\ p.base = {p.cat} /\ p.staged = branch.staged
                /\ (IF branch.work \in session[s].base THEN session[s].cat ELSE branch.work)
                     \subseteq p.cat
                /\ "StoreAgain" \in Habits \/ ~Remembered(s, p.cat)
<1> DEFINE q == ReloadWorkingState(session[s])
           work == q.cat \cup {r}
           p == [q EXCEPT !.cat = work, !.base = {work}]
<1>1. session[s] \in Session /\ session[s].open
  BY DEF TypeOK, Insert, Free
<1>2. /\ q \in Session /\ q.open /\ q.head = session[s].head /\ ~q.news
      /\ q.staged = branch.staged /\ q.tip = branch.tip
      /\ q.cat = IF branch.work \in session[s].base THEN session[s].cat ELSE branch.work
  BY <1>1, ReloadedFields
<1>3. work \in Catalog
  BY <1>2 DEF Session, Catalog
<1>4. /\ branch' = [branch EXCEPT !.work = work, !.staged = q.staged, !.head = q.head]
      /\ session' = Appended(s, p, branch')
      /\ "StoreAgain" \in Habits \/ ~Remembered(s, work)
  BY DEF Insert
<1>5. q.cat \subseteq work
  OBVIOUS
<1> HIDE DEF q, work
<1>6. /\ p \in Session /\ p.open /\ ~p.news /\ p.head = session[s].head /\ p.cat = work
      /\ p.base = {work} /\ p.staged = branch.staged /\ p.tip = branch.tip
  BY <1>2, <1>3 DEF Session
<1>7. branch'.tip = p.tip /\ branch'.work = p.cat /\ branch'.staged = p.staged
  <2>1. branch \in Branch
    BY DEF TypeOK
  <2> HIDE DEF p
  <2> QED BY <1>2, <1>4, <1>6, <2>1 DEF Branch
<1>8. Replaces(s, p, p.staged)
  BY <1>4, <1>6, <1>7 DEF Stores, Replaces
<1> HIDE DEF p
<1> QED BY <1>2, <1>4, <1>5, <1>6, <1>8

LEMMA StoreStagedStores ==
  ASSUME TypeOK, BusyOpen, TipInv, WindowInv, NEW s \in Sessions, StoreStaged(s)
  PROVE  \E p : /\ Stores(s, p) /\ ("StoreAgain" \in Habits \/ Replaces(s, p, p.staged))
                /\ p.tip = branch.tip /\ p.head = session[s].head
                /\ p.base = session[s].base /\ p.cat = session[s].cat
                /\ p.staged = job[s].commit.cat
<1> DEFINE p == [session[s] EXCEPT !.staged = job[s].commit.cat]
<1>1. /\ session[s] \in Session /\ session[s].open /\ ~session[s].news
      /\ session[s].tip = branch.tip /\ job[s].commit.cat \in Catalog
  BY WindowTip DEF StoreStaged, Storing
<1>2. /\ p \in Session /\ p.open /\ ~p.news /\ p.tip = branch.tip /\ p.head = session[s].head
      /\ p.base = session[s].base /\ p.cat = session[s].cat /\ p.staged = job[s].commit.cat
  BY <1>1 DEF Session
<1>3. Persist(s, p)
  BY DEF StoreStaged
<1> HIDE DEF p
<1>4. Stores(s, p) /\ ("StoreAgain" \in Habits \/ Replaces(s, p, p.staged))
  BY <1>2, <1>3, PersistStores
<1> QED BY <1>2, <1>4

LEMMA ClearWorkStores ==
  ASSUME TypeOK, BusyOpen, TipInv, WindowInv, NEW s \in Sessions, ClearWork(s)
  PROVE  \E p : /\ Stores(s, p) /\ ("StoreAgain" \in Habits \/ Replaces(s, p, session[s].staged))
                /\ p.tip = branch.tip /\ p.head = session[s].head
                /\ p.base = session[s].base /\ p.cat = job[s].commit.cat
                /\ p.staged = job[s].commit.cat
<1>1. session[s].open /\ ~session[s].news /\ session[s].tip = branch.tip
  BY WindowTip DEF ClearWork, Storing, Resetting
<1>2. PICK q, p \in Session :
           /\ q.cat = job[s].commit.cat /\ q.staged = session[s].staged
           /\ q.tip = session[s].tip /\ q.news = session[s].news
           /\ p.open /\ p.head = session[s].head /\ p.base = session[s].base /\ ~p.news
           /\ p.cat = job[s].commit.cat /\ p.staged = job[s].commit.cat
           /\ p.tip = IF session[s].news THEN branch.tip ELSE session[s].tip
           /\ branch' \in Stored(q, 0) /\ session' = Appended(s, p, branch')
  BY <1>1, ClearWorkFields
<1>3. /\ branch' \in {[tip |-> q.tip, work |-> q.cat, staged |-> q.staged, head |-> 0], branch}
      /\ "StoreAgain" \in Habits \/
           branch' = [tip |-> q.tip, work |-> q.cat, staged |-> q.staged, head |-> 0]
  BY <1>1, <1>2 DEF Stored
<1>4. branch'.tip = branch.tip /\ p.tip = branch.tip
  BY <1>1, <1>2, <1>3
<1>5. Stores(s, p)
  BY <1>2, <1>4 DEF Stores
<1>6. "StoreAgain" \in Habits \/ Replaces(s, p, session[s].staged)
  BY <1>2, <1>3, <1>5 DEF Replaces
<1> QED BY <1>2, <1>4, <1>5, <1>6

LEMMA StoreResetStores ==
  ASSUME TypeOK, BusyOpen, TipInv, WindowInv, NEW s \in Sessions, StoreReset(s)
  PROVE  /\ Stores(s, session[s]) /\ session[s].tip = branch.tip
         /\ "StoreAgain" \in Habits \/ Replaces(s, session[s], session[s].staged)
<1>1. /\ session[s] \in Session /\ session[s].open /\ ~session[s].news
      /\ session[s].tip = branch.tip
  BY WindowTip DEF StoreReset, Storing, Resetting
<1> QED
  BY <1>1, PersistStores DEF StoreReset

LEMMA UnstageStores ==
  ASSUME TypeOK, TipInv, "ResetBehind" \notin Habits, NEW s \in Sessions, Unstage(s)
  PROVE  \E p : /\ Stores(s, p) /\ ("StoreAgain" \in Habits \/ Replaces(s, p, p.staged))
                /\ p.tip = branch.tip /\ p.head = session[s].head
                /\ p.base = session[s].base
                /\ branch.tip = session[s].head /\ p.staged = CatOf(branch.tip)
                /\ "AfterFailure" \in Habits \/ p.cat = branch.work
<1> DEFINE p == [session[s] EXCEPT !.staged = CatOf(session[s].head)]
<1>1. /\ session[s] \in Session /\ session[s].open /\ session[s].head \in 1..Len(commits)
      /\ branch.tip = session[s].head /\ ~session[s].news /\ Persist(s, p)
      /\ "AfterFailure" \in Habits \/ session[s].cat = branch.work
  BY DEF TypeOK, Unstage, Free, HeadConfirmed
<1>2. CatOf(session[s].head) \in Catalog
  BY <1>1, CatOfTyped
<1>3. /\ p \in Session /\ p.open /\ ~p.news /\ p.tip = session[s].tip /\ p.cat = session[s].cat
      /\ p.head = session[s].head /\ p.base = session[s].base /\ p.staged = CatOf(session[s].head)
  BY <1>1, <1>2 DEF Session
<1> HIDE DEF p
<1>4. p.tip = branch.tip
  BY <1>1, <1>3 DEF TipInv
<1>5. Stores(s, p) /\ ("StoreAgain" \in Habits \/ Replaces(s, p, p.staged))
  BY <1>1, <1>3, <1>4, PersistStores
<1> QED BY <1>1, <1>3, <1>4, <1>5

LEMMA AdvanceStores ==
  ASSUME TypeOK, BusyOpen, NEW s \in Sessions, Advance(s)
  PROVE  \E p : /\ Replaces(s, p, p.staged) /\ p.tip = Len(commits) + 1 /\ p.head = Len(commits) + 1
                /\ p.base = session[s].base /\ p.cat = session[s].cat
                /\ p.staged = job[s].commit.cat
<1> DEFINE new == Len(commits) + 1
           staged == job[s].commit.cat
           q == StoreRefreshed(session[s])
           p0 == [q EXCEPT !.head = new, !.staged = staged]
           p == [p0 EXCEPT !.tip = new]
<1>1. session[s] \in Session /\ session[s].open /\ job[s] \in Job
  BY DEF TypeOK, BusyOpen, Advance
<1>2. /\ q \in Session /\ q.open /\ ~q.news
      /\ q.base = session[s].base /\ q.cat = session[s].cat
  BY <1>1, StoreFields
<1>3. staged \in Catalog
  BY <1>1 DEF Job, Commit
<1>4. new \in CommitId
  BY CommitsAssumption DEF TypeOK, CommitId, Advance
<1>5. /\ branch' = [tip |-> new, work |-> session[s].cat, staged |-> staged, head |-> new]
      /\ session' = Appended(s, p0, branch')
  BY DEF Advance
<1> HIDE DEF new, staged, q
<1>6. /\ p0 \in Session /\ p \in Session /\ p.open /\ ~p.news /\ p.tip = new /\ p.head = new
      /\ p.base = session[s].base /\ p.cat = session[s].cat /\ p.staged = staged
  BY <1>2, <1>3, <1>4 DEF Session
<1>7. branch'.tip = p.tip /\ branch'.work = p.cat /\ branch'.staged = p.staged
  BY <1>5, <1>6
<1>8. session' = Appended(s, p, branch')
  <2>1. branch'.tip = new
    BY <1>5
  <2>2. [p EXCEPT !.tip = new] = [p0 EXCEPT !.tip = new]
    BY <1>6 DEF Session
  <2> HIDE DEF p, p0
  <2> QED BY <1>5, <2>1, <2>2 DEF Appended
<1> HIDE DEF p, p0
<1>9. Replaces(s, p, p.staged)
  BY <1>6, <1>7, <1>8 DEF Stores, Replaces
<1> QED BY <1>6, <1>9 DEF new, staged

-----------------------------------------------------------------------------
(* No commit drops off the branch.                                         *)

AtTip(s) == session[s].open /\ session[s].head = branch.tip

\* A commit that has been built goes on the session's head, and from the time
\* that head is confirmed it is the tip: one dolt_commit at a time gets so far.
JobInv == \A s \in Sessions : Committing(s) =>
            /\ job[s].commit.parent = IF job[s].amend THEN commits[session[s].head].parent
                                                      ELSE session[s].head
            /\ job[s].stage = "confirmed" =>
                 /\ AtTip(s)
                 /\ \A t \in Sessions : job[t].stage = "confirmed" => t = s

LineInv == TypeOK /\ BusyOpen /\ TipInv /\ JobInv /\ WindowInv

\* sessions commit in turn, nobody stores while another is in its dolt_add or
\* dolt_reset --hard, and dolt_reset is run when nobody has gone on
OnTime == Habits \cap {"CommitTogether", "StoreTogether", "ResetBehind"} = {}

LEMMA LooksTip ==
  ASSUME TypeOK, TipInv, NEW s \in Sessions, NEW p, Looks(s, p) PROVE TipInv'
<1>1. p.tip = branch.tip /\ branch' = branch
  BY DEF Looks, TipInv
<1>2. \A t \in Sessions : session'[t] = IF t = s THEN p ELSE session[t]
  BY DEF Looks, TypeOK
<1> QED
  BY <1>1, <1>2 DEF TipInv

LEMMA StoresTip ==
  ASSUME TypeOK, NEW s \in Sessions, NEW p, Stores(s, p) PROVE TipInv'
<1>1. \A t \in Sessions \ {s} : session'[t].open = session[t].open /\ session'[t].news = session[t].open
  BY StoresFields
<1>2. session'[s].tip = branch'.tip
  BY StoresFields
<1> QED
  BY <1>1, <1>2 DEF TipInv

LEMMA LooksJob ==
  ASSUME TypeOK, JobInv, NEW s \in Sessions, NEW p, Looks(s, p), NEW j,
         job' = [job EXCEPT ![s] = j],
         j.stage \in {"built", "confirmed"} =>
           /\ j.commit.parent = IF j.amend THEN commits[p.head].parent ELSE p.head
           /\ j.stage = "confirmed" =>
                AtTip(s) /\ \A t \in Sessions \ {s} : job[t].stage # "confirmed"
  PROVE  JobInv'
<1>1. /\ p.head = session[s].head /\ p.open /\ session[s].open
      /\ branch' = branch /\ commits' = commits
  BY DEF Looks
<1>2. \A t \in Sessions : session'[t] = IF t = s THEN p ELSE session[t]
  BY DEF Looks, TypeOK
<1>3. \A t \in Sessions : job'[t] = IF t = s THEN j ELSE job[t]
  BY DEF TypeOK
<1>4. ASSUME NEW t \in Sessions
      PROVE  session'[t].head = session[t].head /\ session'[t].open = session[t].open
  <2>1. CASE t = s
    BY <1>1, <1>2, <2>1
  <2>2. CASE t # s
    BY <1>2, <2>2
  <2> QED BY <2>1, <2>2
<1>5. \A t \in Sessions : AtTip(t)' <=> AtTip(t)
  BY <1>1, <1>4 DEF AtTip
<1>6. ASSUME NEW t \in Sessions, Committing(t)'
      PROVE  /\ job'[t].commit.parent = IF job'[t].amend THEN commits'[session'[t].head].parent
                                                         ELSE session'[t].head
             /\ job'[t].stage = "confirmed" =>
                  /\ AtTip(t)'
                  /\ \A u \in Sessions : job'[u].stage = "confirmed" => u = t
  <2>1. CASE t = s
    <3>1. j.stage \in {"built", "confirmed"} /\ job'[t] = j
      BY <1>3, <1>6, <2>1 DEF Committing
    <3>2. /\ j.commit.parent = IF j.amend THEN commits[p.head].parent ELSE p.head
          /\ j.stage = "confirmed" =>
               AtTip(s) /\ \A u \in Sessions \ {s} : job[u].stage # "confirmed"
      BY <3>1
    <3> QED BY <1>1, <1>2, <1>3, <1>5, <2>1, <3>1, <3>2
  <2>2. CASE t # s
    <3>1. job'[t] = job[t] /\ session'[t] = session[t]
      BY <1>2, <1>3, <2>2
    <3>2. job[t].stage = "confirmed" => job'[s].stage # "confirmed"
      BY <1>3, <2>2 DEF JobInv, Committing
    <3> QED BY <1>1, <1>3, <1>5, <1>6, <2>2, <3>1, <3>2 DEF JobInv, Committing
  <2> QED BY <2>1, <2>2
<1> QED
  BY <1>6 DEF JobInv

\* Refs that do not move the tip leave the commits in the making valid.
LEMMA StoresJob ==
  ASSUME TypeOK, BusyOpen, JobInv, NEW s \in Sessions, NEW p, Stores(s, p),
         p.tip = branch.tip, p.head = session[s].head, UNCHANGED commits,
         NEW j, job' = [job EXCEPT ![s] = j], j.stage \in {"built", "confirmed"} => j = job[s]
  PROVE  JobInv'
<1>1. \A t \in Sessions : /\ session'[t].head = session[t].head
                          /\ session[t].open => session'[t].open
  BY StoresFields
<1>2. branch'.tip = branch.tip
  BY StoresFields
<1>3. \A t \in Sessions : AtTip(t) => AtTip(t)'
  BY <1>1, <1>2 DEF AtTip
<1>4. \A t \in Sessions : Committing(t)' => Committing(t) /\ job'[t] = job[t]
  BY DEF Committing, TypeOK
<1>5. ASSUME NEW t \in Sessions, Committing(t)'
      PROVE  /\ job'[t].commit.parent = IF job'[t].amend THEN commits'[session'[t].head].parent
                                                         ELSE session'[t].head
             /\ job'[t].stage = "confirmed" =>
                  /\ AtTip(t)'
                  /\ \A u \in Sessions : job'[u].stage = "confirmed" => u = t
  <2>1. \A u \in Sessions : job'[u].stage = "confirmed" => job[u].stage = "confirmed"
    BY <1>4 DEF Committing
  <2> QED BY <1>1, <1>3, <1>4, <1>5, <2>1 DEF JobInv
<1> QED
  BY <1>5 DEF JobInv

\* What a look or an append leaves of the window.
LEMMA LooksWindow ==
  ASSUME TypeOK, WindowInv, NEW s \in Sessions, NEW p, Looks(s, p), NEW j,
         job' = [job EXCEPT ![s] = j],
         j.stage \in {"staged", "resetting", "cleared"} => \A t \in Sessions \ {s} : ~Storing(t)
  PROVE  WindowInv'
<1>1. \A t \in Sessions : /\ session'[t] = IF t = s THEN p ELSE session[t]
                          /\ job'[t] = IF t = s THEN j ELSE job[t]
  BY DEF Looks, TypeOK
<1>2. ~p.news
  BY DEF Looks
<1>3. \A t \in Sessions \ {s} : Storing(t)' <=> Storing(t)
  BY <1>1 DEF Storing, Resetting
<1>4. Storing(s)' => \A t \in Sessions \ {s} : ~Storing(t)
  BY <1>1 DEF Storing, Resetting
<1> QED
  BY <1>1, <1>2, <1>3, <1>4 DEF WindowInv

LEMMA StoresWindow ==
  ASSUME TypeOK, NEW s \in Sessions, NEW p, Stores(s, p), NEW j, job' = [job EXCEPT ![s] = j],
         \A t \in Sessions \ {s} : ~Storing(t)
  PROVE  WindowInv'
<1>1. ~session'[s].news
  BY StoresFields
<1>2. \A t \in Sessions \ {s} : ~Storing(t)'
  BY DEF TypeOK, Storing, Resetting
<1> QED
  BY <1>1, <1>2 DEF WindowInv

LEMMA CommitsStay ==
  ASSUME TypeOK, NEW s \in Sessions, Advance(s)
  PROVE  /\ \A c \in 1..Len(commits) : commits'[c] = commits[c]
         /\ commits'[Len(commits) + 1] = job[s].commit
<1>1. commits \in Seq(Commit) /\ job[s].commit \in Commit /\ commits' = Append(commits, job[s].commit)
  BY DEF TypeOK, Advance, Job
<1> QED
  BY <1>1

LEMMA AdvanceJob ==
  ASSUME TypeOK, BusyOpen, JobInv, NEW s \in Sessions, Advance(s)
  PROVE  JobInv'
<1>1. job' = [job EXCEPT ![s] = Idle] /\ job[s].stage = "confirmed"
  BY DEF Advance
<1>2. \A t \in Sessions \ {s} : job'[t] = job[t] /\ job[t].stage # "confirmed"
  BY <1>1 DEF JobInv, TypeOK, Committing
<1>3. job'[s].stage = "idle"
  BY <1>1 DEF Idle, TypeOK
<1>4. \A t \in Sessions \ {s} : session'[t].head = session[t].head
  BY AdvanceStores, StoresFields DEF Replaces
<1>5. \A t \in Sessions \ {s} : Committing(t) => session[t].head \in 1..Len(commits)
  BY DEF BusyOpen, TypeOK, Committing
<1>6. \A c \in 1..Len(commits) : commits'[c] = commits[c]
  BY CommitsStay
<1>7. ASSUME NEW t \in Sessions, Committing(t)'
      PROVE  /\ job'[t].commit.parent = IF job'[t].amend THEN commits'[session'[t].head].parent
                                                         ELSE session'[t].head
             /\ job'[t].stage # "confirmed"
  <2>1. t # s
    BY <1>3, <1>7 DEF Committing
  <2>2. Committing(t)
    BY <1>2, <1>7, <2>1 DEF Committing
  <2> QED BY <1>2, <1>4, <1>5, <1>6, <2>1, <2>2 DEF JobInv
<1> QED
  BY <1>7 DEF JobInv

\* One step that does not make a commit.
LEMMA LineStep ==
  ASSUME LineInv, OnTime, NEW s \in Sessions,
         \/ Open(s) \/ Close(s) \/ Read(s) \/ Add(s) \/ Unstage(s) \/ HardReset(s)
         \/ StoreStaged(s) \/ ClearWork(s) \/ StoreReset(s)
         \/ Confirm(s) \/ Flush(s) \/ Refuse(s) \/ LockBusy(s)
         \/ \E r \in Rows : Insert(s, r)
         \/ \E all, amend \in BOOLEAN : Prepare(s, all, amend)
  PROVE  TipInv' /\ JobInv' /\ WindowInv' /\ branch'.tip = branch.tip
<1> USE DEF LineInv
<1>0. Idle.stage = "idle" /\ job = [job EXCEPT ![s] = job[s]]
  BY DEF Idle, TypeOK
<1>1. CASE Open(s) \/ Close(s)
  <2>1. /\ \A t \in Sessions \ {s} : session'[t] = session[t]
        /\ UNCHANGED <<commits, branch, job>>
        /\ session'[s].open => session'[s].tip = branch.tip
    BY <1>1 DEF Open, Close, TypeOK, Closed
  <2>2. job[s].stage = "idle"
    BY <1>1 DEF Open, Close, Free, BusyOpen
  <2>3. ~Storing(s) /\ ~Committing(s)
    BY <2>2 DEF Storing, Resetting, Committing
  <2>4. \A t \in Sessions : (Storing(t)' <=> Storing(t)) /\ (Committing(t)' <=> Committing(t))
    BY <2>1 DEF Storing, Resetting, Committing
  <2>5. TipInv' /\ WindowInv'
    BY <2>1, <2>3, <2>4 DEF TipInv, WindowInv
  <2>6. \A t \in Sessions \ {s} : AtTip(t) => AtTip(t)'
    BY <2>1 DEF AtTip
  <2>7. JobInv'
    BY <2>1, <2>3, <2>4, <2>6 DEF JobInv
  <2> QED BY <2>1, <2>5, <2>7
<1>2. CASE Read(s) \/ Flush(s)
  <2>1. PICK p : Looks(s, p)
    BY <1>2, ReadLooks, FlushLooks
  <2>2. job' = [job EXCEPT ![s] = job[s]] /\ UNCHANGED branch
    BY <1>0, <1>2 DEF Read, Flush
  <2>3. p.head = session[s].head
    BY <2>1 DEF Looks
  <2> DEFINE j == job[s]
  <2>4. j.stage \in {"built", "confirmed"} =>
          /\ j.commit.parent = IF j.amend THEN commits[p.head].parent ELSE p.head
          /\ j.stage = "confirmed" =>
               AtTip(s) /\ \A t \in Sessions \ {s} : job[t].stage # "confirmed"
    BY <2>3 DEF JobInv, Committing
  <2>5. j.stage \in {"staged", "resetting", "cleared"} => \A t \in Sessions \ {s} : ~Storing(t)
    BY DEF WindowInv, Storing, Resetting
  <2>6. job' = [job EXCEPT ![s] = j]
    BY <2>2
  <2> HIDE DEF j
  <2> QED BY <2>1, <2>2, <2>4, <2>5, <2>6, LooksTip, LooksJob, LooksWindow
<1>3. CASE Confirm(s)
  <2>1. PICK p : Looks(s, p)
    BY <1>3, ConfirmLooks
  <2> DEFINE j == [job[s] EXCEPT !.stage = "confirmed"]
  <2>2. job' = [job EXCEPT ![s] = j] /\ UNCHANGED branch
    BY <1>3 DEF Confirm
  <2>3. /\ j.commit = job[s].commit /\ j.amend = job[s].amend /\ job[s].stage = "built"
        /\ j.stage = "confirmed"
    BY <1>3 DEF Confirm, TypeOK, Job
  <2>4. p.head = session[s].head
    BY <2>1 DEF Looks
  <2>5. AtTip(s) /\ \A t \in Sessions : job[t].stage # "confirmed"
    BY <1>3 DEF Confirm, OnTime, AtTip, HeadConfirmed, BusyOpen
  <2>6. j.commit.parent = IF j.amend THEN commits[p.head].parent ELSE p.head
    BY <2>3, <2>4 DEF JobInv, Committing
  <2> HIDE DEF j
  <2>7. JobInv'
    BY <2>1, <2>2, <2>5, <2>6, LooksJob
  <2> QED BY <2>1, <2>2, <2>3, <2>7, LooksTip, LooksWindow
<1>4. CASE Refuse(s)
  <2>1. PICK p : Looks(s, p)
    BY <1>4, RefuseLooks
  <2>2. job' = [job EXCEPT ![s] = Idle] /\ UNCHANGED branch
    BY <1>4 DEF Refuse
  <2>3. JobInv' /\ WindowInv'
    BY <1>0, <2>1, <2>2, LooksJob, LooksWindow
  <2> QED BY <2>1, <2>2, <2>3, LooksTip
<1>5. CASE LockBusy(s)
  <2>1. \A t \in Sessions : job'[t] = IF t = s THEN Idle ELSE job[t]
    BY <1>5 DEF LockBusy, TypeOK
  <2>2. UNCHANGED <<commits, branch, session>>
    BY <1>5 DEF LockBusy
  <2>3. \A t \in Sessions : (Storing(t)' => Storing(t)) /\ (Committing(t)' => Committing(t) /\ job'[t] = job[t])
    BY <1>0, <2>1 DEF Storing, Resetting, Committing
  <2>4. \A t \in Sessions : job'[t].stage = "confirmed" => job[t].stage = "confirmed"
    BY <1>0, <2>1
  <2>5. TipInv' /\ WindowInv'
    BY <2>2, <2>3 DEF TipInv, WindowInv
  <2>6. \A t \in Sessions : AtTip(t)' <=> AtTip(t)
    BY <2>2 DEF AtTip
  <2>7. JobInv'
    BY <2>2, <2>3, <2>4, <2>6 DEF JobInv
  <2> QED BY <2>2, <2>5, <2>7
<1>6. ASSUME NEW all \in BOOLEAN, NEW amend \in BOOLEAN, Prepare(s, all, amend)
      PROVE  TipInv' /\ JobInv' /\ WindowInv' /\ branch'.tip = branch.tip
  <2>1. PICK p : /\ Looks(s, p)
                 /\ \/ job' = [job EXCEPT ![s] = Idle]
                    \/ job' = [job EXCEPT ![s] = [stage |-> "built", amend |-> amend,
                                                  commit |-> [parent |-> ParentFor(p.head, amend),
                                                              cat |-> p.staged]]]
    BY <1>6, PrepareLooks
  <2> DEFINE j == [stage |-> "built", amend |-> amend,
                   commit |-> [parent |-> ParentFor(p.head, amend), cat |-> p.staged]]
  <2>2. /\ j.stage = "built"
        /\ j.commit.parent = IF j.amend THEN commits[p.head].parent ELSE p.head
    BY DEF ParentFor, Parent
  <2>3. job' = [job EXCEPT ![s] = Idle] \/ job' = [job EXCEPT ![s] = j]
    BY <2>1
  <2> HIDE DEF j
  <2>4. JobInv' /\ WindowInv'
    BY <1>0, <2>1, <2>2, <2>3, LooksJob, LooksWindow
  <2>5. UNCHANGED branch
    BY <1>6 DEF Prepare
  <2> QED BY <2>1, <2>4, <2>5, LooksTip
<1>7. CASE Add(s) \/ HardReset(s)
  <2>1. PICK p, j : /\ Looks(s, p) /\ job' = [job EXCEPT ![s] = j]
                    /\ j.stage \in {"staged", "resetting"}
    BY <1>7, AddLooks, HardResetLooks
  <2>2. (\A t \in Sessions \ {s} : ~Storing(t)) /\ UNCHANGED branch
    BY <1>7 DEF Add, HardReset, Alone, OnTime
  <2>3. JobInv' /\ WindowInv'
    BY <2>1, <2>2, LooksJob, LooksWindow
  <2> QED BY <2>1, <2>2, <2>3, LooksTip
<1>8. CASE Unstage(s) \/ \E r \in Rows : Insert(s, r)
  <2>1. PICK p : Stores(s, p) /\ p.tip = branch.tip /\ p.head = session[s].head
    BY <1>8, UnstageStores, InsertStores DEF OnTime, Replaces
  <2>2. UNCHANGED commits /\ job' = [job EXCEPT ![s] = job[s]]
    BY <1>0, <1>8 DEF Unstage, Insert
  <2>3. \A t \in Sessions \ {s} : ~Storing(t)
    BY <1>8 DEF Unstage, Insert, Alone, OnTime
  <2>4. branch'.tip = branch.tip
    BY <2>1, StoresFields
  <2> QED BY <2>1, <2>2, <2>3, <2>4, StoresTip, StoresJob, StoresWindow
<1>9. CASE StoreStaged(s) \/ ClearWork(s) \/ StoreReset(s)
  <2>1. PICK p : Stores(s, p) /\ p.tip = branch.tip /\ p.head = session[s].head
    BY <1>9, StoreStagedStores, ClearWorkStores, StoreResetStores
  <2>2. UNCHANGED commits /\ \E j : job' = [job EXCEPT ![s] = j] /\ j.stage \in {"idle", "cleared"}
    <3>1. CASE StoreStaged(s) \/ StoreReset(s)
      BY <1>0, <3>1 DEF StoreStaged, StoreReset
    <3>2. CASE ClearWork(s)
      <4>1. job' = [job EXCEPT ![s] = [job[s] EXCEPT !.stage = "cleared"]] /\ UNCHANGED commits
        BY <3>2 DEF ClearWork
      <4>2. [job[s] EXCEPT !.stage = "cleared"].stage = "cleared"
        BY DEF TypeOK, Job
      <4> QED BY <4>1, <4>2
    <3> QED BY <1>9, <3>1, <3>2
  <2>3. \A t \in Sessions \ {s} : ~Storing(t)
    <3>1. Storing(s)
      BY <1>9 DEF StoreStaged, ClearWork, StoreReset, Storing, Resetting
    <3> QED BY <3>1, WindowTip
  <2>4. branch'.tip = branch.tip
    BY <2>1, StoresFields
  <2> QED BY <2>1, <2>2, <2>3, <2>4, StoresTip, StoresJob, StoresWindow
<1> QED
  BY <1>1, <1>2, <1>3, <1>4, <1>5, <1>6, <1>7, <1>8, <1>9

LEMMA LineKept ==
  ASSUME LineInv, OnTime, [Next]_vars
  PROVE  /\ LineInv'
         /\ branch'.tip # branch.tip =>
              \E s \in Sessions :
                /\ job[s].stage = "confirmed" /\ job'[s].stage = "idle"
                /\ commits'[branch'.tip].parent = IF job[s].amend THEN Parent(branch.tip)
                                                                  ELSE branch.tip
<1>1. TypeOK' /\ BusyOpen'
  BY TypeKept, BusyOpenKept DEF LineInv
<1>2. CASE UNCHANGED vars
  BY <1>1, <1>2 DEF vars, LineInv, TipInv, JobInv, AtTip, WindowInv, Storing, Resetting, Committing
<1>3. ASSUME NEW s \in Sessions, Advance(s)
      PROVE  /\ TipInv' /\ JobInv' /\ WindowInv'
             /\ job[s].stage = "confirmed" /\ job'[s].stage = "idle"
             /\ commits'[branch'.tip].parent = IF job[s].amend THEN Parent(branch.tip)
                                                               ELSE branch.tip
  <2>1. PICK p : Stores(s, p) /\ p.tip = Len(commits) + 1
    BY <1>3, AdvanceStores DEF LineInv, Replaces
  <2>2. TipInv' /\ JobInv' /\ branch'.tip = Len(commits) + 1
    BY <1>3, <2>1, StoresTip, StoresFields, AdvanceJob DEF LineInv
  <2>3. job[s].stage = "confirmed" /\ job'[s].stage = "idle" /\ job' = [job EXCEPT ![s] = Idle]
    BY <1>3 DEF Advance, Idle, LineInv, TypeOK
  <2>4. \A t \in Sessions \ {s} : ~Storing(t)
    BY <1>3 DEF Advance, Alone, OnTime
  <2>5. WindowInv'
    BY <2>1, <2>3, <2>4, StoresWindow DEF LineInv
  <2>6. commits'[branch'.tip] = job[s].commit
    BY <1>3, <2>2, CommitsStay DEF LineInv
  <2>7. /\ session[s].head = branch.tip
        /\ job[s].commit.parent = IF job[s].amend THEN commits[session[s].head].parent
                                                  ELSE session[s].head
    BY <2>3 DEF LineInv, JobInv, AtTip, Committing
  <2> QED BY <2>2, <2>3, <2>5, <2>6, <2>7 DEF Parent
<1> QED
  BY <1>1, <1>2, <1>3, LineStep DEF Next, LineInv, vars

\* While sessions commit in turn, nobody stores during another's dolt_add or
\* dolt_reset --hard, and dolt_reset is run when nobody has gone on, the tip is moved
\* by dolt_commit only, onto a commit that has the old tip, or with --amend the old
\* tip's parent, as its parent.
THEOREM NothingDropped == OnTime => (Spec => TipAdvances)
<1> SUFFICES ASSUME OnTime PROVE Spec => TipAdvances
  OBVIOUS
<1>1. Init => LineInv
  <2>1. Init => TypeOK
    BY Started
  <2>2. Init => BusyOpen /\ TipInv /\ JobInv /\ WindowInv
    BY DEF Init, BusyOpen, TipInv, JobInv, WindowInv, Storing, Resetting, Committing, Idle, Closed
  <2> QED BY <2>1, <2>2 DEF LineInv
<1>2. LineInv /\ [Next]_vars => LineInv'
  BY LineKept
<1>3. LineInv /\ [Next]_vars =>
        [branch'.tip # branch.tip =>
           \E s \in Sessions :
             /\ job[s].stage = "confirmed" /\ job'[s].stage = "idle"
             /\ commits'[branch'.tip].parent = IF job[s].amend THEN Parent(branch.tip)
                                                               ELSE branch.tip]_vars
  BY LineKept
<1> QED
  BY <1>1, <1>2, <1>3, PTL DEF Spec, TipAdvances

-----------------------------------------------------------------------------
(* Committed rows stay.                                                    *)

Committed == CatOf(branch.tip)

\* no dolt_reset --hard is between its two appends: then the file's staged catalog
\* may be one of before
NotCleared == \A t \in Sessions : job[t].stage # "cleared"

\* a session that holds one state of the file
Sound(s) == Committing(s) \/ (~session[s].news /\ NotCleared)

\* a session that is at the tip and has seen the file, or is in its dolt_commit
Current(s) == AtTip(s) /\ (~session[s].news \/ Committing(s))

OrderInv == \A c \in 1..Len(commits) : Parent(c) < c

BranchInv == /\ Committed \subseteq branch.staged /\ Committed \subseteq branch.work
             /\ NotCleared => branch.staged \subseteq branch.work

\* What a session at the tip holds; the catalog it would not load is the one it has.
SessionInv == \A s \in Sessions : AtTip(s) =>
                /\ Committed \subseteq session[s].staged /\ Committed \subseteq session[s].cat
                /\ branch.work \in session[s].base => session[s].cat = branch.work
                /\ Sound(s) => session[s].staged \subseteq session[s].cat

\* A session that would not load the working set has every row of it.
BaseInv == \A s \in Sessions : branch.work \in session[s].base => branch.work \subseteq session[s].cat

\* A current session has no row that the working set lacks, and another session
\* that would not load its catalog has every row of that.
CurrentInv == \A s \in Sessions : Current(s) =>
                /\ session[s].cat \subseteq branch.work
                /\ \A t \in Sessions \ {s} : session[s].cat \in session[t].base =>
                                               session[s].cat \subseteq session[t].cat

\* A commit that may still be made lies between the tip and the session's catalog.
CommitInv == \A s \in Sessions : Committing(s) /\ AtTip(s) =>
               /\ Committed \subseteq job[s].commit.cat
               /\ job[s].commit.cat \subseteq session[s].cat

\* What dolt_add is about to store is what the branch holds.
AddInv == \A s \in Sessions : job[s].stage = "staged" =>
            session[s].cat = branch.work /\ job[s].commit.cat = branch.work

\* dolt_reset --hard goes back to the tip, beside no dolt_commit, and every other
\* session would load that catalog unless it has it.
Undisturbed(s) == AtTip(s) /\ \A t \in Sessions : ~Committing(t)
ResetInv == \A s \in Sessions : Resetting(s) =>
              /\ job[s].commit.cat = Committed /\ Undisturbed(s)
              /\ \A t \in Sessions \ {s} : Committed \in session[t].base =>
                   session[t].cat = Committed /\ branch.work = Committed
              /\ job[s].stage = "cleared" => /\ session[s].cat = Committed
                                             /\ session[s].staged = Committed
                                             /\ branch.work = Committed

RowsInv == OrderInv /\ BranchInv /\ SessionInv /\ BaseInv /\ CurrentInv /\ CommitInv
           /\ AddInv /\ ResetInv /\ CommitsKeepRows

\* What a look at the file does to a session's rows.
LEMMA LookedRows ==
  ASSUME LineInv, RowsInv, NEW s \in Sessions, NEW p, Looks(s, p)
  PROVE  /\ branch.work \in p.base => branch.work \subseteq p.cat
         /\ \A t \in Sessions \ {s} :
              Current(t) /\ session[t].cat \in p.base => session[t].cat \subseteq p.cat
         /\ AtTip(s) =>
              /\ Committed \subseteq p.staged /\ Committed \subseteq p.cat
              /\ NotCleared => p.staged \subseteq p.cat
              /\ branch.work \in p.base => p.cat = branch.work
              /\ p.cat \subseteq branch.work
              /\ \A t \in Sessions \ {s} : p.cat \in session[t].base => p.cat \subseteq session[t].cat
              /\ Committing(s) => session[s].cat \subseteq p.cat
<1> USE DEF RowsInv
<1>1. p.base = session[s].base
  BY DEF Looks
<1>2. CASE /\ p.cat = IF branch.work \in p.base THEN session[s].cat ELSE branch.work
           /\ p.staged \in {branch.staged, p.cat}
  <2>1. branch.work \in p.base => branch.work \subseteq p.cat
    BY <1>1, <1>2 DEF BaseInv
  <2>2. ASSUME NEW t \in Sessions \ {s}, Current(t), session[t].cat \in p.base
        PROVE  session[t].cat \subseteq p.cat
    <3>1. session[t].cat \subseteq branch.work /\ session[t].cat \subseteq session[s].cat
      BY <1>1, <2>2 DEF CurrentInv
    <3> QED BY <1>2, <3>1
  <2>3. ASSUME AtTip(s)
        PROVE  /\ Committed \subseteq p.staged /\ Committed \subseteq p.cat
               /\ NotCleared => p.staged \subseteq p.cat
               /\ p.cat = branch.work
               /\ \A t \in Sessions \ {s} : p.cat \in session[t].base => p.cat \subseteq session[t].cat
               /\ Committing(s) => session[s].cat \subseteq p.cat
    <3>1. p.cat = branch.work
      BY <1>1, <1>2, <2>3 DEF SessionInv
    <3>2. NotCleared => p.staged \subseteq p.cat
      BY <1>2, <3>1 DEF BranchInv
    <3>3. \A t \in Sessions \ {s} : p.cat \in session[t].base => p.cat \subseteq session[t].cat
      BY <3>1 DEF BaseInv
    <3>4. Committing(s) => session[s].cat \subseteq p.cat
      BY <2>3, <3>1 DEF CurrentInv, Current
    <3>5. Committed \subseteq p.staged /\ Committed \subseteq p.cat
      BY <1>2, <3>1 DEF BranchInv
    <3> QED BY <3>1, <3>2, <3>3, <3>4, <3>5
  <2> QED BY <2>1, <2>2, <2>3
<1>3. CASE /\ p.cat = session[s].cat
           /\ p.staged \in {session[s].staged, p.cat, CatOf(session[s].head)}
           /\ session[s].news => Committing(s)
  <2>1. branch.work \in p.base => branch.work \subseteq p.cat
    BY <1>1, <1>3 DEF BaseInv
  <2>2. ASSUME NEW t \in Sessions \ {s}, Current(t), session[t].cat \in p.base
        PROVE  session[t].cat \subseteq p.cat
    BY <1>1, <1>3, <2>2 DEF CurrentInv
  <2>3. ASSUME AtTip(s)
        PROVE  /\ Committed \subseteq p.staged /\ Committed \subseteq p.cat
               /\ NotCleared => p.staged \subseteq p.cat
               /\ branch.work \in p.base => p.cat = branch.work
               /\ p.cat \subseteq branch.work
               /\ \A t \in Sessions \ {s} : p.cat \in session[t].base => p.cat \subseteq session[t].cat
    <3>1. /\ Committed \subseteq session[s].staged /\ Committed \subseteq session[s].cat
          /\ Sound(s) => session[s].staged \subseteq session[s].cat
          /\ branch.work \in session[s].base => session[s].cat = branch.work
      BY <2>3 DEF SessionInv
    <3>2. Current(s) /\ (NotCleared => Sound(s))
      BY <1>3, <2>3 DEF Current, Sound
    <3>3. /\ session[s].cat \subseteq branch.work
          /\ \A t \in Sessions \ {s} : session[s].cat \in session[t].base =>
                                         session[s].cat \subseteq session[t].cat
      BY <3>2 DEF CurrentInv
    <3>4. CatOf(session[s].head) = Committed
      BY <2>3 DEF AtTip, Committed
    <3> QED BY <1>1, <1>3, <3>1, <3>2, <3>3, <3>4
  <2> QED BY <1>3, <2>1, <2>2, <2>3
<1> QED
  BY <1>2, <1>3 DEF Looks

\* What a session that has looked may then be in.
Fits(s, p, j) ==
  /\ j.stage \in {"idle", "built", "confirmed", "staged", "resetting"}
  /\ j.stage \in {"built", "confirmed"} =>
       /\ \A t \in Sessions : ~Resetting(t)
       /\ j.commit.cat = p.staged \/ (Committing(s) /\ j.commit = job[s].commit)
  /\ j.stage = "staged" => p.cat = branch.work /\ j.commit.cat = branch.work
  /\ j.stage = "resetting" => j.commit.cat = Committed /\ Undisturbed(s) /\ ~Remembered(s, Committed)

LEMMA LooksRows ==
  ASSUME LineInv, RowsInv, NEW s \in Sessions, NEW p, Looks(s, p), NEW j,
         job' = [job EXCEPT ![s] = j], job[s].stage # "cleared", Fits(s, p, j)
  PROVE  RowsInv'
<1>1. branch' = branch /\ commits' = commits /\ p.head = session[s].head /\ p.open /\ session[s].open
      /\ p.base = session[s].base
  BY DEF Looks
<1>2. \A t \in Sessions : session'[t] = IF t = s THEN p ELSE session[t]
  BY DEF Looks, LineInv, TypeOK
<1>3. \A t \in Sessions : job'[t] = IF t = s THEN j ELSE job[t]
  BY DEF LineInv, TypeOK
<1>4. session'[s] = p /\ job'[s] = j
  BY <1>2, <1>3
<1>5. \A t \in Sessions \ {s} : session'[t] = session[t] /\ job'[t] = job[t]
  BY <1>2, <1>3
<1>6. (AtTip(s)' <=> AtTip(s)) /\ \A t \in Sessions \ {s} : AtTip(t)' <=> AtTip(t)
  BY <1>1, <1>4, <1>5 DEF AtTip
<1>7. Committed' = Committed
  BY <1>1 DEF Committed, CatOf
<1>8. NotCleared' <=> NotCleared
  <2>1. j.stage # "cleared"
    BY DEF Fits
  <2> QED BY <1>4, <1>5, <2>1 DEF NotCleared
<1>9. /\ \A t \in Sessions \ {s} : /\ Committing(t)' <=> Committing(t)
                                   /\ Resetting(t)' <=> Resetting(t)
      /\ Committing(s)' <=> j.stage \in {"built", "confirmed"}
      /\ Resetting(s)' <=> j.stage = "resetting"
  BY <1>4, <1>5 DEF Committing, Resetting, Fits
<1>10. OrderInv' /\ CommitsKeepRows' /\ BranchInv'
  BY <1>1, <1>7, <1>8 DEF RowsInv, OrderInv, CommitsKeepRows, BranchInv, Parent, CatOf
<1>11. Sound(s)' => NotCleared
  BY <1>8, <1>9 DEF Sound, Fits, NotCleared, Resetting
<1>12. SessionInv'
  <2>1. AtTip(s)' => /\ Committed' \subseteq session'[s].staged /\ Committed' \subseteq session'[s].cat
                     /\ branch'.work \in session'[s].base => session'[s].cat = branch'.work
                     /\ Sound(s)' => session'[s].staged \subseteq session'[s].cat
    BY <1>1, <1>4, <1>6, <1>7, <1>11, LookedRows
  <2>2. \A t \in Sessions \ {s} : Sound(t)' <=> Sound(t)
    BY <1>5, <1>8, <1>9 DEF Sound
  <2>3. \A t \in Sessions \ {s} :
          AtTip(t)' => /\ Committed' \subseteq session'[t].staged /\ Committed' \subseteq session'[t].cat
                       /\ branch'.work \in session'[t].base => session'[t].cat = branch'.work
                       /\ Sound(t)' => session'[t].staged \subseteq session'[t].cat
    BY <1>1, <1>5, <1>6, <1>7, <2>2 DEF RowsInv, SessionInv
  <2> QED BY <2>1, <2>3 DEF SessionInv
<1>13. BaseInv'
  <2>1. branch'.work \in session'[s].base => branch'.work \subseteq session'[s].cat
    BY <1>1, <1>4, LookedRows
  <2>2. \A t \in Sessions \ {s} :
          branch'.work \in session'[t].base => branch'.work \subseteq session'[t].cat
    BY <1>1, <1>5 DEF RowsInv, BaseInv
  <2> QED BY <2>1, <2>2 DEF BaseInv
<1>14. CurrentInv'
  <2>1. AtTip(s)' =>
          /\ session'[s].cat \subseteq branch'.work
          /\ \A t \in Sessions \ {s} : session'[s].cat \in session'[t].base =>
                                         session'[s].cat \subseteq session'[t].cat
    BY <1>1, <1>4, <1>5, <1>6, LookedRows
  <2>2. ASSUME NEW t \in Sessions \ {s}, Current(t)'
        PROVE  /\ session'[t].cat \subseteq branch'.work
               /\ \A u \in Sessions \ {t} : session'[t].cat \in session'[u].base =>
                                              session'[t].cat \subseteq session'[u].cat
    <3>1. Current(t)
      BY <1>5, <1>6, <1>9, <2>2 DEF Current
    <3>2. /\ session[t].cat \subseteq branch.work
          /\ \A u \in Sessions \ {t} : session[t].cat \in session[u].base =>
                                         session[t].cat \subseteq session[u].cat
      BY <3>1 DEF RowsInv, CurrentInv
    <3>3. session[t].cat \in p.base => session[t].cat \subseteq p.cat
      BY <3>1, LookedRows
    <3>4. ASSUME NEW u \in Sessions \ {t}, session'[t].cat \in session'[u].base
          PROVE  session'[t].cat \subseteq session'[u].cat
      <4>1. CASE u = s
        BY <1>4, <1>5, <3>3, <3>4, <4>1
      <4>2. CASE u # s
        BY <1>5, <3>2, <3>4, <4>2
      <4> QED BY <4>1, <4>2
    <3> QED BY <1>1, <1>5, <3>2, <3>4
  <2> QED BY <2>1, <2>2 DEF CurrentInv, Current
<1>15. CommitInv'
  <2>1. ASSUME Committing(s)', AtTip(s)
        PROVE  Committed \subseteq j.commit.cat /\ j.commit.cat \subseteq p.cat
    <3>1. CASE j.commit.cat = p.staged
      <4>1. NotCleared
        BY <1>11, <2>1 DEF Sound
      <4> QED BY <2>1, <3>1, <4>1, LookedRows
    <3>2. CASE Committing(s) /\ j.commit = job[s].commit
      <4>1. Committed \subseteq job[s].commit.cat /\ job[s].commit.cat \subseteq session[s].cat
        BY <2>1, <3>2 DEF RowsInv, CommitInv
      <4>2. session[s].cat \subseteq p.cat
        BY <2>1, <3>2, LookedRows
      <4> QED BY <3>2, <4>1, <4>2
    <3> QED BY <1>9, <2>1, <3>1, <3>2 DEF Fits
  <2>2. ASSUME NEW t \in Sessions \ {s}, Committing(t)', AtTip(t)'
        PROVE  Committed' \subseteq job'[t].commit.cat /\ job'[t].commit.cat \subseteq session'[t].cat
    BY <1>5, <1>6, <1>7, <1>9, <2>2 DEF RowsInv, CommitInv
  <2>3. Committing(s)' /\ AtTip(s)' =>
          Committed' \subseteq job'[s].commit.cat /\ job'[s].commit.cat \subseteq session'[s].cat
    BY <1>4, <1>6, <1>7, <2>1
  <2> QED BY <2>2, <2>3 DEF CommitInv
<1>16. AddInv'
  <2>1. job'[s].stage = "staged" => session'[s].cat = branch'.work /\ job'[s].commit.cat = branch'.work
    BY <1>1, <1>4 DEF Fits
  <2> QED BY <1>1, <1>5, <2>1 DEF RowsInv, AddInv
<1>17. ResetInv'
  <2>1. ASSUME NEW t \in Sessions \ {s}, Resetting(t)'
        PROVE  /\ job'[t].commit.cat = Committed' /\ Undisturbed(t)'
               /\ \A u \in Sessions \ {t} : Committed' \in session'[u].base =>
                    session'[u].cat = Committed' /\ branch'.work = Committed'
               /\ job'[t].stage = "cleared" => /\ session'[t].cat = Committed'
                                               /\ session'[t].staged = Committed'
                                               /\ branch'.work = Committed'
    <3>1. /\ Resetting(t) /\ job[t].commit.cat = Committed /\ Undisturbed(t)
          /\ \A u \in Sessions \ {t} : Committed \in session[u].base =>
               session[u].cat = Committed /\ branch.work = Committed
          /\ job[t].stage = "cleared" => /\ session[t].cat = Committed
                                         /\ session[t].staged = Committed
                                         /\ branch.work = Committed
      BY <1>9, <2>1 DEF RowsInv, ResetInv
    <3>2. ~Committing(s)'
      BY <1>9, <3>1 DEF Fits
    <3>3. job'[t].commit.cat = Committed' /\ Undisturbed(t)'
      BY <1>5, <1>6, <1>7, <1>9, <3>1, <3>2 DEF Undisturbed
    <3>4. Committed \in p.base => p.cat = Committed /\ branch.work = Committed
      BY <1>1, <3>1 DEF Looks
    <3> QED BY <1>1, <1>4, <1>5, <1>7, <3>1, <3>3, <3>4
  <2>2. ASSUME Resetting(s)'
        PROVE  /\ job'[s].commit.cat = Committed' /\ Undisturbed(s)'
               /\ \A u \in Sessions \ {s} : Committed' \in session'[u].base =>
                    session'[u].cat = Committed' /\ branch'.work = Committed'
               /\ job'[s].stage # "cleared"
    <3>1. j.stage = "resetting" /\ j.commit.cat = Committed /\ Undisturbed(s) /\ ~Remembered(s, Committed)
      BY <1>9, <2>2 DEF Fits
    <3>2. job'[s].commit.cat = Committed' /\ Undisturbed(s)'
      BY <1>4, <1>6, <1>7, <1>9, <3>1 DEF Undisturbed
    <3> QED BY <1>1, <1>4, <1>5, <1>7, <3>1, <3>2 DEF Remembered
  <2> QED BY <2>1, <2>2 DEF ResetInv
<1> QED
  BY <1>10, <1>12, <1>13, <1>14, <1>15, <1>16, <1>17 DEF RowsInv

\* A working set that holds what is committed, and that the others load unless
\* they have it, may be stored.
LEMMA StoresRows ==
  ASSUME LineInv, RowsInv, NEW s \in Sessions, NEW p, NEW staged, Replaces(s, p, staged),
         p.tip = branch.tip, p.head = session[s].head, UNCHANGED commits,
         NEW j, job' = [job EXCEPT ![s] = j], j.stage \in {"idle", "cleared"},
         session[s].open,
         Committed \subseteq staged, j.stage # "cleared" => staged \subseteq p.cat,
         Committed \subseteq p.staged, p.staged \subseteq p.cat,
         \A t \in Sessions \ {s} :
           /\ ~Storing(t)
           /\ p.cat \in session[t].base =>
                p.cat \subseteq session[t].cat /\ (AtTip(t) => session[t].cat = p.cat)
           /\ AtTip(t) /\ Committing(t) => session[t].cat \subseteq p.cat,
         j.stage = "cleared" =>
           /\ j.commit.cat = Committed /\ Undisturbed(s)
           /\ p.cat = Committed /\ p.staged = Committed
           /\ \A t \in Sessions \ {s} : Committed \in session[t].base => session[t].cat = Committed
  PROVE  RowsInv'
<1>1. /\ branch'.tip = branch.tip /\ branch'.work = p.cat /\ branch'.staged = staged
      /\ session'[s].open /\ ~session'[s].news
      /\ session'[s].head = session[s].head /\ session'[s].cat = p.cat
      /\ session'[s].base = p.base /\ session'[s].staged = p.staged
  BY StoresFields DEF LineInv, Replaces
<1>2. \A t \in Sessions \ {s} :
        /\ session'[t].open = session[t].open /\ session'[t].news = session[t].open
        /\ session'[t].head = session[t].head /\ session'[t].cat = session[t].cat
        /\ session'[t].base = session[t].base /\ session'[t].staged = session[t].staged
        /\ job'[t] = job[t]
  BY StoresFields DEF LineInv, TypeOK, Replaces
<1>3. (AtTip(s)' <=> AtTip(s)) /\ \A t \in Sessions \ {s} : AtTip(t)' <=> AtTip(t)
  BY <1>1, <1>2 DEF AtTip
<1>4. Committed' = Committed
  BY <1>1 DEF Committed, CatOf
<1>5. job'[s] = j
  BY DEF LineInv, TypeOK
<1>6. /\ ~Committing(s)' /\ \A t \in Sessions \ {s} : Committing(t)' <=> Committing(t)
      /\ \A t \in Sessions \ {s} : ~Storing(t)'
      /\ NotCleared' <=> j.stage # "cleared"
  BY <1>2, <1>5 DEF Committing, Storing, Resetting, NotCleared
<1>7. OrderInv' /\ CommitsKeepRows' /\ BranchInv'
  <2>1. BranchInv'
    BY <1>1, <1>4, <1>6 DEF BranchInv
  <2> QED BY <1>1, <2>1 DEF RowsInv, OrderInv, CommitsKeepRows, Parent, CatOf
<1>8. SessionInv'
  <2>1. AtTip(s)' => /\ Committed' \subseteq session'[s].staged /\ Committed' \subseteq session'[s].cat
                     /\ branch'.work \in session'[s].base => session'[s].cat = branch'.work
                     /\ session'[s].staged \subseteq session'[s].cat
    BY <1>1, <1>4
  <2>2. ASSUME NEW t \in Sessions \ {s}, AtTip(t)'
        PROVE  /\ Committed' \subseteq session'[t].staged /\ Committed' \subseteq session'[t].cat
               /\ branch'.work \in session'[t].base => session'[t].cat = branch'.work
               /\ Sound(t)' => session'[t].staged \subseteq session'[t].cat
    <3>1. AtTip(t) /\ session'[t].news
      BY <1>2, <1>3, <2>2 DEF AtTip
    <3>2. Sound(t)' => Sound(t)
      BY <1>6, <3>1 DEF Sound
    <3> QED BY <1>1, <1>2, <1>4, <3>1, <3>2 DEF RowsInv, SessionInv
  <2> QED BY <2>1, <2>2 DEF SessionInv
<1>9. BaseInv'
  BY <1>1, <1>2 DEF BaseInv
<1>10. CurrentInv'
  <2>1. ASSUME NEW t \in Sessions \ {s}, Current(t)'
        PROVE  /\ session'[t].cat \subseteq branch'.work
               /\ \A u \in Sessions \ {t} : session'[t].cat \in session'[u].base =>
                                              session'[t].cat \subseteq session'[u].cat
    <3>1. AtTip(t) /\ Committing(t)
      BY <1>2, <1>3, <1>6, <2>1 DEF Current, AtTip
    <3>2. session[t].cat \subseteq p.cat
      BY <3>1
    <3>3. \A u \in Sessions \ {t} : session[t].cat \in session[u].base =>
                                      session[t].cat \subseteq session[u].cat
      BY <3>1 DEF RowsInv, CurrentInv, Current
    <3>4. ASSUME NEW u \in Sessions \ {t}, session'[t].cat \in session'[u].base
          PROVE  session'[t].cat \subseteq session'[u].cat
      <4>1. CASE u = s
        BY <1>1, <1>2, <3>2, <4>1
      <4>2. CASE u # s
        BY <1>2, <3>3, <3>4, <4>2
      <4> QED BY <4>1, <4>2
    <3> QED BY <1>1, <1>2, <3>2, <3>4
  <2>2. /\ session'[s].cat \subseteq branch'.work
        /\ \A t \in Sessions \ {s} : session'[s].cat \in session'[t].base =>
                                       session'[s].cat \subseteq session'[t].cat
    BY <1>1, <1>2
  <2> QED BY <2>1, <2>2 DEF CurrentInv
<1>11. CommitInv'
  BY <1>2, <1>3, <1>4, <1>6 DEF RowsInv, CommitInv
<1>12. AddInv'
  BY <1>5, <1>6 DEF AddInv, Storing
<1>13. ResetInv'
  <2>1. \A t \in Sessions : Resetting(t)' => t = s /\ j.stage = "cleared"
    BY <1>5, <1>6 DEF Storing, Resetting
  <2>2. j.stage = "cleared" => Undisturbed(s)'
    BY <1>3, <1>6 DEF Undisturbed
  <2> QED BY <1>1, <1>2, <1>4, <1>5, <2>1, <2>2 DEF ResetInv
<1> QED
  BY <1>7, <1>8, <1>9, <1>10, <1>11, <1>12, <1>13 DEF RowsInv

LEMMA OpenRows ==
  ASSUME LineInv, RowsInv, NEW s \in Sessions, Open(s) \/ Close(s) PROVE RowsInv'
<1>1. /\ UNCHANGED <<commits, branch, job>>
      /\ \A t \in Sessions \ {s} : session'[t] = session[t]
      /\ session'[s].base = {} /\ job[s].stage = "idle"
      /\ session'[s].open => session'[s].cat = branch.work /\ session'[s].staged = branch.staged
  BY DEF Open, Close, Free, Closed, LineInv, TypeOK, BusyOpen
<1>2. \A t \in Sessions \ {s} : AtTip(t)' <=> AtTip(t)
  BY <1>1 DEF AtTip
<1>3. AtTip(s)' => session'[s].cat = branch.work /\ session'[s].staged = branch.staged
  BY <1>1 DEF AtTip
<1>4. Committed' = Committed
  BY <1>1 DEF Committed, CatOf
<1>5. /\ NotCleared' <=> NotCleared
      /\ \A t \in Sessions : (Committing(t)' <=> Committing(t)) /\ (Resetting(t)' <=> Resetting(t))
      /\ ~Committing(s) /\ ~Resetting(s)
  BY <1>1 DEF NotCleared, Committing, Resetting
<1>6. OrderInv' /\ CommitsKeepRows' /\ BranchInv'
  BY <1>1, <1>4, <1>5 DEF RowsInv, OrderInv, CommitsKeepRows, BranchInv, Parent, CatOf
<1>7. SessionInv'
  <2>1. AtTip(s)' => /\ Committed' \subseteq session'[s].staged /\ Committed' \subseteq session'[s].cat
                     /\ session'[s].cat = branch'.work
                     /\ Sound(s)' => session'[s].staged \subseteq session'[s].cat
    BY <1>1, <1>3, <1>4, <1>5 DEF RowsInv, BranchInv, Sound
  <2>2. \A t \in Sessions \ {s} : Sound(t)' <=> Sound(t)
    BY <1>1, <1>5 DEF Sound
  <2> QED BY <1>1, <1>2, <1>4, <2>1, <2>2 DEF RowsInv, SessionInv
<1>8. BaseInv'
  BY <1>1 DEF RowsInv, BaseInv
<1>9. CurrentInv'
  <2>1. ASSUME NEW t \in Sessions \ {s}, Current(t)'
        PROVE  /\ session'[t].cat \subseteq branch'.work
               /\ \A u \in Sessions \ {t} : session'[t].cat \in session'[u].base =>
                                              session'[t].cat \subseteq session'[u].cat
    <3>1. Current(t)
      BY <1>1, <1>2, <1>5, <2>1 DEF Current
    <3> QED BY <1>1, <3>1 DEF RowsInv, CurrentInv
  <2>2. Current(s)' =>
          /\ session'[s].cat \subseteq branch'.work
          /\ \A u \in Sessions \ {s} : session'[s].cat \in session'[u].base =>
                                         session'[s].cat \subseteq session'[u].cat
    BY <1>1, <1>3 DEF RowsInv, BaseInv, Current
  <2> QED BY <2>1, <2>2 DEF CurrentInv
<1>10. CommitInv' /\ AddInv'
  BY <1>1, <1>2, <1>4, <1>5 DEF RowsInv, CommitInv, AddInv
<1>11. ResetInv'
  <2>1. \A t \in Sessions \ {s} : Undisturbed(t) => Undisturbed(t)'
    BY <1>2, <1>5 DEF Undisturbed
  <2> QED BY <1>1, <1>4, <1>5, <2>1 DEF RowsInv, ResetInv
<1> QED
  BY <1>6, <1>7, <1>8, <1>9, <1>10, <1>11 DEF RowsInv

LEMMA AdvanceRows ==
  ASSUME LineInv, RowsInv, Habits = {}, NEW s \in Sessions, Advance(s) PROVE RowsInv'
<1> DEFINE new == Len(commits) + 1
           c == job[s].commit
<1>0. Len(commits) \in Nat /\ Len(commits') = new
  <2>1. session[s].open
    BY DEF LineInv, BusyOpen, Advance
  <2>2. Len(commits) \in Nat
    BY CommitsAssumption DEF LineInv, TypeOK, CommitId
  <2> QED BY <2>1, <2>2, AdvanceTyped DEF LineInv
<1>1. PICK p : /\ Replaces(s, p, p.staged) /\ p.tip = new /\ p.head = new
               /\ p.base = session[s].base /\ p.cat = session[s].cat /\ p.staged = c.cat
  BY AdvanceStores DEF LineInv
<1>2. /\ branch'.tip = new /\ branch'.work = session[s].cat /\ branch'.staged = c.cat
      /\ session'[s].cat = session[s].cat /\ session'[s].base = session[s].base
      /\ session'[s].staged = c.cat
  BY <1>1, StoresFields DEF LineInv, Replaces
<1>3. \A t \in Sessions \ {s} :
        /\ session'[t].open = session[t].open
        /\ session'[t].head = session[t].head /\ session'[t].cat = session[t].cat
        /\ session'[t].base = session[t].base
  BY <1>1, StoresFields DEF LineInv, Replaces
<1>4. ASSUME NEW t \in Sessions \ {s} PROVE ~AtTip(t)'
  <2>1. session[t].open => session[t].head \in 1..Len(commits)
    BY DEF LineInv, TypeOK
  <2> QED BY <1>0, <1>2, <1>3, <2>1 DEF AtTip
<1>5. /\ AtTip(s) /\ job[s].stage = "confirmed" /\ session[s].head \in 1..Len(commits)
      /\ c.parent = IF job[s].amend THEN commits[session[s].head].parent ELSE session[s].head
  BY DEF Advance, LineInv, JobInv, AtTip, TypeOK, Committing
<1>6. /\ Committed \subseteq c.cat /\ c.cat \subseteq session[s].cat
      /\ \A t \in Sessions \ {s} : session[s].cat \in session[t].base =>
                                     session[s].cat \subseteq session[t].cat
  BY <1>5 DEF RowsInv, CommitInv, CurrentInv, Current, Committing
<1>7. /\ \A d \in 1..Len(commits) : commits'[d] = commits[d]
      /\ commits'[new] = c
  BY CommitsStay DEF LineInv
<1>8. /\ job'[s].stage = "idle" /\ ~Committing(s)'
      /\ \A t \in Sessions : ~Storing(t)'
  <2>1. job'[s].stage = "idle" /\ \A t \in Sessions \ {s} : job'[t] = job[t] /\ ~Storing(t)
    BY DEF Advance, Idle, LineInv, TypeOK, Alone
  <2> QED BY <2>1 DEF Committing, Storing, Resetting
<1>9. Committed = CatOf(session[s].head) /\ Committed' = c.cat
  BY <1>2, <1>5, <1>7 DEF Committed, CatOf, AtTip
<1>10. /\ c.parent < new
       /\ c.parent # 0 => c.parent \in 1..Len(commits) /\ CatOf(c.parent) \subseteq Committed
  <2>1. CASE ~job[s].amend
    BY <1>0, <1>5, <1>9, <2>1
  <2>2. CASE job[s].amend
    <3>1. c.parent = Parent(session[s].head)
      BY <1>5, <2>2 DEF Parent
    <3>2. c.parent < session[s].head /\ c.parent \in CommitId \cup {0}
      BY <1>5, <3>1, CatOfTyped DEF RowsInv, OrderInv, LineInv
    <3>3. c.parent < new /\ (c.parent # 0 => c.parent \in 1..Len(commits))
      BY <1>0, <1>5, <3>2, CommitsAssumption DEF CommitId
    <3>4. c.parent # 0 => CatOf(c.parent) \subseteq Committed
      BY <1>5, <1>9, <3>1 DEF RowsInv, CommitsKeepRows
    <3> QED BY <3>3, <3>4
  <2> QED BY <2>1, <2>2, <1>5 DEF LineInv, TypeOK, Job
<1> HIDE DEF c
<1>11. OrderInv'
  <2>1. \A d \in 1..Len(commits) : commits'[d].parent < d
    BY <1>7 DEF RowsInv, OrderInv, Parent
  <2>2. commits'[new].parent < new
    BY <1>7, <1>10
  <2> QED BY <1>0, <2>1, <2>2 DEF OrderInv, Parent
<1>12. CommitsKeepRows'
  <2>1. ASSUME NEW d \in 1..Len(commits), commits'[d].parent # 0
        PROVE  commits'[commits'[d].parent].cat \subseteq commits'[d].cat
    <3>1. Parent(d) < d /\ Parent(d) \in CommitId \cup {0} /\ Parent(d) # 0
      BY <1>7, <2>1, CatOfTyped DEF RowsInv, OrderInv, LineInv, Parent
    <3>2. Parent(d) \in 1..Len(commits)
      BY <1>0, <3>1, CommitsAssumption DEF CommitId
    <3>3. CatOf(Parent(d)) \subseteq CatOf(d)
      BY <3>1 DEF RowsInv, CommitsKeepRows
    <3> QED BY <1>7, <3>2, <3>3 DEF CatOf, Parent
  <2>2. ASSUME commits'[new].parent # 0
        PROVE  commits'[commits'[new].parent].cat \subseteq commits'[new].cat
    BY <1>6, <1>7, <1>10, <2>2 DEF CatOf
  <2> QED BY <1>0, <2>1, <2>2 DEF CommitsKeepRows, CatOf, Parent
<1>13. BranchInv'
  BY <1>2, <1>6, <1>9 DEF BranchInv
<1>14. SessionInv'
  BY <1>2, <1>4, <1>6, <1>9 DEF SessionInv
<1>15. BaseInv'
  BY <1>2, <1>3, <1>6 DEF BaseInv
<1>16. CurrentInv'
  BY <1>2, <1>3, <1>4, <1>6 DEF CurrentInv, Current
<1>17. CommitInv' /\ AddInv' /\ ResetInv'
  BY <1>4, <1>8 DEF CommitInv, AddInv, ResetInv, Storing
<1> QED
  BY <1>11, <1>12, <1>13, <1>14, <1>15, <1>16, <1>17 DEF RowsInv

\* One step of clients without the habits.
LEMMA RowsKept ==
  ASSUME LineInv, RowsInv, Habits = {}, [Next]_vars PROVE RowsInv'
<1> USE DEF OnTime
<1>0. /\ \A s \in Sessions : job = [job EXCEPT ![s] = job[s]]
      /\ Idle.stage = "idle"
  BY DEF LineInv, TypeOK, Idle
<1>1. CASE UNCHANGED vars
  BY <1>1 DEF vars, RowsInv, OrderInv, BranchInv, SessionInv, BaseInv, CurrentInv, CommitInv,
              AddInv, ResetInv, CommitsKeepRows, AtTip, Current, Sound, NotCleared, Undisturbed,
              Committing, Resetting, Committed, CatOf, Parent
<1>2. ASSUME NEW s \in Sessions, Read(s) \/ Flush(s) PROVE RowsInv'
  <2>1. PICK p : Looks(s, p)
    BY <1>2, ReadLooks, FlushLooks DEF LineInv
  <2> DEFINE j == job[s]
  <2>2. j.stage \in {"idle", "confirmed", "staged"} /\ job' = [job EXCEPT ![s] = j]
    BY <1>0, <1>2 DEF Read, Flush, Free
  <2>3. j.stage = "confirmed" => \A t \in Sessions : ~Resetting(t)
    BY DEF RowsInv, ResetInv, Undisturbed, Committing
  <2>4. j.stage = "staged" => p.cat = branch.work /\ j.commit.cat = branch.work
    BY <2>1 DEF RowsInv, AddInv, Looks
  <2>5. Fits(s, p, j)
    BY <2>2, <2>3, <2>4 DEF Fits, Committing
  <2>6. job[s].stage # "cleared"
    BY <2>2
  <2> HIDE DEF j
  <2> QED BY <2>1, <2>2, <2>5, <2>6, LooksRows
<1>3. ASSUME NEW s \in Sessions, Confirm(s) PROVE RowsInv'
  <2>1. PICK p : Looks(s, p)
    BY <1>3, ConfirmLooks DEF LineInv
  <2> DEFINE j == [job[s] EXCEPT !.stage = "confirmed"]
  <2>2. job' = [job EXCEPT ![s] = j]
    BY <1>3 DEF Confirm
  <2>3. job[s].stage = "built" /\ j.commit = job[s].commit /\ j.stage = "confirmed"
    BY <1>3 DEF Confirm, LineInv, TypeOK, Job
  <2>4. \A t \in Sessions : ~Resetting(t)
    BY <2>3 DEF RowsInv, ResetInv, Undisturbed, Committing
  <2> HIDE DEF j
  <2>5. Fits(s, p, j)
    BY <2>3, <2>4 DEF Fits, Committing
  <2> QED BY <2>1, <2>2, <2>3, <2>5, LooksRows
<1>4. ASSUME NEW s \in Sessions, Refuse(s) PROVE RowsInv'
  <2>1. PICK p : Looks(s, p)
    BY <1>4, RefuseLooks DEF LineInv
  <2>2. job' = [job EXCEPT ![s] = Idle] /\ job[s].stage = "built"
    BY <1>4 DEF Refuse
  <2>3. Fits(s, p, Idle)
    BY <1>0 DEF Fits
  <2> QED BY <2>1, <2>2, <2>3, LooksRows
<1>5. ASSUME NEW s \in Sessions, LockBusy(s) PROVE RowsInv'
  <2>1. \A t \in Sessions : job'[t] = IF t = s THEN Idle ELSE job[t]
    BY <1>5 DEF LockBusy, LineInv, TypeOK
  <2>2. UNCHANGED <<commits, branch, session>> /\ Committing(s)
    BY <1>5 DEF LockBusy
  <2>3. /\ \A t \in Sessions : job'[t].stage # "idle" => job'[t] = job[t]
        /\ NotCleared' => NotCleared
    BY <1>0, <2>1, <2>2 DEF NotCleared, Committing
  <2>4. \A t \in Sessions : /\ AtTip(t)' <=> AtTip(t)
                            /\ Committing(t)' => Committing(t)
                            /\ Resetting(t)' => Resetting(t)
    BY <2>2, <2>3 DEF AtTip, Committing, Resetting
  <2>5. \A t \in Sessions : (Sound(t)' => Sound(t)) /\ (Current(t)' => Current(t))
    BY <2>2, <2>3, <2>4 DEF Sound, Current
  <2>6. Committed' = Committed
    BY <2>2 DEF Committed, CatOf
  <2>7. OrderInv' /\ BranchInv' /\ CommitsKeepRows' /\ BaseInv'
    BY <2>2, <2>3, <2>6 DEF RowsInv, OrderInv, BranchInv, CommitsKeepRows, BaseInv, Parent, CatOf
  <2>8. SessionInv' /\ CurrentInv'
    BY <2>2, <2>4, <2>5, <2>6 DEF RowsInv, SessionInv, CurrentInv
  <2>9. CommitInv' /\ AddInv'
    BY <2>2, <2>3, <2>4, <2>6 DEF RowsInv, CommitInv, AddInv, Committing
  <2>10. ResetInv'
    <3>1. \A t \in Sessions : Undisturbed(t) => Undisturbed(t)'
      BY <2>4 DEF Undisturbed
    <3>2. \A t \in Sessions : Resetting(t)' => job'[t] = job[t]
      BY <2>3 DEF Resetting
    <3> QED BY <2>2, <2>4, <2>6, <3>1, <3>2 DEF RowsInv, ResetInv
  <2> QED BY <2>7, <2>8, <2>9, <2>10 DEF RowsInv
<1>6. ASSUME NEW s \in Sessions, NEW all \in BOOLEAN, NEW amend \in BOOLEAN, Prepare(s, all, amend)
      PROVE  RowsInv'
  <2>1. PICK p : /\ Looks(s, p)
                 /\ \/ job' = [job EXCEPT ![s] = Idle]
                    \/ job' = [job EXCEPT ![s] = [stage |-> "built", amend |-> amend,
                                                  commit |-> [parent |-> ParentFor(p.head, amend),
                                                              cat |-> p.staged]]]
    BY <1>6, PrepareLooks DEF LineInv
  <2> DEFINE j == [stage |-> "built", amend |-> amend,
                   commit |-> [parent |-> ParentFor(p.head, amend), cat |-> p.staged]]
  <2>2. j.commit.cat = p.staged /\ j.stage = "built"
    OBVIOUS
  <2>3. job' = [job EXCEPT ![s] = Idle] \/ job' = [job EXCEPT ![s] = j]
    BY <2>1
  <2>4. job[s].stage = "idle" /\ \A t \in Sessions : ~Resetting(t)
    BY <1>6 DEF Prepare, Free
  <2> HIDE DEF j
  <2>5. Fits(s, p, Idle) /\ Fits(s, p, j)
    BY <1>0, <2>2, <2>4 DEF Fits
  <2> QED BY <2>1, <2>3, <2>4, <2>5, LooksRows
<1>7. ASSUME NEW s \in Sessions, NEW r \in Rows, Insert(s, r) PROVE RowsInv'
  <2>1. PICK p : /\ Replaces(s, p, p.staged) /\ p.tip = branch.tip /\ p.head = session[s].head
                 /\ p.staged = branch.staged
                 /\ (IF branch.work \in session[s].base THEN session[s].cat ELSE branch.work)
                      \subseteq p.cat
                 /\ ~Remembered(s, p.cat)
    BY <1>7, InsertStores DEF LineInv
  <2>2. /\ UNCHANGED commits /\ job' = [job EXCEPT ![s] = job[s]]
        /\ job[s].stage = "idle" /\ session[s].open /\ \A t \in Sessions \ {s} : ~Storing(t)
    BY <1>0, <1>7 DEF Insert, Free, Alone
  <2>3. branch.work \subseteq p.cat
    BY <2>1 DEF RowsInv, BaseInv
  <2>4. NotCleared
    BY <2>2 DEF NotCleared, Storing, Resetting
  <2>5. Committed \subseteq p.staged /\ p.staged \subseteq p.cat
    BY <2>1, <2>3, <2>4 DEF RowsInv, BranchInv
  <2>6. ASSUME NEW t \in Sessions \ {s}
        PROVE  /\ p.cat \in session[t].base => session[t].cat = p.cat
               /\ AtTip(t) /\ Committing(t) => session[t].cat \subseteq p.cat
    BY <2>1, <2>3 DEF Remembered, RowsInv, CurrentInv, Current
  <2>7. PICK j : job' = [job EXCEPT ![s] = j] /\ j.stage = "idle"
    BY <2>2
  <2>8. \A t \in Sessions \ {s} :
          /\ ~Storing(t)
          /\ p.cat \in session[t].base =>
               p.cat \subseteq session[t].cat /\ (AtTip(t) => session[t].cat = p.cat)
          /\ AtTip(t) /\ Committing(t) => session[t].cat \subseteq p.cat
    BY <2>2, <2>6
  <2>9. UNCHANGED commits /\ session[s].open
    BY <2>2
  <2> QED BY <2>1, <2>5, <2>7, <2>8, <2>9, StoresRows
<1>8. ASSUME NEW s \in Sessions, StoreStaged(s) \/ Unstage(s) PROVE RowsInv'
  <2>1. PICK p : /\ Replaces(s, p, p.staged) /\ p.tip = branch.tip /\ p.head = session[s].head
                 /\ p.cat = branch.work /\ p.staged \in {p.cat, Committed}
    <3>1. CASE StoreStaged(s)
      <4>1. session[s].cat = branch.work /\ job[s].commit.cat = branch.work
        BY <3>1 DEF StoreStaged, RowsInv, AddInv
      <4> QED BY <3>1, <4>1, StoreStagedStores DEF LineInv
    <3>2. CASE Unstage(s)
      BY <3>2, UnstageStores DEF LineInv, Committed
    <3> QED BY <1>8, <3>1, <3>2
  <2>2. PICK j : /\ job' = [job EXCEPT ![s] = j] /\ j.stage = "idle"
    BY <1>0, <1>8 DEF StoreStaged, Unstage, Free
  <2>3. /\ UNCHANGED commits /\ session[s].open /\ ~Resetting(s)
        /\ \A t \in Sessions \ {s} : ~Storing(t)
    <3>1. CASE StoreStaged(s)
      BY <3>1, WindowTip DEF StoreStaged, Storing, Resetting, LineInv
    <3>2. CASE Unstage(s)
      BY <3>2 DEF Unstage, Free, Alone, Resetting
    <3> QED BY <1>8, <3>1, <3>2
  <2>4. Committed \subseteq p.staged /\ p.staged \subseteq p.cat
    BY <2>1 DEF RowsInv, BranchInv
  <2>5. ASSUME NEW t \in Sessions \ {s}
        PROVE  /\ p.cat \in session[t].base =>
                    p.cat \subseteq session[t].cat /\ (AtTip(t) => session[t].cat = p.cat)
               /\ AtTip(t) /\ Committing(t) => session[t].cat \subseteq p.cat
    BY <2>1 DEF RowsInv, BaseInv, SessionInv, CurrentInv, Current
  <2> QED BY <2>1, <2>2, <2>3, <2>4, <2>5, StoresRows
<1>9. ASSUME NEW s \in Sessions, Add(s) PROVE RowsInv'
  <2>1. PICK p, j : /\ Looks(s, p) /\ job' = [job EXCEPT ![s] = j]
                    /\ j.stage = "staged" /\ j.commit.cat = p.cat /\ p.cat = branch.work
    BY <1>9, AddLooks DEF LineInv
  <2>2. Fits(s, p, j)
    BY <2>1 DEF Fits
  <2>3. job[s].stage = "idle"
    BY <1>9 DEF Add, Free
  <2> QED BY <2>1, <2>2, <2>3, LooksRows
<1>10. ASSUME NEW s \in Sessions, HardReset(s) PROVE RowsInv'
  <2>1. PICK p, j : /\ Looks(s, p) /\ job' = [job EXCEPT ![s] = j]
                    /\ j.stage = "resetting" /\ j.commit.cat = CatOf(session[s].head)
    BY <1>10, HardResetLooks DEF LineInv
  <2>2. /\ job[s].stage = "idle" /\ AtTip(s) /\ \A t \in Sessions : ~Committing(t)
        /\ ~Remembered(s, CatOf(session[s].head))
    BY <1>10 DEF HardReset, Free, HeadConfirmed, AtTip
  <2>3. CatOf(session[s].head) = Committed
    BY <2>2 DEF Committed, AtTip
  <2>4. Fits(s, p, j)
    BY <2>1, <2>2, <2>3 DEF Fits, Undisturbed
  <2> QED BY <2>1, <2>2, <2>4, LooksRows
<1>11. ASSUME NEW s \in Sessions, ClearWork(s) \/ StoreReset(s) PROVE RowsInv'
  <2>1. /\ Resetting(s) /\ job[s].commit.cat = Committed /\ Undisturbed(s)
        /\ \A t \in Sessions \ {s} : Committed \in session[t].base => session[t].cat = Committed
        /\ job[s].stage = "cleared" => session[s].cat = Committed /\ session[s].staged = Committed
    BY <1>11 DEF ClearWork, StoreReset, Resetting, RowsInv, ResetInv
  <2>2. UNCHANGED commits /\ session[s].open /\ \A t \in Sessions \ {s} : ~Storing(t)
    BY <1>11, <2>1, WindowTip DEF ClearWork, StoreReset, Storing, LineInv
  <2>3. PICK p, staged : /\ Replaces(s, p, staged) /\ p.tip = branch.tip /\ p.head = session[s].head
                         /\ p.cat = Committed /\ p.staged = Committed
                         /\ staged = session[s].staged
    BY <1>11, <2>1, ClearWorkStores, StoreResetStores DEF LineInv, StoreReset
  <2>4. PICK j : /\ job' = [job EXCEPT ![s] = j]
                 /\ \/ j.stage = "cleared" /\ j.commit = job[s].commit
                    \/ j.stage = "idle" /\ staged = Committed
    <3>1. CASE ClearWork(s)
      <4> DEFINE j == [job[s] EXCEPT !.stage = "cleared"]
      <4>1. job' = [job EXCEPT ![s] = j]
        BY <3>1 DEF ClearWork
      <4>2. j.stage = "cleared" /\ j.commit = job[s].commit
        BY DEF LineInv, TypeOK, Job
      <4> HIDE DEF j
      <4> QED BY <4>1, <4>2
    <3>2. CASE StoreReset(s)
      BY <1>0, <2>1, <2>3, <3>2 DEF StoreReset
    <3> QED BY <1>11, <3>1, <3>2
  <2>5. Committed \subseteq staged
    BY <2>1, <2>3 DEF RowsInv, SessionInv, Undisturbed
  <2>6. \A t \in Sessions \ {s} :
          /\ ~Storing(t)
          /\ p.cat \in session[t].base =>
               p.cat \subseteq session[t].cat /\ (AtTip(t) => session[t].cat = p.cat)
          /\ AtTip(t) /\ Committing(t) => session[t].cat \subseteq p.cat
    BY <2>1, <2>2, <2>3 DEF Undisturbed
  <2>7. j.stage \in {"idle", "cleared"} /\ (j.stage # "cleared" => staged \subseteq p.cat)
    BY <2>3, <2>4
  <2>8. j.stage = "cleared" =>
          /\ j.commit.cat = Committed /\ Undisturbed(s)
          /\ p.cat = Committed /\ p.staged = Committed
          /\ \A t \in Sessions \ {s} : Committed \in session[t].base => session[t].cat = Committed
    BY <2>1, <2>3, <2>4
  <2>9. UNCHANGED commits /\ session[s].open
    BY <2>2
  <2>10. Committed \subseteq p.staged /\ p.staged \subseteq p.cat
    BY <2>3
  <2>11. /\ Replaces(s, p, staged) /\ p.tip = branch.tip /\ p.head = session[s].head
         /\ job' = [job EXCEPT ![s] = j]
    BY <2>3, <2>4
  <2> QED BY <2>5, <2>6, <2>7, <2>8, <2>9, <2>10, <2>11, StoresRows
<1> QED
  BY <1>1, <1>2, <1>3, <1>4, <1>5, <1>6, <1>7, <1>8, <1>9, <1>10, <1>11, OpenRows, AdvanceRows
     DEF Next

LEMMA RowsReached == Habits = {} => (Spec => [](LineInv /\ RowsInv))
<1> SUFFICES ASSUME Habits = {} PROVE Spec => [](LineInv /\ RowsInv)
  OBVIOUS
<1>1. Init => LineInv /\ RowsInv
  <2>1. Init => TypeOK
    BY Started
  <2>2. Init => BusyOpen /\ TipInv /\ JobInv /\ WindowInv
    BY DEF Init, BusyOpen, TipInv, JobInv, WindowInv, Storing, Resetting, Committing, Idle, Closed
  <2>3. ASSUME Init PROVE RowsInv
    <3>1. /\ Len(commits) = 1 /\ commits[1] = NoCommit /\ branch = NewBranch
          /\ \A s \in Sessions : session[s] = Closed
      BY <2>3 DEF Init
    <3>2. OrderInv /\ CommitsKeepRows
      BY <3>1 DEF OrderInv, CommitsKeepRows, Parent, NoCommit
    <3>3. BranchInv
      BY <3>1 DEF BranchInv, Committed, CatOf, NoCommit, NewBranch
    <3>4. \A s \in Sessions : ~AtTip(s) /\ session[s].base = {}
      <4>1. ~Closed.open /\ Closed.base = {}
        BY DEF Closed
      <4> QED BY <3>1, <4>1 DEF AtTip
    <3>5. AddInv /\ ResetInv
      BY <2>3 DEF Init, AddInv, ResetInv, Resetting, Idle
    <3> QED BY <3>2, <3>3, <3>4, <3>5
            DEF RowsInv, SessionInv, BaseInv, CurrentInv, CommitInv, Current
  <2> QED BY <2>1, <2>2, <2>3 DEF LineInv
<1>2. LineInv /\ RowsInv /\ [Next]_vars => (LineInv /\ RowsInv)'
  BY LineKept, RowsKept DEF OnTime
<1> QED
  BY <1>1, <1>2, PTL DEF Spec

\* For clients without the habits the working set has every committed row
\* (csReloadFromDisk, btreeReloadBranchWorkingState).
THEOREM RowsStay == Habits = {} => (Spec => []WorkKeepsCommitted)
<1>1. LineInv /\ RowsInv => WorkKeepsCommitted
  BY DEF RowsInv, BranchInv, Committed, WorkKeepsCommitted
<1> QED
  BY <1>1, RowsReached, PTL

\* and a commit has every row of its parent: dolt_commit takes no row back that
\* another session has committed (doltliteCommitFunc).
THEOREM HistoryKeepsRows == Habits = {} => (Spec => []CommitsKeepRows)
<1>1. LineInv /\ RowsInv => CommitsKeepRows
  BY DEF RowsInv
<1> QED
  BY <1>1, RowsReached, PTL
=============================================================================
