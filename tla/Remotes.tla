------------------------------- MODULE Remotes -------------------------------
(***************************************************************************)
(* Push, fetch, pull and garbage collection between clones and the remote  *)
(* they share.  A clone reaches the remote through the HTTP server, one    *)
(* request at a time, or opens its file, and then works on the file as it  *)
(* was when it was opened until it takes the lock.                         *)
(*                                                                         *)
(* A chunk is a commit together with its catalog and rows: its children    *)
(* are its parents.  Chunks have the commit's number, and parents says     *)
(* what the hash of a commit stands for.  Refs are the branch that is      *)
(* pushed (main) and, on the remote, one more that is created and dropped  *)
(* there (other); in a clone, its own main (head) and the tracking branch. *)
(* Other sessions of a clone, and of the remote, commit at any time; the   *)
(* session of a clone that pushes, fetches and pulls has loaded the        *)
(* clone's file when it last made a query, and may be behind.              *)
(***************************************************************************)
EXTENDS Ancestry, FiniteSets

CONSTANTS Clones,
          Http,        \* the clones that use the server
          MaxCommits,  \* bound: commits in the world
          MaxTrouble,  \* bound: requests and answers lost, processes killed,
                       \* forced pushes, branches made on the remote
          Habits       \* what users do that the code cannot cope with

CommitInFetch == "commit while another session of the clone fetches"
FetchBehind == "dolt_fetch in a session that has not seen a commit of another one"
GcInTransfer == "dolt_gc while chunks are transferred, or unseen by a session that fetches"
RefsReturn == "remote refs that are changed and changed back during a push"

ASSUME ClonesAssumption ==
  /\ Http \subseteq Clones
  /\ MaxCommits \in Nat \ {0} /\ MaxTrouble \in Nat
  /\ Habits \subseteq {CommitInFetch, FetchBehind, GcInTransfer, RefsReturn}

VARIABLES parents,  \* of every commit made so far
          remote,   \* the remote's file: its chunks and refs
          local,    \* the file of each clone
          known,    \* that file, as the session that transfers last loaded it
          job,      \* the push or fetch a clone is in
          pushed,   \* history: what pushes have put into main since a forced one
          own,      \* history: what sessions of a clone have committed to it
          trouble

vars == <<parents, remote, local, known, job, pushed, own, trouble>>

None == 0
Commits == 1..MaxCommits
Ref == Commits \cup {None}

Made == DOMAIN parents

\* a commit and its ancestors
Past(c) == IF c = None THEN {} ELSE Histories(parents)[c]

Refs(r) == [main |-> r.main, other |-> r.other]
NoRemote == [has |-> {}, main |-> None, other |-> None]
NoClone == [has |-> {}, head |-> None, track |-> None]

Idle == [op |-> "none", at |-> "idle", force |-> FALSE, tip |-> None,
         expected |-> Refs(NoRemote), new |-> Refs(NoRemote),
         opened |-> NoRemote,  \* the remote's file as it was opened
         snap |-> NoClone,     \* the clone's file as the transfer began
         queue |-> {}, seen |-> {}, got |-> {}]

RefsType == [main : Ref, other : Ref]
RemoteType == [has : SUBSET Commits, main : Ref, other : Ref]
CloneType == [has : SUBSET Commits, head : Ref, track : Ref]
JobType == [op : {"none", "push", "fetch", "pull"},
            at : {"idle", "sync", "refs", "posted", "forward"},
            force : BOOLEAN, tip : Ref, expected : RefsType, new : RefsType,
            opened : RemoteType, snap : CloneType,
            queue : SUBSET Commits, seen : SUBSET Commits, got : SUBSET Commits]

TypeOK ==
  /\ Made \subseteq Commits /\ \A c \in Made : parents[c] \subseteq Made
  /\ remote \in RemoteType
  /\ local \in [Clones -> CloneType]
  /\ known \in [Clones -> CloneType]
  /\ job \in [Clones -> JobType]
  /\ \A c \in Clones : job[c].queue \subseteq job[c].seen
  /\ pushed \subseteq Made
  /\ own \in [Clones -> SUBSET Made]
  /\ trouble \in 0..MaxTrouble

\* every clone starts as a clone of a remote with one commit
Init == /\ parents = [c \in {1} |-> {}]
        /\ remote = [has |-> {1}, main |-> 1, other |-> None]
        /\ local = [c \in Clones |-> [has |-> {1}, head |-> 1, track |-> 1]]
        /\ known = local
        /\ job = [c \in Clones |-> Idle]
        /\ pushed = {1}
        /\ own = [c \in Clones |-> {}]
        /\ trouble = 0

May(habit) == habit \in Habits
Trouble == trouble < MaxTrouble /\ trouble' = trouble + 1
Busy(op) == {c \in Clones : job[c].op \in op}

-----------------------------------------------------------------------------
(* Other sessions.                                                         *)

\* a commit that is not there yet
Fresh == Cardinality(Made) + 1
Record(ps) == /\ Fresh \in Commits
              /\ parents' = [c \in Made \cup {Fresh} |-> IF c = Fresh THEN ps ELSE parents[c]]

LocalCommit(c, ps) ==
  /\ Record(ps)
  /\ May(CommitInFetch) \/ c \notin Busy({"fetch", "pull"})
  /\ local' = [local EXCEPT ![c].has = @ \cup {Fresh}, ![c].head = Fresh]
  /\ own' = [own EXCEPT ![c] = @ \cup {Fresh}]
  /\ UNCHANGED <<remote, known, job, pushed, trouble>>

\* dolt_commit; each clone has something of its own to say once
Commit(c) == own[c] = {} /\ LocalCommit(c, {local[c].head})

\* dolt_merge of the tracking branch
Merge(c) ==
  LET l == local[c] IN
  /\ l.head \notin Past(l.track) /\ l.track \notin Past(l.head)
  /\ LocalCommit(c, {l.head, l.track})

\* no push finds the refs it expects again once they have changed
NoneReturn ==
  May(RefsReturn) \/ Refs(remote') = Refs(remote)
                  \/ \A c \in Busy({"push"}) : job[c].expected # Refs(remote')

\* dolt_branch on the remote itself; what is made may be dropped again
HostSets(branch) ==
  /\ remote' = [remote EXCEPT !.other = branch]
  /\ NoneReturn
  /\ UNCHANGED <<parents, local, known, job, pushed, own>>

HostBranch == remote.other = None /\ Trouble /\ HostSets(remote.main)
HostDrop == remote.other # None /\ UNCHANGED trouble /\ HostSets(None)

\* gcMarkReachable, gcSweep: a chunk that is named and missing stops it
Reached(refs) == UNION {Past(r) : r \in refs}
Swept(has, refs) == IF Reached(refs) \subseteq has THEN Reached(refs) ELSE has

HostGc ==
  /\ May(GcInTransfer) \/ Busy({"push", "fetch", "pull"}) = {}
  /\ remote' = [remote EXCEPT !.has = Swept(@, {remote.main, remote.other})]
  /\ UNCHANGED <<parents, local, known, job, pushed, own, trouble>>

LocalGc(c) ==
  /\ May(GcInTransfer) \/ job[c] = Idle
  /\ local' = [local EXCEPT ![c].has = Swept(@, {local[c].head, local[c].track})]
  /\ UNCHANGED <<parents, remote, known, job, pushed, own, trouble>>

\* a query of the session that transfers
Look(c) ==
  /\ job[c] = Idle
  /\ known[c] # local[c]
  /\ known' = [known EXCEPT ![c] = local[c]]
  /\ UNCHANGED <<parents, remote, local, job, pushed, own, trouble>>

-----------------------------------------------------------------------------
(* doltliteSyncChunks: breadth first from the tip, a batch at a time.      *)

\* what the clone sees of the remote
View(c) == IF c \in Http THEN remote ELSE job[c].opened

\* xHasChunks, xGetChunk
Present(c) == IF job[c].op = "push" THEN View(c).has ELSE job[c].snap.has
Source(c) == IF job[c].op = "push" THEN job[c].snap.has ELSE View(c).has

\* what is present is not looked into, and what the source has lost is skipped
Wanted(c) == (job[c].queue \ Present(c)) \cap Source(c)

\* mutants: what was queued is forgotten; the children are
SyncUnseen(c) ==
  /\ job[c].at = "sync" /\ job[c].queue # {}
  /\ job' = [job EXCEPT ![c].got = @ \cup Wanted(c),
                        ![c].queue = UNION {parents[x] : x \in Wanted(c)}]
  /\ UNCHANGED <<parents, remote, local, known, pushed, own, trouble>>
SyncTip(c) ==
  /\ job[c].at = "sync" /\ job[c].queue # {}
  /\ job' = [job EXCEPT ![c].got = @ \cup Wanted(c), ![c].queue = {}]
  /\ UNCHANGED <<parents, remote, local, known, pushed, own, trouble>>

Sync(c) ==
  /\ job[c].at = "sync" /\ job[c].queue # {}
  /\ LET next == (UNION {parents[x] : x \in Wanted(c)}) \ job[c].seen IN
     job' = [job EXCEPT ![c].got = @ \cup Wanted(c),
                        ![c].queue = next,
                        ![c].seen = @ \cup next]
  /\ UNCHANGED <<parents, remote, local, known, pushed, own, trouble>>

Synced(c) == job[c].at = "sync" /\ job[c].queue = {}

Started(op, tip) ==
  [Idle EXCEPT !.op = op, !.at = "sync", !.tip = tip, !.queue = {tip}, !.seen = {tip}]

StartedPush(c, force) ==
  [Started("push", known[c].head) EXCEPT
     !.force = force, !.expected = Refs(remote), !.snap.has = known[c].has,
     !.opened = IF c \in Http THEN @ ELSE remote]

\* dolt_fetch makes no query; dolt_pull begins with one (remoteSqlStateSave)
Loaded(c, op) == IF op = "pull" THEN local[c] ELSE known[c]

StartedFetch(c, op) ==
  [Started(op, remote.main) EXCEPT
     !.snap = Loaded(c, op), !.opened.has = IF c \in Http THEN @ ELSE remote.has]

-----------------------------------------------------------------------------
(* doltlitePush.                                                           *)

\* syncIsAncestor walks the clone's own chunks
IsForward(c) == remote.main \in Past(known[c].head)

Push(c) ==
  /\ job[c] = Idle
  /\ IsForward(c)
  /\ job' = [job EXCEPT ![c] = StartedPush(c, FALSE)]
  /\ UNCHANGED <<parents, remote, local, known, pushed, own, trouble>>

ForcePush(c) ==
  /\ job[c] = Idle
  /\ ~IsForward(c)
  /\ Trouble
  /\ job' = [job EXCEPT ![c] = StartedPush(c, TRUE)]
  /\ UNCHANGED <<parents, remote, local, known, pushed, own>>

\* mutant: the new refs are made from none
ReadNothing(c) ==
  /\ job[c].op = "push" /\ Synced(c)
  /\ job' = [job EXCEPT ![c].at = "refs",
                        ![c].new = [Refs(NoRemote) EXCEPT !.main = job[c].tip]]
  /\ UNCHANGED <<parents, remote, local, known, pushed, own, trouble>>

\* the refs are read a second time, and are what the new ones are made from
ReadRefs(c) ==
  /\ job[c].op = "push" /\ Synced(c)
  /\ job' = [job EXCEPT ![c] = [Idle EXCEPT
                 !.op = "push", !.at = "refs",
                 !.force = job[c].force, !.tip = job[c].tip,
                 !.expected = job[c].expected, !.got = job[c].got,
                 !.new = [Refs(View(c)) EXCEPT !.main = job[c].tip]]]
  /\ UNCHANGED <<parents, remote, local, known, pushed, own, trouble>>

\* httpCommit: POST /chunks
PostChunks(c) ==
  /\ c \in Http /\ job[c].at = "refs"
  /\ remote' = [remote EXCEPT !.has = @ \cup job[c].got]
  /\ job' = [job EXCEPT ![c].at = "posted", ![c].got = {}]
  /\ UNCHANGED <<parents, local, known, pushed, own, trouble>>

\* mutant: not compared
ExpectedAny(c) == job[c] # Idle

\* fsSetRefsIf, remoteSrvApplyRefsIf: compared under the lock with the refs in
\* the file
Expected(c) == Refs(remote) = job[c].expected

Promised(c) == {job[c].tip} \cup IF job[c].force THEN {} ELSE pushed

\* PUT /refs-if; POST /commit, which comes after, finds nothing to write, and
\* whether the answers arrive only the client can tell
SwapRefs(c) ==
  /\ c \in Http /\ job[c].at = "posted"
  /\ Expected(c)
  /\ remote' = [remote EXCEPT !.main = job[c].new.main, !.other = job[c].new.other]
  /\ NoneReturn
  /\ pushed' = Promised(c)
  /\ job' = [job EXCEPT ![c] = Idle]
  /\ UNCHANGED <<parents, local, known, own, trouble>>

\* fsCommit: staged chunks and refs go into the file with one root record
SwapFile(c) ==
  /\ c \notin Http /\ job[c].at = "refs"
  /\ Expected(c)
  /\ remote' = [has |-> remote.has \cup job[c].got,
                main |-> job[c].new.main, other |-> job[c].new.other]
  /\ NoneReturn
  /\ pushed' = Promised(c)
  /\ job' = [job EXCEPT ![c] = Idle]
  /\ UNCHANGED <<parents, local, known, own, trouble>>

\* mutant: tries again with the refs it has
PushAgain(c) ==
  /\ job[c].at = IF c \in Http THEN "posted" ELSE "refs"
  /\ ~Expected(c)
  /\ job' = [job EXCEPT ![c].at = "sync"]
  /\ UNCHANGED <<parents, remote, local, known, pushed, own, trouble>>

\* "push failed (remote refs changed)"
PushBusy(c) ==
  /\ job[c].at = IF c \in Http THEN "posted" ELSE "refs"
  /\ ~Expected(c)
  /\ job' = [job EXCEPT ![c] = Idle]
  /\ UNCHANGED <<parents, remote, local, known, pushed, own, trouble>>

\* a request or an answer is lost, or the process dies: whoever tries again
\* starts from the beginning
Lose(c) ==
  /\ job[c] # Idle
  /\ Trouble
  /\ job' = [job EXCEPT ![c] = Idle]
  /\ UNCHANGED <<parents, remote, local, known, pushed, own>>

-----------------------------------------------------------------------------
(* doltliteFetch and dolt_pull.                                            *)

\* one with no news changes nothing
News(c, op) ==
  \/ Loaded(c, op).track # remote.main
  \/ op = "pull" /\ local[c].head \in Past(remote.main) \ {remote.main}

\* what another session has committed or collected is seen
UpToDate(c) ==
  /\ May(FetchBehind) \/ known[c].head = local[c].head
  /\ May(GcInTransfer) \/ known[c].has \subseteq local[c].has

Fetch(c, op) ==
  /\ job[c] = Idle
  /\ News(c, op)
  /\ op = "fetch" => UpToDate(c)
  /\ job' = [job EXCEPT ![c] = StartedFetch(c, op)]
  /\ UNCHANGED <<parents, remote, local, known, pushed, own, trouble>>

\* remoteStorePersistRefs: all refs are written as this session knows them
Persisted(c, refs) == [local EXCEPT ![c].has = @ \cup job[c].got,
                                    ![c].head = refs.head,
                                    ![c].track = refs.track]

\* a pull goes on, unless there is nothing to move
FetchDone(c) ==
  /\ job[c].op \in {"fetch", "pull"} /\ Synced(c)
  /\ LET refs == [job[c].snap EXCEPT !.track = job[c].tip]
         done == job[c].op = "fetch" \/ refs.head = refs.track IN
     /\ local' = Persisted(c, refs)
     /\ known' = IF done THEN [known EXCEPT ![c] = local'[c]] ELSE known
     /\ job' = [job EXCEPT ![c] = IF done THEN Idle
                                  ELSE [@ EXCEPT !.at = "forward", !.snap = refs]]
  /\ UNCHANGED <<parents, remote, pushed, own, trouble>>

\* mutant: whatever the branch has of its own
ForwardAnyway(c) == job[c].at = "forward"

\* doltliteFindAncestor finds the head itself
CanForward(c) == job[c].at = "forward" /\ job[c].snap.head \in Past(job[c].snap.track)

\* dolt_pull moves the branch forward
PullDone(c) ==
  /\ job[c].at = "forward"
  /\ CanForward(c)
  /\ local' = Persisted(c, [job[c].snap EXCEPT !.head = job[c].snap.track])
  /\ known' = [known EXCEPT ![c] = local'[c]]
  /\ job' = [job EXCEPT ![c] = Idle]
  /\ UNCHANGED <<parents, remote, pushed, own, trouble>>

\* "cannot fast-forward", or "cannot pull with uncommitted changes":
\* remoteSqlStateRestore loads the refs from before the pull again
PullRefused(c) ==
  /\ job[c].at = "forward"
  /\ known' = [known EXCEPT ![c].has = local[c].has]
  /\ job' = [job EXCEPT ![c] = Idle]
  /\ UNCHANGED <<parents, remote, local, pushed, own, trouble>>

-----------------------------------------------------------------------------
Step(c) == \/ Sync(c) \/ ReadRefs(c) \/ PostChunks(c) \/ SwapRefs(c) \/ SwapFile(c)
           \/ PushBusy(c) \/ FetchDone(c) \/ PullDone(c) \/ PullRefused(c)

Next == \/ \E c \in Clones : \/ Commit(c) \/ Merge(c) \/ LocalGc(c) \/ Look(c)
                             \/ Push(c) \/ ForcePush(c)
                             \/ Fetch(c, "fetch") \/ Fetch(c, "pull")
                             \/ Step(c) \/ Lose(c)
        \/ HostBranch \/ HostDrop \/ HostGc

\* Whoever has begun goes on, and a user whose push was refused or lost
\* fetches, merges and pushes again, and looks at the clone in between.
Effort(c) == Step(c) \/ Push(c) \/ Fetch(c, "fetch") \/ Merge(c)
Fairness == \A c \in Clones : WF_vars(Effort(c)) /\ SF_vars(Look(c))

Spec == Init /\ [][Next]_vars
FairSpec == Spec /\ Fairness

-----------------------------------------------------------------------------
(* Properties.                                                             *)

\* Whatever refs name is there with its whole history, in the remote and in
\* each clone: chunks arrive before the refs that need them, and what a
\* transfer skipped as present is still present (doltliteSyncChunks,
\* doltliteGcFunc).
RefsResolve ==
  /\ Reached({remote.main, remote.other}) \subseteq remote.has
  /\ \A c \in Clones : Reached({local[c].head, local[c].track}) \subseteq local[c].has

\* What a push has put into the remote's branch stays in its history until
\* somebody forces it: pushes that overlap do not undo each other
\* (remoteSrvApplyRefsIf, fsSetRefsIf).
PushedStays == pushed \subseteq Past(remote.main)

\* No fetch, pull or push takes a commit out of the branch of the clone it was
\* made in (remoteStorePersistRefs).
OwnCommitsStay == \A c \in Clones : own[c] \subseteq Past(local[c].head)

\* A push, plain or forced, changes nothing in the remote's refs but its own
\* branch (doltlitePush reads the refs twice).
PushesItsBranch ==
  [][\A c \in Clones : SwapRefs(c) \/ SwapFile(c) => remote'.other = remote.other]_vars

\* A commit that is made in a clone reaches the remote, though answers are lost
\* and others push first.
Published == \A c \in Clones : own[c] # {} ~> own[c] \subseteq Past(remote.main)

=============================================================================
