---------------------------- MODULE RemoteProofs ----------------------------
(***************************************************************************)
(* Proofs about Remotes, for any clones, commits and trouble: what refs    *)
(* name is there, pushes do not undo each other, and nobody's commits are  *)
(* lost.  Each theorem excludes the habits that break it.                  *)
(***************************************************************************)
EXTENDS Remotes, Lemmas, FiniteSetTheorems

Made0 == Made \cup {None}

\* Commits are numbered as they are made
HistoryInv == IsFiniteSet(Made) /\ Numbered(parents, Cardinality(Made))

\* Refs name commits that were made, and only what is created on the remote
\* and dropped again may name none
CloneOK(l) == l.has \subseteq Made /\ l.head \in Made /\ l.track \in Made
RefsInv ==
  /\ remote.has \subseteq Made /\ remote.main \in Made /\ remote.other \in Made0
  /\ \A c \in Clones : CloneOK(local[c]) /\ CloneOK(known[c])

\* Which operations reach which point, and what they know there
JobOK(j) ==
  /\ j.op = "none" \/ j.at = "idle" => j = Idle
  /\ j.at \in {"refs", "posted"} => j.op = "push" /\ j.new.main = j.tip
  /\ j.at = "forward" => j.op = "pull" /\ j.snap.track = j.tip
  /\ j.op # "none" => j.tip \in Made
  /\ j.queue \cup j.seen \cup j.got \cup j.opened.has \cup j.snap.has \subseteq Made
  /\ j.opened.other \in Made0 /\ j.new.other \in Made0
  /\ j.op \in {"fetch", "pull"} => j.snap.head \in Made
JobInv == \A c \in Clones : JobOK(job[c])

NamesInv == TypeOK /\ HistoryInv /\ RefsInv /\ JobInv

-----------------------------------------------------------------------------
Closed(H) == \A x \in H : x \in Made /\ parents[x] \subseteq H

\* Where refs are, the files have a chunk only with the chunks it names
FilesWhole ==
  /\ Closed(remote.has) /\ remote.main \in remote.has /\ remote.other \in remote.has \cup {None}
  /\ \A c \in Clones : /\ Closed(local[c].has)
                       /\ local[c].head \in local[c].has /\ local[c].track \in local[c].has

\* And so has what a session has loaded
KnownWhole == \A c \in Clones : Closed(known[c].has) /\ known[c].head \in known[c].has

\* What a transfer relies on: what it saw of a file is still there
Seen(c) ==
  LET j == job[c] IN
  /\ Closed(j.opened.has) /\ Closed(j.snap.has) /\ j.opened.has \subseteq remote.has
  /\ j.op = "push" => j.opened.other \in j.opened.has \cup {None}
  /\ j.op \in {"fetch", "pull"} => j.snap.has \subseteq local[c].has

\* Between the batches: a chunk that was queued is queued, got or present, and
\* so are the ones that are named by what was got
Synching(c) ==
  LET j == job[c] IN
  j.at = "sync" => /\ j.queue \subseteq Source(c) /\ j.tip \in j.seen
                   /\ j.seen \subseteq j.queue \cup j.got \cup Present(c)
                   /\ \A x \in j.got : parents[x] \subseteq j.seen
                   /\ j.op \in {"fetch", "pull"} => j.snap.head \in j.snap.has

\* What is about to be written completes the file it is written to
Ready(c) ==
  LET j == job[c] IN
  /\ j.at = "refs" => /\ j.tip \in j.got \cup remote.has
                      /\ \A x \in j.got : parents[x] \subseteq j.got \cup remote.has
  /\ j.at = "posted" => j.tip \in remote.has
  /\ j.at \in {"refs", "posted"} => j.new.other \in remote.has \cup {None}
  /\ j.at = "forward" => j.tip \in local[c].has /\ j.got \subseteq local[c].has

WholeInv == FilesWhole /\ \A c \in Clones : Seen(c) /\ Synching(c) /\ Ready(c)

-----------------------------------------------------------------------------
\* A push that is not forced goes forward from the branch it expects
PushInv ==
  /\ PushedStays
  /\ \A c \in Clones : job[c].op = "push" /\ ~job[c].force =>
       job[c].expected.main \in Past(job[c].tip)

\* A fetch puts back the head it found, and a pull goes forward from it
OwnInv ==
  /\ OwnCommitsStay
  /\ \A c \in Clones : job[c].op \in {"fetch", "pull"} => job[c].snap.head = local[c].head

\* A session is behind its clone, and behind what its own transfer puts back
BehindInv ==
  \A c \in Clones :
    /\ known[c].head \in Past(local[c].head)
    /\ job[c].op \in {"fetch", "pull"} => known[c].head \in Past(job[c].snap.head)

\* A push that still finds the refs it expects has made its new ones from them
BranchInv ==
  \A c \in Clones :
    LET j == job[c] IN
    /\ j.op = "push" /\ j.at = "sync" /\ c \notin Http => Refs(j.opened) = j.expected
    /\ j.at \in {"refs", "posted"} /\ Expected(c) => j.new.other = remote.other

-----------------------------------------------------------------------------
(* What a new commit changes.                                              *)

LEMMA PastOf ==
  ASSUME HistoryInv, NEW c \in Made
  PROVE  /\ c \in Past(c) /\ Past(c) \subseteq Made
         /\ Past(c) = {c} \cup UNION {Past(p) : p \in parents[c]}
         /\ \A d \in Past(c) : parents[d] \subseteq Past(c) /\ Past(d) \subseteq Past(c)
<1> DEFINE n == Cardinality(Made)
<1>1. IsFiniteSet(Made) /\ n \in Nat /\ Made = 1..n
  <2>1. Made = 1..n
    BY DEF HistoryInv, Numbered, Made
  <2> QED BY <2>1, FS_CardinalityType DEF HistoryInv
<1>2. \A x \in Made : Past(x) = Histories(parents)[x]
  BY <1>1 DEF Past, None
<1>3. Numbered(parents, n)
  BY DEF HistoryInv
<1> HIDE DEF n
<1>4. c \in Histories(parents)[c] /\ Histories(parents)[c] \subseteq 1..c
  BY <1>1, <1>3, HistoryBelow
<1>5. Histories(parents)[c] = {c} \cup UNION {Histories(parents)[p] : p \in parents[c]}
  BY <1>1, <1>3, HistoryOf
<1>6. \A p \in parents[c] : p \in Made
  BY <1>1, <1>3 DEF Numbered
<1>7. \A d \in Histories(parents)[c] : /\ d \in Made /\ parents[d] \subseteq Histories(parents)[c]
                                       /\ Histories(parents)[d] \subseteq Histories(parents)[c]
  BY <1>1, <1>3, HistoryClosed
<1>8. {Past(p) : p \in parents[c]} = {Histories(parents)[p] : p \in parents[c]}
  BY <1>2, <1>6
<1> QED BY <1>1, <1>2, <1>4, <1>5, <1>7, <1>8

LEMMA PastIn ==
  ASSUME NamesInv, NEW has, Closed(has), NEW c \in has
  PROVE  Past(c) \subseteq has
<1> DEFINE n == Cardinality(Made)
<1>1. Made = 1..n /\ Numbered(parents, n)
  BY DEF NamesInv, HistoryInv, Numbered, Made
<1>2. n \in Nat
  BY FS_CardinalityType DEF NamesInv, HistoryInv
<1> HIDE DEF n
<1>3. \A x \in has : x \in 1..n /\ parents[x] \subseteq has
  BY <1>1 DEF Closed
<1>4. Histories(parents)[c] \subseteq has
  BY <1>1, <1>2, <1>3, HistoryIn
<1> QED BY <1>4 DEF Past

LEMMA PastSame ==
  ASSUME parents' = parents
  PROVE  \A c : Past(c)' = Past(c)
BY DEF Past

LEMMA NewCommit ==
  ASSUME TypeOK, HistoryInv, NEW ps, ps \subseteq Made, Record(ps)
  PROVE  /\ HistoryInv' /\ Made' = Made \cup {Fresh} /\ Made' \subseteq Commits
         /\ Fresh \notin Made /\ Fresh \in Commits
         /\ parents'[Fresh] = ps /\ \A x \in Made : parents'[x] = parents[x]
         /\ \A x \in Made : Past(x)' = Past(x)
         /\ \A f : f = Fresh => Past(f)' = {f} \cup UNION {Past(p) : p \in ps}
<1> DEFINE n == Cardinality(Made)
<1>1. IsFiniteSet(Made) /\ n \in Nat /\ Made = 1..n
  <2>1. Made = 1..n
    BY DEF HistoryInv, Numbered, Made
  <2> QED BY <2>1, FS_CardinalityType DEF HistoryInv
<1>2. Fresh = n + 1 /\ Fresh \notin Made /\ Fresh \in Commits
  BY <1>1 DEF Fresh, Record
<1>3. Made' = 1..(n + 1) /\ Made' = Made \cup {Fresh}
  BY <1>1, <1>2 DEF Record, Made
<1>4. parents'[Fresh] = ps /\ \A x \in Made : parents'[x] = parents[x]
  BY <1>2 DEF Record
<1>5. Cardinality(Made') = n + 1 /\ IsFiniteSet(Made')
  BY <1>1, <1>3, FS_Interval
<1> HIDE DEF n
<1>6. Numbered(parents', n + 1)
  <2>1. \A x \in 1..n : parents'[x] \subseteq 1..(x - 1)
    BY <1>1, <1>4 DEF HistoryInv, Numbered, n
  <2>2. parents'[n + 1] \subseteq 1..n
    BY <1>1, <1>2, <1>4
  <2> QED BY <1>1, <1>3, <2>1, <2>2 DEF Numbered, Made
<1>7. \A x \in 1..n : Histories(parents')[x] = Histories(parents)[x]
  BY <1>1, <1>4, <1>6, HistoriesKeep DEF HistoryInv, n
<1>8. \A x \in Made : Past(x)' = Past(x)
  BY <1>1, <1>7 DEF Past, None
<1>9. ASSUME NEW f, f = Fresh PROVE Past(f)' = {f} \cup UNION {Past(p) : p \in ps}
  <2>1. f = n + 1 /\ f # None /\ Past(f)' = Histories(parents')[f]
    BY <1>1, <1>2, <1>9 DEF Past, None
  <2>2. Histories(parents')[f] = {f} \cup UNION {Histories(parents')[p] : p \in parents'[f]}
    BY <1>1, <1>6, <2>1, HistoryOf
  <2>3. {Histories(parents')[p] : p \in ps} = {Past(p) : p \in ps}
    BY <1>1, <1>7 DEF Past, None
  <2> QED BY <1>4, <1>9, <2>1, <2>2, <2>3
<1>10. HistoryInv' /\ Made' \subseteq Commits
  BY <1>2, <1>3, <1>5, <1>6 DEF HistoryInv, TypeOK
<1> QED
  BY <1>2, <1>3, <1>4, <1>8, <1>9, <1>10

-----------------------------------------------------------------------------
(* Types, names, and the points of a transfer.                             *)

LEMMA JobKept ==
  ASSUME NamesInv, NEW c \in Clones, NEW j \in JobType, j.queue \subseteq j.seen, JobOK(j),
         job' = [job EXCEPT ![c] = j], parents' = parents
  PROVE  /\ job' \in [Clones -> JobType] /\ JobInv' /\ HistoryInv'
         /\ \A d \in Clones : job'[d].queue \subseteq job'[d].seen
<1>1. job \in [Clones -> JobType]
  BY DEF NamesInv, TypeOK
<1>2. \A d \in Clones : job'[d] = IF d = c THEN j ELSE job[d]
  BY <1>1
<1>3. \A d \in Clones : JobOK(job'[d]) /\ job'[d].queue \subseteq job'[d].seen
  BY <1>2 DEF NamesInv, JobInv, TypeOK
<1>4. Made' = Made
  BY DEF Made
<1>5. JobInv'
  BY <1>3, <1>4 DEF JobInv, JobOK, Made0
<1>6. job' \in [Clones -> JobType]
  BY <1>1, <1>2
<1>7. HistoryInv'
  BY DEF NamesInv, HistoryInv, Made
<1> QED BY <1>3, <1>5, <1>6, <1>7

\* Files of the clones, in themselves or as sessions have loaded them
FilesOK(files) == files \in [Clones -> CloneType] /\ \A c \in Clones : CloneOK(files[c])

LEMMA FilesAre == NamesInv => FilesOK(local) /\ FilesOK(known)
  BY DEF NamesInv, TypeOK, RefsInv, FilesOK

LEMMA FileTaken ==
  ASSUME NEW files, FilesOK(files), NEW c \in Clones, NEW l \in CloneType, CloneOK(l)
  PROVE  FilesOK([files EXCEPT ![c] = l])
  BY DEF FilesOK

\* Steps that make no commit
LEMMA FilesKept ==
  ASSUME NamesInv, parents' = parents, own' = own,
         job' \in [Clones -> JobType], JobInv', \A d \in Clones : job'[d].queue \subseteq job'[d].seen,
         remote' \in RemoteType, remote'.has \subseteq Made, remote'.main \in Made,
         remote'.other \in Made0,
         FilesOK(local'), FilesOK(known'),
         pushed' \subseteq Made, trouble' \in 0..MaxTrouble
  PROVE  NamesInv'
<1>1. Made' = Made
  BY DEF Made
<1>2. TypeOK'
  BY <1>1 DEF NamesInv, TypeOK, FilesOK
<1>3. HistoryInv' /\ RefsInv'
  BY <1>1 DEF NamesInv, HistoryInv, RefsInv, Made0, FilesOK, CloneOK
<1> QED BY <1>2, <1>3 DEF NamesInv

LEMMA JobStep ==
  ASSUME NamesInv, NEW c \in Clones, NEW j \in JobType, j.queue \subseteq j.seen, JobOK(j),
         job' = [job EXCEPT ![c] = j],
         UNCHANGED <<parents, remote, local, pushed, own>>, trouble' \in 0..MaxTrouble,
         known' = known \/ FilesOK(known')
  PROVE  NamesInv'
<1>1. TypeOK /\ RefsInv
  BY DEF NamesInv
<1>2. /\ remote \in RemoteType /\ pushed \subseteq Made
      /\ remote.has \subseteq Made /\ remote.main \in Made /\ remote.other \in Made0
  BY <1>1 DEF TypeOK, RefsInv
<1>3. FilesOK(local') /\ FilesOK(known')
  BY FilesAre
<1> QED BY <1>2, <1>3, JobKept, FilesKept

\* A session has what is in TypeOK and RefsInv to work with
LEMMA Known ==
  ASSUME NamesInv, NEW c \in Clones
  PROVE  /\ job[c] \in JobType /\ job[c].queue \subseteq job[c].seen /\ JobOK(job[c])
         /\ local[c] \in CloneType /\ local[c].head \in Made /\ local[c].track \in Made
         /\ local[c].has \subseteq Made
         /\ known[c] \in CloneType /\ known[c].head \in Made /\ known[c].track \in Made
         /\ known[c].has \subseteq Made
         /\ remote \in RemoteType /\ remote.main \in Made /\ remote.other \in Made0
         /\ remote.has \subseteq Made
         /\ Made \subseteq Commits /\ Commits \subseteq Ref /\ Made0 \subseteq Ref /\ None \notin Made
         /\ trouble \in 0..MaxTrouble /\ MaxTrouble \in Nat
         /\ pushed \subseteq Made /\ \A x \in Made : parents[x] \subseteq Made
         /\ Idle \in JobType
  BY ClonesAssumption
  DEF NamesInv, TypeOK, JobInv, RefsInv, Commits, Ref, None, Made0, Idle, JobType, Refs, NoRemote,
      NoClone, RefsType, RemoteType, CloneType, CloneOK

LEMMA IdleOK == JobOK(Idle)
  BY DEF JobOK, Idle, Made0, NoRemote, NoClone, Refs, None

LEMMA TroubleType ==
  ASSUME NamesInv, Trouble \/ trouble' = trouble
  PROVE  trouble' \in 0..MaxTrouble
  BY ClonesAssumption DEF NamesInv, TypeOK, Trouble

LEMMA SyncNames ==
  ASSUME NamesInv, NEW c \in Clones, Sync(c)
  PROVE  NamesInv'
<1> DEFINE next == (UNION {parents[x] : x \in Wanted(c)}) \ job[c].seen
           j == [job[c] EXCEPT !.got = @ \cup Wanted(c), !.queue = next, !.seen = @ \cup next]
<1>1. Wanted(c) \subseteq Made /\ next \subseteq Made
  BY Known DEF Wanted, JobOK
<1>2. j \in JobType /\ j.queue \subseteq j.seen
  BY <1>1, Known DEF JobType
<1>3. JobOK(j)
  <2>0. Idle.at = "idle"
    BY DEF Idle
  <2>1. job[c] \in JobType /\ JobOK(job[c]) /\ job[c].at = "sync" /\ job[c] # Idle
    BY <2>0, Known DEF Sync
  <2>2. /\ j.op = job[c].op /\ j.at = job[c].at /\ j.tip = job[c].tip /\ j.new = job[c].new
        /\ j.opened = job[c].opened /\ j.snap = job[c].snap
        /\ j.queue = next /\ j.seen = job[c].seen \cup next /\ j.got = job[c].got \cup Wanted(c)
    BY <2>1 DEF JobType
  <2> HIDE DEF j
  <2> QED BY <1>1, <2>1, <2>2 DEF JobOK
<1>4. /\ job' = [job EXCEPT ![c] = j]
      /\ UNCHANGED <<parents, remote, local, known, pushed, own, trouble>>
  BY DEF Sync
<1>5. trouble' \in 0..MaxTrouble
  BY <1>4, Known
<1> HIDE DEF j
<1> QED
  BY <1>2, <1>3, <1>4, <1>5, JobStep

LEMMA PushStarted ==
  ASSUME NamesInv, NEW c \in Clones, NEW force \in BOOLEAN, NEW j, j = StartedPush(c, force)
  PROVE  /\ j \in JobType /\ JobOK(j)
         /\ j.op = "push" /\ j.at = "sync" /\ j.force = force /\ j.tip = known[c].head
         /\ j.expected = Refs(remote) /\ j.got = {}
         /\ j.queue = {known[c].head} /\ j.seen = {known[c].head}
         /\ j.snap.has = known[c].has
         /\ j.opened = IF c \in Http THEN NoRemote ELSE remote
<1>1. /\ j.op = "push" /\ j.at = "sync" /\ j.force = force /\ j.tip = known[c].head
      /\ j.expected = Refs(remote) /\ j.got = {} /\ j.new = Refs(NoRemote)
      /\ j.queue = {known[c].head} /\ j.seen = {known[c].head}
      /\ j.snap = [NoClone EXCEPT !.has = known[c].has]
      /\ j.opened = IF c \in Http THEN NoRemote ELSE remote
  BY DEF StartedPush, Started, Idle
<1>2. j \in JobType
  <2>1. j = [op |-> j.op, at |-> j.at, force |-> j.force, tip |-> j.tip,
             expected |-> j.expected, new |-> j.new, opened |-> j.opened, snap |-> j.snap,
             queue |-> j.queue, seen |-> j.seen, got |-> j.got]
    BY DEF StartedPush, Started, Idle
  <2>2. j.expected \in RefsType /\ j.new \in RefsType
    BY <1>1, Known DEF Refs, RefsType, NoRemote, RemoteType, Ref
  <2>3. j.opened \in RemoteType /\ j.snap \in CloneType
    BY <1>1, Known DEF NoRemote, NoClone, RemoteType, CloneType, Ref
  <2> QED BY <1>1, <2>1, <2>2, <2>3, Known DEF JobType
<1>3. JobOK(j)
  BY <1>1, Known DEF JobOK, NoRemote, NoClone, Refs, Made0
<1> QED BY <1>1, <1>2, <1>3 DEF NoClone

LEMMA FetchStarted ==
  ASSUME NamesInv, NEW c \in Clones, NEW op \in {"fetch", "pull"}, NEW j, j = StartedFetch(c, op)
  PROVE  /\ j \in JobType /\ JobOK(j)
         /\ j.op = op /\ j.at = "sync" /\ j.tip = remote.main /\ j.got = {}
         /\ j.queue = {remote.main} /\ j.seen = {remote.main}
         /\ j.snap = Loaded(c, op)
         /\ j.opened.has = IF c \in Http THEN {} ELSE remote.has
<1>1. /\ j.op = op /\ j.at = "sync" /\ j.force = FALSE /\ j.tip = remote.main
      /\ j.expected = Refs(NoRemote) /\ j.got = {} /\ j.new = Refs(NoRemote)
      /\ j.queue = {remote.main} /\ j.seen = {remote.main}
      /\ j.snap = Loaded(c, op)
      /\ j.opened = [NoRemote EXCEPT !.has = IF c \in Http THEN @ ELSE remote.has]
  BY DEF StartedFetch, Started, Idle
<1>2. j \in JobType
  <2>1. j = [op |-> j.op, at |-> j.at, force |-> j.force, tip |-> j.tip,
             expected |-> j.expected, new |-> j.new, opened |-> j.opened, snap |-> j.snap,
             queue |-> j.queue, seen |-> j.seen, got |-> j.got]
    BY DEF StartedFetch, Started, Idle
  <2>2. j.expected \in RefsType /\ j.new \in RefsType
    BY <1>1 DEF Refs, RefsType, NoRemote, Ref
  <2>3. j.opened \in RemoteType /\ j.snap \in CloneType
    BY <1>1, Known DEF NoRemote, RemoteType, Ref, Loaded
  <2> QED BY <1>1, <2>1, <2>2, <2>3, Known DEF JobType
<1>3. JobOK(j)
  BY <1>1, Known DEF JobOK, NoRemote, Refs, Made0, Loaded
<1> QED BY <1>1, <1>2, <1>3 DEF NoRemote

LEMMA StartNames ==
  ASSUME NamesInv, NEW c \in Clones,
         Push(c) \/ ForcePush(c) \/ Fetch(c, "fetch") \/ Fetch(c, "pull")
  PROVE  NamesInv'
<1>1. ASSUME NEW force \in BOOLEAN, job' = [job EXCEPT ![c] = StartedPush(c, force)],
             UNCHANGED <<parents, remote, local, known, pushed, own>>, trouble' \in 0..MaxTrouble
      PROVE  NamesInv'
  BY <1>1, PushStarted, JobStep
<1>2. ASSUME NEW op \in {"fetch", "pull"}, Fetch(c, op) PROVE NamesInv'
  <2> DEFINE j == StartedFetch(c, op)
  <2>1. j \in JobType /\ JobOK(j) /\ j.queue \subseteq j.seen
    BY FetchStarted
  <2>2. /\ job' = [job EXCEPT ![c] = j] /\ UNCHANGED <<parents, remote, local, known, pushed, own>>
        /\ trouble' \in 0..MaxTrouble
    BY <1>2, TroubleType DEF Fetch
  <2> HIDE DEF j
  <2> QED BY <2>1, <2>2, JobStep
<1>3. CASE Push(c) \/ ForcePush(c)
  <2>1. trouble' \in 0..MaxTrouble
    BY <1>3, TroubleType DEF Push, ForcePush
  <2> QED BY <1>1, <1>3, <2>1 DEF Push, ForcePush
<1> QED
  BY <1>2, <1>3

LEMMA ReadNames ==
  ASSUME NamesInv, NEW c \in Clones, ReadRefs(c)
  PROVE  NamesInv'
<1> DEFINE j == [Idle EXCEPT
                 !.op = "push", !.at = "refs",
                 !.force = job[c].force, !.tip = job[c].tip,
                 !.expected = job[c].expected, !.got = job[c].got,
                 !.new = [Refs(View(c)) EXCEPT !.main = job[c].tip]]
<1>1. View(c) \in RemoteType /\ View(c).other \in Made0
  BY Known DEF View, JobOK, JobType
<1>2. job[c].op = "push"
  BY DEF ReadRefs
<1>3. j \in JobType /\ j.queue \subseteq j.seen
  BY <1>1, Known DEF JobType, Refs, RefsType, RemoteType, Idle
<1>4. JobOK(j)
  BY <1>1, <1>2, Known, IdleOK DEF JobOK, Refs, JobType, Idle
<1>5. job' = [job EXCEPT ![c] = j]
  BY DEF ReadRefs
<1> HIDE DEF j
<1> QED
  BY <1>3, <1>4, <1>5, Known, JobStep DEF ReadRefs

LEMMA GiveUpNames ==
  ASSUME NamesInv, NEW c \in Clones, PushBusy(c) \/ Lose(c)
  PROVE  NamesInv'
<1>1. Idle.queue \subseteq Idle.seen
  BY DEF Idle
<1> QED BY <1>1, Known, IdleOK, JobStep DEF PushBusy, Lose, Trouble

LEMMA RefusedNames ==
  ASSUME NamesInv, NEW c \in Clones, PullRefused(c)
  PROVE  NamesInv'
<1> DEFINE l == [known[c] EXCEPT !.has = local[c].has]
<1>1. l \in CloneType /\ CloneOK(l) /\ known' = [known EXCEPT ![c] = l]
  BY Known, FilesAre DEF PullRefused, CloneType, CloneOK, FilesOK
<1> HIDE DEF l
<1>2. FilesOK(known')
  BY <1>1, FilesAre, FileTaken
<1>3. Idle.queue \subseteq Idle.seen
  BY DEF Idle
<1> QED BY <1>2, <1>3, Known, IdleOK, JobStep DEF PullRefused

LEMMA LookNames ==
  ASSUME NamesInv, NEW c \in Clones, Look(c)
  PROVE  NamesInv'
<1>1. FilesOK(known')
  BY Known, FilesAre, FileTaken DEF Look, FilesOK
<1>2. job' = [job EXCEPT ![c] = job[c]]
  BY DEF Look, NamesInv, TypeOK
<1> QED BY <1>1, <1>2, Known, JobStep DEF Look

\* Steps that write the remote's file
LEMMA RemoteStep ==
  ASSUME NamesInv, NEW c \in Clones, NEW j \in JobType, j.queue \subseteq j.seen, JobOK(j),
         job' = [job EXCEPT ![c] = j], UNCHANGED <<parents, local, known, own, trouble>>,
         remote' \in RemoteType, remote'.has \subseteq Made, remote'.main \in Made,
         remote'.other \in Made0, pushed' \subseteq Made
  PROVE  NamesInv'
<1>1. FilesOK(local') /\ FilesOK(known')
  BY FilesAre
<1> QED BY <1>1, JobKept, FilesKept, TroubleType

LEMMA PostNames ==
  ASSUME NamesInv, NEW c \in Clones, PostChunks(c)
  PROVE  NamesInv'
<1> DEFINE j == [job[c] EXCEPT !.at = "posted", !.got = {}]
<1>1. job[c] \in JobType /\ JobOK(job[c]) /\ job[c].at = "refs" /\ job[c].got \subseteq Made
  BY Known DEF PostChunks, JobOK
<1>2. /\ j \in JobType /\ j.queue = job[c].queue /\ j.seen = job[c].seen /\ j.got = {}
      /\ j.at = "posted" /\ j.op = job[c].op /\ j.tip = job[c].tip /\ j.new = job[c].new
      /\ j.opened = job[c].opened /\ j.snap = job[c].snap
  BY <1>1 DEF JobType
<1>3. /\ job' = [job EXCEPT ![c] = j] /\ UNCHANGED <<parents, local, known, own, trouble, pushed>>
      /\ remote' = [remote EXCEPT !.has = @ \cup job[c].got]
  BY DEF PostChunks
<1>4. remote' \in RemoteType /\ remote'.has = remote.has \cup job[c].got
      /\ remote'.main = remote.main /\ remote'.other = remote.other
  BY <1>1, <1>3, Known DEF RemoteType
<1> HIDE DEF j
<1>5. JobOK(j)
  BY <1>1, <1>2 DEF JobOK
<1>6. j.queue \subseteq j.seen /\ pushed' \subseteq Made /\ remote'.has \subseteq Made
      /\ remote'.main \in Made /\ remote'.other \in Made0
  BY <1>1, <1>2, <1>3, <1>4, Known
<1> QED
  BY <1>2, <1>3, <1>4, <1>5, <1>6, RemoteStep

LEMMA SwapNames ==
  ASSUME NamesInv, NEW c \in Clones, SwapRefs(c) \/ SwapFile(c)
  PROVE  NamesInv'
<1>1. /\ job[c] \in JobType /\ JobOK(job[c]) /\ job[c].at \in {"refs", "posted"}
      /\ job[c].got \subseteq Made /\ job[c].new.other \in Made0
  BY Known DEF SwapRefs, SwapFile, JobOK
<1>2. job[c].new.main = job[c].tip /\ job[c].tip \in Made
  BY <1>1 DEF JobOK
<1>3. /\ job' = [job EXCEPT ![c] = Idle] /\ UNCHANGED <<parents, local, known, own, trouble>>
      /\ pushed' = Promised(c)
      /\ remote' = [has |-> remote'.has, main |-> job[c].new.main, other |-> job[c].new.other]
      /\ remote'.has \in {remote.has, remote.has \cup job[c].got}
  <2>1. CASE SwapRefs(c)
    <3>1. remote \in RemoteType
      BY Known
    <3>2. remote' = [remote EXCEPT !.main = job[c].new.main, !.other = job[c].new.other]
      BY <2>1 DEF SwapRefs
    <3>3. /\ remote' = [has |-> remote'.has, main |-> job[c].new.main, other |-> job[c].new.other]
          /\ remote'.has = remote.has
      BY <3>1, <3>2 DEF RemoteType
    <3> QED BY <2>1, <3>3 DEF SwapRefs
  <2>2. CASE SwapFile(c)
    BY <2>2 DEF SwapFile
  <2> QED BY <2>1, <2>2
<1>4. remote'.has \subseteq Made /\ remote'.main \in Made /\ remote'.other \in Made0
  BY <1>1, <1>2, <1>3, Known
<1>5. remote' \in RemoteType
  BY <1>3, <1>4, Known DEF RemoteType
<1>6. pushed' \subseteq Made
  BY <1>2, <1>3, Known DEF Promised
<1>7. Idle.queue \subseteq Idle.seen
  BY DEF Idle
<1> QED
  BY <1>3, <1>4, <1>5, <1>6, <1>7, Known, IdleOK, RemoteStep

\* Steps that write a clone's file
LEMMA CloneStep ==
  ASSUME NamesInv, NEW c \in Clones, NEW j \in JobType, j.queue \subseteq j.seen, JobOK(j),
         job' = [job EXCEPT ![c] = j], UNCHANGED <<parents, remote, pushed, own, trouble>>,
         NEW l \in CloneType, l.has \subseteq Made, l.head \in Made, l.track \in Made,
         local' = [local EXCEPT ![c] = l],
         known' = known \/ known' = [known EXCEPT ![c] = local'[c]]
  PROVE  NamesInv'
<1>1. FilesOK(local')
  BY FilesAre, FileTaken DEF CloneOK
<1>2. local'[c] \in CloneType /\ CloneOK(local'[c])
  BY <1>1 DEF FilesOK
<1>3. FilesOK(known')
  BY <1>2, FilesAre, FileTaken
<1>4. /\ remote' \in RemoteType /\ remote'.has \subseteq Made /\ remote'.main \in Made
      /\ remote'.other \in Made0 /\ pushed' \subseteq Made
  BY Known
<1> QED BY <1>1, <1>3, <1>4, JobKept, FilesKept, TroubleType

\* What a fetch or a pull puts into its clone, and what it is in then
LEMMA PersistedIs ==
  ASSUME NamesInv, NEW c \in Clones, NEW head \in Made, NEW track \in Made,
         NEW refs, refs.head = head, refs.track = track
  PROVE  \E l \in CloneType :
           /\ Persisted(c, refs) = [local EXCEPT ![c] = l]
           /\ l.has = local[c].has \cup job[c].got /\ l.has \subseteq Made
           /\ l.head = head /\ l.track = track
<1> DEFINE l == [local[c] EXCEPT !.has = @ \cup job[c].got, !.head = head, !.track = track]
<1>1. local \in [Clones -> CloneType] /\ local[c] \in CloneType
  BY DEF NamesInv, TypeOK
<1>2. job[c].got \subseteq Made /\ local[c].has \subseteq Made /\ Made \subseteq Commits
      /\ Commits \subseteq Ref
  BY Known DEF JobOK
<1>3. Persisted(c, refs) = [local EXCEPT ![c] = l]
  BY <1>1 DEF Persisted
<1>4. /\ l \in CloneType /\ l.has = local[c].has \cup job[c].got /\ l.head = head
      /\ l.track = track
  BY <1>1, <1>2 DEF CloneType
<1> HIDE DEF l
<1> QED BY <1>2, <1>3, <1>4

LEMMA FetchNames ==
  ASSUME NamesInv, NEW c \in Clones, FetchDone(c)
  PROVE  NamesInv'
<1> DEFINE refs == [job[c].snap EXCEPT !.track = job[c].tip]
           done == [job[c] EXCEPT !.at = "forward", !.snap = refs]
           last == job[c].op = "fetch" \/ refs.head = refs.track
           j == IF last THEN Idle ELSE done
<1>1. /\ job[c] \in JobType /\ JobOK(job[c]) /\ job[c].op \in {"fetch", "pull"}
      /\ job[c].at = "sync" /\ job[c].queue \subseteq job[c].seen
  BY Known DEF FetchDone, Synced
<1>2. job[c].tip \in Made /\ job[c].snap.head \in Made
  BY <1>1 DEF JobOK
<1>3. refs.head = job[c].snap.head /\ refs.track = job[c].tip /\ refs.has = job[c].snap.has
      /\ refs \in CloneType
  BY <1>1, <1>2, Known DEF JobType, CloneType
<1>4. PICK l \in CloneType : /\ local' = [local EXCEPT ![c] = l] /\ l.has \subseteq Made
                             /\ l.head = job[c].snap.head /\ l.track = job[c].tip
  <2>1. local' = Persisted(c, refs)
    BY DEF FetchDone
  <2> HIDE DEF refs
  <2> QED BY <1>2, <1>3, <2>1, PersistedIs
<1>5. /\ done \in JobType /\ done.queue = job[c].queue /\ done.seen = job[c].seen
      /\ done.got = job[c].got /\ done.at = "forward" /\ done.op = job[c].op
      /\ done.tip = job[c].tip /\ done.new = job[c].new /\ done.opened = job[c].opened
      /\ done.snap = refs
  BY <1>1, <1>3 DEF JobType
<1>6. /\ job' = [job EXCEPT ![c] = j] /\ UNCHANGED <<parents, remote, pushed, own, trouble>>
      /\ known' = known \/ known' = [known EXCEPT ![c] = local'[c]]
  BY <1>1 DEF FetchDone, NamesInv, TypeOK
<1>7. j \in JobType /\ j.queue \subseteq j.seen /\ JobOK(j)
  <2>1. CASE last
    <3>1. Idle.queue \subseteq Idle.seen
      BY DEF Idle
    <3> QED BY <2>1, <3>1, Known, IdleOK
  <2>2. CASE ~last
    <3>0. job[c].op = "pull"
      BY <1>1, <2>2
    <3> HIDE DEF done, refs
    <3>1. JobOK(done)
      BY <1>1, <1>2, <1>3, <1>5, <3>0 DEF JobOK
    <3> QED BY <1>1, <1>5, <2>2, <3>1
  <2> QED BY <2>1, <2>2
<1>8. l.head \in Made /\ l.track \in Made
  BY <1>2, <1>4
<1> HIDE DEF j, refs, done
<1> QED
  BY <1>4, <1>6, <1>7, <1>8, CloneStep

LEMMA PullNames ==
  ASSUME NamesInv, NEW c \in Clones, PullDone(c)
  PROVE  NamesInv'
<1> DEFINE refs == [job[c].snap EXCEPT !.head = job[c].snap.track]
<1>1. /\ job[c] \in JobType /\ JobOK(job[c]) /\ job[c].at = "forward" /\ job[c].op = "pull"
      /\ job[c].snap.track = job[c].tip /\ job[c].tip \in Made
  BY Known DEF PullDone, JobOK
<1>2. refs.head = job[c].tip /\ refs.track = job[c].tip
  BY <1>1 DEF JobType, CloneType
<1>3. PICK l \in CloneType : /\ local' = [local EXCEPT ![c] = l] /\ l.has \subseteq Made
                             /\ l.head = job[c].tip /\ l.track = job[c].tip
  <2>1. local' = Persisted(c, refs)
    BY DEF PullDone
  <2> HIDE DEF refs
  <2> QED BY <1>1, <1>2, <2>1, PersistedIs
<1>4. /\ job' = [job EXCEPT ![c] = Idle] /\ UNCHANGED <<parents, remote, pushed, own, trouble>>
      /\ known' = [known EXCEPT ![c] = local'[c]] /\ Idle.queue \subseteq Idle.seen
  BY DEF PullDone, Idle
<1>5. l.head \in Made /\ l.track \in Made
  BY <1>1, <1>3
<1> QED
  BY <1>3, <1>4, <1>5, CloneStep, Known, IdleOK

\* Other sessions
LEMMA HostNames ==
  ASSUME NamesInv, HostBranch \/ HostDrop \/ HostGc
  PROVE  NamesInv'
<1>1. /\ remote \in RemoteType /\ remote.main \in Made /\ remote.other \in Made0
      /\ remote.has \subseteq Made /\ Made \subseteq Commits /\ Made0 \subseteq Ref /\ None \in Made0
  BY DEF NamesInv, TypeOK, RefsInv, Commits, Made0, Ref
<1>2. /\ UNCHANGED <<parents, local, known, job, pushed, own>> /\ trouble' \in 0..MaxTrouble
      /\ \/ \E b \in Made0 : remote' = [remote EXCEPT !.other = b]
         \/ remote' = [remote EXCEPT !.has = Swept(@, {remote.main, remote.other})]
  BY <1>1, TroubleType DEF HostBranch, HostDrop, HostSets, HostGc, Made0
<1>3. Swept(remote.has, {remote.main, remote.other}) \subseteq Made
  BY <1>1 DEF Swept
<1>4. /\ remote' \in RemoteType /\ remote'.has \subseteq Made /\ remote'.main \in Made
      /\ remote'.other \in Made0
  BY <1>1, <1>2, <1>3 DEF RemoteType
<1>5. /\ job' \in [Clones -> JobType] /\ JobInv'
      /\ \A d \in Clones : job'[d].queue \subseteq job'[d].seen
      /\ FilesOK(local') /\ FilesOK(known') /\ pushed' \subseteq Made
  BY <1>2, FilesAre DEF NamesInv, TypeOK, RefsInv, JobInv, JobOK, Made, Made0
<1> QED BY <1>2, <1>4, <1>5, FilesKept

LEMMA LocalGcNames ==
  ASSUME NamesInv, NEW c \in Clones, LocalGc(c)
  PROVE  NamesInv'
<1> DEFINE l == [local[c] EXCEPT !.has = Swept(@, {local[c].head, local[c].track})]
<1>1. local[c] \in CloneType /\ job \in [Clones -> JobType]
  BY Known DEF NamesInv, TypeOK
<1>2. Swept(local[c].has, {local[c].head, local[c].track}) \subseteq Made
  <2>1. local[c].has \subseteq Made
    BY Known
  <2> QED BY <2>1 DEF Swept
<1>3. l \in CloneType /\ l.has \subseteq Made /\ l.head \in Made /\ l.track \in Made
  BY <1>1, <1>2, Known DEF CloneType
<1>4. /\ local' = [local EXCEPT ![c] = l] /\ job' = [job EXCEPT ![c] = job[c]]
      /\ UNCHANGED <<parents, remote, known, pushed, own, trouble>>
  BY <1>1 DEF LocalGc
<1> HIDE DEF l
<1> QED
  BY <1>3, <1>4, Known, CloneStep

LEMMA CommitNames ==
  ASSUME NamesInv, NEW c \in Clones, NEW ps, ps \subseteq Made, LocalCommit(c, ps)
  PROVE  NamesInv'
<1>1. TypeOK /\ HistoryInv /\ Record(ps)
  BY DEF NamesInv, LocalCommit
<1>2. /\ HistoryInv' /\ Made' = Made \cup {Fresh} /\ Made' \subseteq Commits
      /\ Fresh \in Commits /\ parents'[Fresh] = ps /\ \A x \in Made : parents'[x] = parents[x]
  BY <1>1, NewCommit
<1>3. /\ local' = [local EXCEPT ![c].has = @ \cup {Fresh}, ![c].head = Fresh]
      /\ own' = [own EXCEPT ![c] = @ \cup {Fresh}]
      /\ UNCHANGED <<remote, known, job, pushed, trouble>>
  BY DEF LocalCommit
<1>4. local' \in [Clones -> CloneType]
  <2>1. local \in [Clones -> CloneType] /\ local[c] \in CloneType
    BY <1>1 DEF TypeOK
  <2>2. [local[c] EXCEPT !.has = @ \cup {Fresh}, !.head = Fresh] \in CloneType
    BY <1>2, <2>1 DEF CloneType, Ref
  <2>3. local' = [local EXCEPT ![c] = [local[c] EXCEPT !.has = @ \cup {Fresh}, !.head = Fresh]]
    BY <1>3, <2>1
  <2> QED BY <2>1, <2>2, <2>3
<1>5. \A d \in Clones : CloneOK(local[d])' /\ CloneOK(known[d])'
  <2>1. /\ local'[c].has = local[c].has \cup {Fresh} /\ local'[c].head = Fresh
        /\ local'[c].track = local[c].track
        /\ \A d \in Clones \ {c} : local'[d] = local[d]
    BY <1>1, <1>3 DEF TypeOK, CloneType
  <2>2. CloneOK(local[c])'
    BY <1>2, <2>1, Known DEF CloneOK
  <2>3. \A d \in Clones \ {c} : CloneOK(local[d])'
    BY <1>2, <2>1, FilesAre DEF FilesOK, CloneOK
  <2>4. \A d \in Clones : CloneOK(known[d])'
    BY <1>2, <1>3, FilesAre DEF FilesOK, CloneOK
  <2> QED BY <2>2, <2>3, <2>4
<1>6. own' \in [Clones -> SUBSET Made']
  BY <1>1, <1>2, <1>3 DEF TypeOK
<1>7. TypeOK'
  BY <1>1, <1>2, <1>3, <1>4, <1>6 DEF TypeOK
<1>8. RefsInv'
  BY <1>2, <1>3, <1>5 DEF NamesInv, RefsInv, Made0
<1>9. JobInv'
  <2>1. \A j : JobOK(j) => JobOK(j)'
    BY <1>2 DEF JobOK, Made0
  <2> QED BY <1>2, <1>3 DEF NamesInv, JobInv, JobOK, Made0
<1> QED BY <1>2, <1>7, <1>8, <1>9 DEF NamesInv

LEMMA NamesInit == Init => NamesInv
<1> SUFFICES ASSUME Init PROVE NamesInv
  OBVIOUS
<1>1. /\ Made = {1} /\ parents[1] = {} /\ 1 \in Commits /\ 1..1 = {1}
      /\ remote = [has |-> {1}, main |-> 1, other |-> None]
      /\ local = [c \in Clones |-> [has |-> {1}, head |-> 1, track |-> 1]]
      /\ known = local
      /\ job = [c \in Clones |-> Idle] /\ pushed = {1} /\ own = [c \in Clones |-> {}]
      /\ trouble = 0
  BY ClonesAssumption DEF Init, Made, Commits
<1>2. IsFiniteSet(Made) /\ Cardinality(Made) = 1
  BY <1>1, FS_Singleton
<1>3. HistoryInv
  <2>1. DOMAIN parents = 1..1
    BY <1>1 DEF Made
  <2> QED BY <1>1, <1>2, <2>1 DEF HistoryInv, Numbered
<1>4. Idle \in JobType
  BY DEF Idle, JobType, Refs, NoRemote, NoClone, RefsType, RemoteType, CloneType, Ref
<1>5. Idle.queue \subseteq Idle.seen
  BY DEF Idle
<1>6. TypeOK
  BY <1>1, <1>4, <1>5, ClonesAssumption DEF TypeOK, RemoteType, CloneType, Ref
<1>7. RefsInv
  BY <1>1 DEF RefsInv, Made0, CloneOK
<1>8. JobInv
  BY <1>1, IdleOK DEF JobInv
<1> QED BY <1>3, <1>6, <1>7, <1>8 DEF NamesInv

\* A commit in a clone has the clone's head, or what it merges, as parents
LEMMA CommitsOf ==
  ASSUME NamesInv, NEW c \in Clones, Commit(c) \/ Merge(c)
  PROVE  \E ps : /\ ps \subseteq Made /\ ps \subseteq {local[c].head, local[c].track}
                /\ local[c].head \in ps /\ LocalCommit(c, ps)
  BY Known DEF Commit, Merge

LEMMA NamesKept == NamesInv /\ [Next]_vars => NamesInv'
<1> SUFFICES ASSUME NamesInv, [Next]_vars PROVE NamesInv'
  OBVIOUS
<1>1. CASE UNCHANGED vars
  BY <1>1 DEF vars, NamesInv, TypeOK, HistoryInv, RefsInv, JobInv, JobOK, Made, Made0, CloneOK
<1>2. ASSUME NEW c \in Clones, Commit(c) \/ Merge(c) PROVE NamesInv'
  BY <1>2, CommitsOf, CommitNames
<1> QED
  BY <1>1, <1>2, LocalGcNames, StartNames, SyncNames, ReadNames, PostNames, SwapNames, GiveUpNames,
     FetchNames, PullNames, RefusedNames, LookNames, HostNames DEF Next, Step

\* In every reachable state, for any clones and any habits: files, transfers and
\* histories are of their types.
THEOREM TypeCorrect == Spec => []TypeOK
<1>1. Spec => []NamesInv
  BY NamesInit, NamesKept, PTL DEF Spec
<1> QED
  BY <1>1, PTL DEF NamesInv

-----------------------------------------------------------------------------
(* What each step leaves of a transfer.                                    *)

OtherJobs(c) == \A d \in Clones \ {c} : job'[d] = job[d]

LEMMA IdleIs ==
  /\ Idle.op = "none" /\ Idle.at = "idle" /\ Idle.got = {} /\ Idle.queue = {} /\ Idle.seen = {}
  /\ Idle.opened.has = {} /\ Idle.snap.has = {} /\ Idle.opened = NoRemote
BY DEF Idle, NoRemote, NoClone

LEMMA SyncIs ==
  ASSUME NamesInv, NEW c \in Clones, Sync(c)
  PROVE  /\ OtherJobs(c) /\ UNCHANGED <<parents, remote, local, known, pushed, own, trouble>>
         /\ job[c].at = "sync" /\ job'[c].at = "sync" /\ job'[c].op = job[c].op
         /\ job'[c].force = job[c].force /\ job'[c].tip = job[c].tip
         /\ job'[c].expected = job[c].expected /\ job'[c].new = job[c].new
         /\ job'[c].opened = job[c].opened /\ job'[c].snap = job[c].snap
         /\ job'[c].got = job[c].got \cup Wanted(c)
         /\ job'[c].queue = (UNION {parents[x] : x \in Wanted(c)}) \ job[c].seen
         /\ job'[c].seen = job[c].seen \cup job'[c].queue
<1>1. job \in [Clones -> JobType] /\ job[c] \in JobType
  BY Known DEF NamesInv, TypeOK
<1> QED BY <1>1 DEF Sync, OtherJobs, JobType

LEMMA ReadIs ==
  ASSUME NamesInv, NEW c \in Clones, ReadRefs(c)
  PROVE  /\ OtherJobs(c) /\ UNCHANGED <<parents, remote, local, known, pushed, own, trouble>>
         /\ job[c].at = "sync" /\ job[c].op = "push" /\ job[c].queue = {}
         /\ job'[c].at = "refs" /\ job'[c].op = "push"
         /\ job'[c].force = job[c].force /\ job'[c].tip = job[c].tip
         /\ job'[c].expected = job[c].expected
         /\ job'[c].new.main = job[c].tip /\ job'[c].new.other = View(c).other
         /\ job'[c].got = job[c].got /\ job'[c].opened.has = {} /\ job'[c].snap.has = {}
         /\ job'[c].opened = NoRemote
<1>1. job \in [Clones -> JobType]
  BY DEF NamesInv, TypeOK
<1> QED BY <1>1 DEF ReadRefs, OtherJobs, Synced, Idle, Refs, NoRemote, NoClone

LEMMA PostIs ==
  ASSUME NamesInv, NEW c \in Clones, PostChunks(c)
  PROVE  /\ OtherJobs(c) /\ UNCHANGED <<parents, local, known, pushed, own, trouble>>
         /\ remote'.has = remote.has \cup job[c].got /\ remote'.main = remote.main
         /\ remote'.other = remote.other
         /\ c \in Http /\ job[c].at = "refs" /\ job[c].op = "push"
         /\ job'[c].at = "posted" /\ job'[c].op = job[c].op
         /\ job'[c].force = job[c].force /\ job'[c].tip = job[c].tip
         /\ job'[c].expected = job[c].expected /\ job'[c].new = job[c].new
         /\ job'[c].opened = job[c].opened /\ job'[c].snap = job[c].snap
         /\ job'[c].got = {}
<1>1. job \in [Clones -> JobType] /\ job[c] \in JobType /\ remote \in RemoteType
  BY Known DEF NamesInv, TypeOK
<1>2. job[c].at = "refs" => job[c].op = "push"
  BY Known DEF JobOK
<1> QED BY <1>1, <1>2 DEF PostChunks, OtherJobs, JobType, RemoteType

LEMMA SwapIs ==
  ASSUME NamesInv, NEW c \in Clones, SwapRefs(c) \/ SwapFile(c)
  PROVE  /\ OtherJobs(c) /\ UNCHANGED <<parents, local, known, own, trouble>>
         /\ job'[c] = Idle /\ job[c].op = "push" /\ job[c].at \in {"refs", "posted"} /\ Expected(c)
         /\ pushed' = Promised(c) /\ NoneReturn
         /\ remote'.main = job[c].tip /\ remote'.other = job[c].new.other
         /\ \/ job[c].at = "posted" /\ remote'.has = remote.has
            \/ job[c].at = "refs" /\ remote'.has = remote.has \cup job[c].got
<1>1. job \in [Clones -> JobType] /\ remote \in RemoteType
  BY Known DEF NamesInv, TypeOK
<1>2. job[c].at \in {"refs", "posted"} => job[c].op = "push" /\ job[c].new.main = job[c].tip
  BY Known DEF JobOK
<1>3. CASE SwapRefs(c)
  <2>1. /\ remote' = [remote EXCEPT !.main = job[c].new.main, !.other = job[c].new.other]
        /\ job[c].at = "posted"
    BY <1>3 DEF SwapRefs
  <2>2. /\ remote'.main = job[c].new.main /\ remote'.other = job[c].new.other
        /\ remote'.has = remote.has
    BY <1>1, <2>1 DEF RemoteType
  <2> QED BY <1>1, <1>2, <1>3, <2>1, <2>2 DEF SwapRefs, OtherJobs
<1>4. CASE SwapFile(c)
  BY <1>1, <1>2, <1>4 DEF SwapFile, OtherJobs
<1> QED BY <1>3, <1>4

LEMMA StartIs ==
  ASSUME NamesInv, NEW c \in Clones, Push(c) \/ ForcePush(c)
  PROVE  /\ OtherJobs(c) /\ UNCHANGED <<parents, remote, local, known, pushed, own>>
         /\ job'[c].at = "sync" /\ job'[c].op = "push" /\ job'[c].tip = known[c].head
         /\ job'[c].force \/ remote.main \in Past(known[c].head)
         /\ job'[c].expected = Refs(remote) /\ job'[c].got = {}
         /\ job'[c].queue = {known[c].head} /\ job'[c].seen = {known[c].head}
         /\ job'[c].snap.has = known[c].has
         /\ job'[c].opened = IF c \in Http THEN NoRemote ELSE remote
<1>1. job \in [Clones -> JobType]
  BY DEF NamesInv, TypeOK
<1>2. ASSUME NEW force \in BOOLEAN, job' = [job EXCEPT ![c] = StartedPush(c, force)]
      PROVE  /\ OtherJobs(c) /\ job'[c].force = force
             /\ job'[c].at = "sync" /\ job'[c].op = "push" /\ job'[c].tip = known[c].head
             /\ job'[c].expected = Refs(remote) /\ job'[c].got = {}
             /\ job'[c].queue = {known[c].head} /\ job'[c].seen = {known[c].head}
             /\ job'[c].snap.has = known[c].has
             /\ job'[c].opened = IF c \in Http THEN NoRemote ELSE remote
  <2>1. OtherJobs(c) /\ job'[c] = StartedPush(c, force)
    BY <1>1, <1>2 DEF OtherJobs
  <2> QED BY <2>1, PushStarted
<1>3. CASE Push(c)
  BY <1>2, <1>3 DEF Push, IsForward
<1>4. CASE ForcePush(c)
  BY <1>2, <1>4 DEF ForcePush
<1> QED BY <1>3, <1>4

LEMMA FetchIs ==
  ASSUME NamesInv, NEW c \in Clones, NEW op \in {"fetch", "pull"}, Fetch(c, op)
  PROVE  /\ OtherJobs(c) /\ UNCHANGED <<parents, remote, local, known, pushed, own, trouble>>
         /\ job'[c].at = "sync" /\ job'[c].op = op /\ job'[c].tip = remote.main
         /\ op = "fetch" => UpToDate(c)
         /\ job'[c].got = {} /\ job'[c].queue = {remote.main} /\ job'[c].seen = {remote.main}
         /\ job'[c].snap = Loaded(c, op)
         /\ job'[c].opened.has = IF c \in Http THEN {} ELSE remote.has
<1>1. job \in [Clones -> JobType]
  BY DEF NamesInv, TypeOK
<1>2. OtherJobs(c) /\ job'[c] = StartedFetch(c, op)
  BY <1>1 DEF Fetch, OtherJobs
<1> QED BY <1>2, FetchStarted DEF Fetch

LEMMA GiveUpIs ==
  ASSUME NamesInv, NEW c \in Clones, PushBusy(c) \/ Lose(c) \/ PullRefused(c)
  PROVE  /\ OtherJobs(c) /\ job'[c] = Idle /\ UNCHANGED <<parents, remote, local, pushed, own>>
         /\ known' \in {known, [known EXCEPT ![c].has = local[c].has]}
<1>1. job \in [Clones -> JobType]
  BY DEF NamesInv, TypeOK
<1> QED BY <1>1 DEF PushBusy, Lose, PullRefused, OtherJobs

OtherClones(c) == \A d \in Clones \ {c} : local'[d] = local[d]

LEMMA FetchDoneIs ==
  ASSUME NamesInv, NEW c \in Clones, FetchDone(c)
  PROVE  /\ OtherJobs(c) /\ OtherClones(c) /\ UNCHANGED <<parents, remote, pushed, own, trouble>>
         /\ job[c].op \in {"fetch", "pull"} /\ job[c].at = "sync" /\ job[c].queue = {}
         /\ local'[c].has = local[c].has \cup job[c].got
         /\ local'[c].head = job[c].snap.head /\ local'[c].track = job[c].tip
         /\ \/ job'[c] = Idle /\ known' = [known EXCEPT ![c] = local'[c]]
            \/ /\ known' = known
               /\ job[c].op = "pull" /\ job'[c].op = "pull" /\ job'[c].at = "forward"
               /\ job'[c].tip = job[c].tip /\ job'[c].got = job[c].got
               /\ job'[c].opened = job[c].opened
               /\ job'[c].snap.has = job[c].snap.has /\ job'[c].snap.head = job[c].snap.head
<1>1. job \in [Clones -> JobType] /\ job[c] \in JobType /\ local \in [Clones -> CloneType]
  BY Known DEF NamesInv, TypeOK
<1>2. job[c].op \in {"fetch", "pull"} /\ job[c].at = "sync" /\ job[c].queue = {}
  BY DEF FetchDone, Synced
<1> DEFINE refs == [job[c].snap EXCEPT !.track = job[c].tip]
<1>3. /\ refs.head = job[c].snap.head /\ refs.track = job[c].tip /\ refs.has = job[c].snap.has
      /\ job[c].snap.head \in Made /\ job[c].tip \in Made
  BY <1>1, <1>2, Known DEF JobType, CloneType, JobOK
<1>4. /\ local' = Persisted(c, refs)
      /\ \/ /\ known' = [known EXCEPT ![c] = local'[c]]
            /\ job' = [job EXCEPT ![c] = Idle]
         \/ /\ known' = known /\ job[c].op # "fetch"
            /\ job' = [job EXCEPT ![c] = [job[c] EXCEPT !.at = "forward", !.snap = refs]]
      /\ UNCHANGED <<parents, remote, pushed, own, trouble>>
  BY <1>1 DEF FetchDone
<1> HIDE DEF refs
<1>5. PICK l \in CloneType : /\ local' = [local EXCEPT ![c] = l]
                             /\ l.has = local[c].has \cup job[c].got
                             /\ l.head = job[c].snap.head /\ l.track = job[c].tip
  BY <1>3, <1>4, PersistedIs
<1>6. /\ OtherClones(c) /\ local'[c].has = local[c].has \cup job[c].got
      /\ local'[c].head = job[c].snap.head /\ local'[c].track = job[c].tip
  BY <1>1, <1>5 DEF OtherClones
<1>7. CASE known' = [known EXCEPT ![c] = local'[c]] /\ job' = [job EXCEPT ![c] = Idle]
  <2>1. OtherJobs(c) /\ job'[c] = Idle
    BY <1>1, <1>7 DEF OtherJobs
  <2> QED BY <1>2, <1>4, <1>6, <1>7, <2>1
<1>8. CASE /\ known' = known /\ job[c].op # "fetch"
           /\ job' = [job EXCEPT ![c] = [job[c] EXCEPT !.at = "forward", !.snap = refs]]
  <2>1. OtherJobs(c) /\ job'[c] = [job[c] EXCEPT !.at = "forward", !.snap = refs]
    BY <1>1, <1>8 DEF OtherJobs
  <2>2. /\ job'[c].op = job[c].op /\ job'[c].at = "forward" /\ job'[c].tip = job[c].tip
        /\ job'[c].got = job[c].got /\ job'[c].opened = job[c].opened /\ job'[c].snap = refs
    BY <1>1, <2>1 DEF JobType
  <2>3. job[c].op = "pull"
    BY <1>2, <1>8
  <2> QED BY <1>2, <1>3, <1>4, <1>6, <1>8, <2>1, <2>2, <2>3
<1> QED BY <1>4, <1>7, <1>8

LEMMA PullDoneIs ==
  ASSUME NamesInv, NEW c \in Clones, PullDone(c)
  PROVE  /\ OtherJobs(c) /\ OtherClones(c) /\ UNCHANGED <<parents, remote, pushed, own, trouble>>
         /\ job[c].op = "pull" /\ job[c].at = "forward" /\ job'[c] = Idle
         /\ job[c].snap.head \in Past(job[c].tip)
         /\ known' = [known EXCEPT ![c] = local'[c]]
         /\ local'[c].has = local[c].has \cup job[c].got
         /\ local'[c].head = job[c].tip /\ local'[c].track = job[c].tip
<1>1. job \in [Clones -> JobType] /\ job[c] \in JobType /\ local \in [Clones -> CloneType]
  BY Known DEF NamesInv, TypeOK
<1>2. job[c].op = "pull" /\ job[c].at = "forward" /\ job[c].snap.track = job[c].tip
      /\ job[c].tip \in Made /\ job[c].snap.head \in Past(job[c].snap.track)
  BY Known DEF PullDone, CanForward, JobOK
<1> DEFINE refs == [job[c].snap EXCEPT !.head = job[c].snap.track]
<1>3. refs.head = job[c].tip /\ refs.track = job[c].tip
  BY <1>1, <1>2 DEF JobType, CloneType
<1>4. /\ local' = Persisted(c, refs) /\ job' = [job EXCEPT ![c] = Idle]
      /\ known' = [known EXCEPT ![c] = local'[c]]
      /\ UNCHANGED <<parents, remote, pushed, own, trouble>>
  BY DEF PullDone
<1> HIDE DEF refs
<1>5. PICK l \in CloneType : /\ local' = [local EXCEPT ![c] = l]
                             /\ l.has = local[c].has \cup job[c].got
                             /\ l.head = job[c].tip /\ l.track = job[c].tip
  BY <1>2, <1>3, <1>4, PersistedIs
<1> QED BY <1>1, <1>2, <1>4, <1>5 DEF OtherJobs, OtherClones

LEMMA CommitIs ==
  ASSUME NamesInv, NEW c \in Clones, Commit(c) \/ Merge(c)
  PROVE  /\ UNCHANGED <<remote, known, job, pushed, trouble>> /\ OtherClones(c)
         /\ Fresh \in Made' /\ \A x \in Made : Past(x)' = Past(x) /\ parents'[x] = parents[x]
         /\ Made \subseteq Made'
         /\ local'[c].has = local[c].has \cup {Fresh} /\ local'[c].head = Fresh
         /\ local'[c].track = local[c].track
         /\ parents'[Fresh] \subseteq {local[c].head, local[c].track}
         /\ \A f : f = Fresh => Past(local[c].head) \cup {f} \subseteq Past(f)'
         /\ own'[c] = own[c] \cup {Fresh} /\ \A d \in Clones \ {c} : own'[d] = own[d]
         /\ May(CommitInFetch) \/ job[c].op \notin {"fetch", "pull"}
<1>1. PICK ps : /\ ps \subseteq Made /\ ps \subseteq {local[c].head, local[c].track}
                /\ local[c].head \in ps /\ LocalCommit(c, ps)
  BY CommitsOf
<1>2. TypeOK /\ HistoryInv /\ Record(ps)
  BY <1>1 DEF NamesInv, LocalCommit
<1>3. /\ HistoryInv' /\ Made' = Made \cup {Fresh} /\ parents'[Fresh] = ps
      /\ \A x \in Made : Past(x)' = Past(x) /\ parents'[x] = parents[x]
      /\ \A f : f = Fresh => Past(f)' = {f} \cup UNION {Past(p) : p \in ps}
  BY <1>1, <1>2, NewCommit
<1>5. \A f : f = Fresh => Past(local[c].head) \cup {f} \subseteq Past(f)'
  BY <1>1, <1>3
<1>6. /\ UNCHANGED <<remote, known, job, pushed, trouble>> /\ OtherClones(c)
      /\ local'[c].has = local[c].has \cup {Fresh} /\ local'[c].head = Fresh
      /\ local'[c].track = local[c].track
      /\ own'[c] = own[c] \cup {Fresh} /\ \A d \in Clones \ {c} : own'[d] = own[d]
      /\ May(CommitInFetch) \/ job[c].op \notin {"fetch", "pull"}
  BY <1>1, <1>2 DEF LocalCommit, OtherClones, TypeOK, CloneType, Busy
<1> QED BY <1>1, <1>3, <1>5, <1>6

-----------------------------------------------------------------------------
(* Pushes that overlap.                                                    *)

PushOK(j) == j.op = "push" /\ ~j.force => j.expected.main \in Past(j.tip)

LEMMA PushInvIs == PushInv <=> PushedStays /\ \A c \in Clones : PushOK(job[c])
  BY DEF PushInv, PushOK

\* Until a push changes the branch, it is enough to look at the one transfer
LEMMA PushQuiet ==
  ASSUME NamesInv, PushInv, NEW c \in Clones, parents' = parents, OtherJobs(c),
         pushed' = pushed, remote'.main = remote.main,
         \/ job'[c].op # "push"
         \/ PushOK(job'[c])
         \/ /\ job'[c].op = job[c].op /\ job'[c].force = job[c].force
            /\ job'[c].expected = job[c].expected /\ job'[c].tip = job[c].tip
  PROVE  PushInv'
<1>1. \A d \in Clones : PushOK(job[d])
  BY PushInvIs
<1>2. PushOK(job'[c])
  BY <1>1 DEF PushOK
<1>3. \A d \in Clones : PushOK(job'[d])
  BY <1>1, <1>2 DEF OtherJobs
<1>4. \A x : Past(x)' = Past(x)
  BY PastSame
<1>5. \A d \in Clones : PushOK(job[d])'
  BY <1>3, <1>4 DEF PushOK
<1>6. PushedStays'
  BY <1>4 DEF PushInv, PushedStays
<1> QED BY <1>5, <1>6 DEF PushInv, PushOK

LEMMA PushSwap ==
  ASSUME NamesInv, PushInv, NEW c \in Clones, SwapRefs(c) \/ SwapFile(c)
  PROVE  PushInv'
<1>1. /\ OtherJobs(c) /\ job'[c] = Idle /\ job[c].op = "push" /\ Expected(c)
      /\ pushed' = Promised(c) /\ remote'.main = job[c].tip /\ parents' = parents
  BY SwapIs
<1>2. job[c].tip \in Made
  BY <1>1, Known DEF JobOK
<1>3. \A x : Past(x)' = Past(x)
  BY <1>1, PastSame
<1>4. pushed' \subseteq Past(job[c].tip)
  <2>1. HistoryInv
    BY DEF NamesInv
  <2>2. CASE job[c].force
    BY <1>1, <1>2, <2>1, <2>2, PastOf DEF Promised
  <2>3. CASE ~job[c].force
    <3>1. remote.main \in Past(job[c].tip)
      BY <1>1, <2>3 DEF PushInv, Expected, Refs
    <3>2. Past(remote.main) \subseteq Past(job[c].tip)
      BY <1>2, <2>1, <3>1, PastOf
    <3>3. job[c].tip \in Past(job[c].tip)
      BY <1>2, <2>1, PastOf
    <3> QED BY <1>1, <3>2, <3>3 DEF Promised, PushInv, PushedStays
  <2> QED BY <2>2, <2>3
<1>5. PushedStays'
  BY <1>1, <1>3, <1>4 DEF PushedStays
<1>6. \A d \in Clones : PushOK(job'[d])
  BY <1>1, PushInvIs, IdleIs DEF OtherJobs, PushOK
<1>7. \A d \in Clones : PushOK(job[d])'
  BY <1>3, <1>6 DEF PushOK
<1> QED BY <1>5, <1>7 DEF PushInv, PushOK

LEMMA PushCommit ==
  ASSUME NamesInv, PushInv, NEW c \in Clones, Commit(c) \/ Merge(c)
  PROVE  PushInv'
<1>1. UNCHANGED <<remote, job, pushed>> /\ \A x \in Made : Past(x)' = Past(x)
  BY CommitIs
<1>2. PushedStays'
  BY <1>1, Known DEF PushInv, PushedStays
<1>3. \A d \in Clones : job[d].op = "push" => job[d].tip \in Made
  BY Known DEF JobOK
<1> QED BY <1>1, <1>2, <1>3 DEF PushInv

LEMMA PushKept == NamesInv /\ PushInv /\ [Next]_vars => PushInv'
<1> SUFFICES ASSUME NamesInv, PushInv, [Next]_vars PROVE PushInv'
  OBVIOUS
<1>1. ASSUME UNCHANGED <<parents, job, pushed>>, remote'.main = remote.main PROVE PushInv'
  <2>1. \A x : Past(x)' = Past(x)
    BY <1>1, PastSame
  <2> QED BY <1>1, <2>1 DEF PushInv, PushedStays
<1>2. CASE UNCHANGED vars \/ \E c \in Clones : Look(c)
  BY <1>1, <1>2 DEF vars, Look
<1>3. CASE HostBranch \/ HostDrop \/ HostGc
  <2>1. remote \in RemoteType
    BY DEF NamesInv, TypeOK
  <2> QED BY <1>1, <1>3, <2>1 DEF HostBranch, HostDrop, HostGc, HostSets, RemoteType
<1>4. ASSUME NEW c \in Clones, LocalGc(c) PROVE PushInv'
  BY <1>1, <1>4 DEF LocalGc
<1>5. ASSUME NEW c \in Clones, Push(c) \/ ForcePush(c) PROVE PushInv'
  <2>1. PushOK(job'[c])
    BY <1>5, StartIs DEF PushOK, Refs
  <2> QED BY <1>5, <2>1, StartIs, PushQuiet
<1>6. ASSUME NEW c \in Clones, Fetch(c, "fetch") \/ Fetch(c, "pull") PROVE PushInv'
  BY <1>6, FetchIs, PushQuiet
<1>7. ASSUME NEW c \in Clones, Sync(c) PROVE PushInv'
  BY <1>7, SyncIs, PushQuiet
<1>8. ASSUME NEW c \in Clones, ReadRefs(c) PROVE PushInv'
  BY <1>8, ReadIs, PushQuiet
<1>9. ASSUME NEW c \in Clones, PostChunks(c) PROVE PushInv'
  BY <1>9, PostIs, PushQuiet
<1>10. ASSUME NEW c \in Clones, PushBusy(c) \/ Lose(c) \/ PullRefused(c) PROVE PushInv'
  BY <1>10, GiveUpIs, IdleIs, PushQuiet
<1>11. ASSUME NEW c \in Clones, FetchDone(c) PROVE PushInv'
  BY <1>11, FetchDoneIs, IdleIs, PushQuiet
<1>12. ASSUME NEW c \in Clones, PullDone(c) PROVE PushInv'
  BY <1>12, PullDoneIs, IdleIs, PushQuiet
<1> QED
  BY <1>2, <1>3, <1>4, <1>5, <1>6, <1>7, <1>8, <1>9, <1>10, <1>11, <1>12, PushSwap, PushCommit
  DEF Next, Step

\* What a push has put into the remote's branch stays in its history until
\* somebody forces it, for any clones and any habits: what the swap compares is
\* enough (remoteSrvApplyRefsIf, fsSetRefsIf).
THEOREM PushesStay == Spec => []PushedStays
<1>1. Init => PushInv
  <2> SUFFICES ASSUME Init PROVE PushInv
    OBVIOUS
  <2>1. NamesInv
    BY NamesInit
  <2>2. 1 \in Past(1)
    <3>1. HistoryInv /\ 1 \in Made
      BY <2>1 DEF NamesInv, Init, Made
    <3> QED BY <3>1, PastOf
  <2> QED BY <2>2, IdleIs DEF Init, PushInv, PushedStays
<1>2. Spec => [](NamesInv /\ PushInv)
  BY <1>1, NamesInit, NamesKept, PushKept, PTL DEF Spec
<1> QED
  BY <1>2, PTL DEF PushInv

-----------------------------------------------------------------------------
(* What a clone's sessions have committed.                                 *)

OwnOK(c) ==
  /\ own[c] \subseteq Past(local[c].head)
  /\ job[c].op \in {"fetch", "pull"} => job[c].snap.head = local[c].head

LEMMA OwnInvIs == OwnInv <=> \A c \in Clones : OwnOK(c)
  BY DEF OwnInv, OwnCommitsStay, OwnOK

\* It is enough to look at the one transfer, and at the one clone
LEMMA OwnQuiet ==
  ASSUME NamesInv, OwnInv, NEW c \in Clones, UNCHANGED <<parents, own>>, OtherJobs(c),
         OtherClones(c), local'[c].head = local[c].head,
         \/ job'[c].op \notin {"fetch", "pull"}
         \/ job'[c].snap.head = local[c].head
         \/ job'[c].op = job[c].op /\ job'[c].snap.head = job[c].snap.head
  PROVE  OwnInv'
<1>1. \A x : Past(x)' = Past(x)
  BY PastSame
<1>2. \A d \in Clones \ {c} : OwnOK(d)'
  BY <1>1, OwnInvIs DEF OwnOK, OtherJobs, OtherClones
<1>3. OwnOK(c)'
  BY <1>1, OwnInvIs DEF OwnOK
<1> QED BY <1>2, <1>3 DEF OwnInv, OwnCommitsStay, OwnOK

LEMMA OwnFetch ==
  ASSUME NamesInv, OwnInv, NEW c \in Clones, FetchDone(c)
  PROVE  OwnInv'
<1>1. local'[c].head = local[c].head
  BY FetchDoneIs, OwnInvIs DEF OwnOK
<1> QED BY <1>1, FetchDoneIs, IdleIs, OwnQuiet

LEMMA OwnPull ==
  ASSUME NamesInv, OwnInv, NEW c \in Clones, PullDone(c)
  PROVE  OwnInv'
<1>1. /\ OtherJobs(c) /\ OtherClones(c) /\ UNCHANGED <<parents, own>>
      /\ job[c].op = "pull" /\ job'[c] = Idle /\ local'[c].head = job[c].tip
      /\ job[c].snap.head \in Past(job[c].tip)
  BY PullDoneIs
<1>2. local[c].head \in Past(job[c].tip) /\ own[c] \subseteq Past(local[c].head)
  BY <1>1, OwnInvIs DEF OwnOK
<1>3. job[c].tip \in Made /\ HistoryInv
  BY <1>1, Known DEF JobOK, NamesInv
<1>4. own[c] \subseteq Past(job[c].tip)
  BY <1>2, <1>3, PastOf
<1>5. \A x : Past(x)' = Past(x)
  BY <1>1, PastSame
<1>6. OwnOK(c)'
  BY <1>1, <1>4, <1>5, IdleIs DEF OwnOK
<1>7. \A d \in Clones \ {c} : OwnOK(d)'
  BY <1>1, <1>5, OwnInvIs DEF OwnOK, OtherJobs, OtherClones
<1> QED BY <1>6, <1>7 DEF OwnInv, OwnCommitsStay, OwnOK

LEMMA OwnCommit ==
  ASSUME NamesInv, OwnInv, ~May(CommitInFetch), NEW c \in Clones, Commit(c) \/ Merge(c)
  PROVE  OwnInv'
<1>1. /\ job' = job /\ OtherClones(c) /\ \A x \in Made : Past(x)' = Past(x)
      /\ local'[c].head = Fresh /\ job[c].op \notin {"fetch", "pull"}
      /\ own'[c] = own[c] \cup {Fresh} /\ \A d \in Clones \ {c} : own'[d] = own[d]
      /\ \A f : f = Fresh => Past(local[c].head) \cup {f} \subseteq Past(f)'
  BY CommitIs
<1>2. OwnOK(c)'
  <2>1. PICK f : f = Fresh
    OBVIOUS
  <2>2. own'[c] \subseteq Past(f)' /\ local'[c].head = f
    BY <1>1, <2>1, OwnInvIs DEF OwnOK
  <2>3. job'[c].op \notin {"fetch", "pull"}
    BY <1>1
  <2> QED BY <2>2, <2>3 DEF OwnOK
<1>3. ASSUME NEW d \in Clones \ {c} PROVE OwnOK(d)'
  <2>1. local[d].head \in Made
    BY Known
  <2> QED BY <1>1, <2>1, OwnInvIs DEF OwnOK, OtherClones
<1> QED BY <1>2, <1>3 DEF OwnInv, OwnCommitsStay, OwnOK

LEMMA OwnKept ==
  NamesInv /\ OwnInv /\ ~May(CommitInFetch) /\ ~May(FetchBehind) /\ [Next]_vars => OwnInv'
<1> SUFFICES ASSUME NamesInv, OwnInv, ~May(CommitInFetch), ~May(FetchBehind), [Next]_vars
             PROVE OwnInv'
  OBVIOUS
<1>1. ASSUME UNCHANGED <<parents, job, own>>, \A d \in Clones : local'[d].head = local[d].head
      PROVE  OwnInv'
  <2>1. \A x : Past(x)' = Past(x)
    BY <1>1, PastSame
  <2> QED BY <1>1, <2>1 DEF OwnInv, OwnCommitsStay
<1>2. CASE UNCHANGED vars \/ \E c \in Clones : Look(c)
  BY <1>1, <1>2 DEF vars, Look
<1>3. CASE HostBranch \/ HostDrop \/ HostGc
  BY <1>1, <1>3 DEF HostBranch, HostDrop, HostGc, HostSets
<1>4. ASSUME NEW c \in Clones, LocalGc(c) PROVE OwnInv'
  <2>1. local \in [Clones -> CloneType]
    BY DEF NamesInv, TypeOK
  <2> QED BY <1>1, <1>4, <2>1 DEF LocalGc, CloneType
<1>5. ASSUME NEW c \in Clones, local' = local PROVE OtherClones(c) /\ local'[c].head = local[c].head
  BY <1>5 DEF OtherClones
<1>6. ASSUME NEW c \in Clones, Push(c) \/ ForcePush(c) PROVE OwnInv'
  BY <1>5, <1>6, StartIs, OwnQuiet
<1>7. ASSUME NEW c \in Clones, Fetch(c, "fetch") \/ Fetch(c, "pull") PROVE OwnInv'
  <2>1. ASSUME NEW op \in {"fetch", "pull"}, Fetch(c, op)
        PROVE  /\ OtherJobs(c) /\ UNCHANGED <<parents, local, own>>
               /\ job'[c].snap.head = local[c].head
    BY <2>1, FetchIs DEF Loaded, UpToDate
  <2> QED BY <1>5, <1>7, <2>1, OwnQuiet
<1>8. ASSUME NEW c \in Clones, Sync(c) PROVE OwnInv'
  BY <1>5, <1>8, SyncIs, OwnQuiet
<1>9. ASSUME NEW c \in Clones, ReadRefs(c) PROVE OwnInv'
  BY <1>5, <1>9, ReadIs, OwnQuiet
<1>10. ASSUME NEW c \in Clones, PostChunks(c) PROVE OwnInv'
  BY <1>5, <1>10, PostIs, OwnQuiet
<1>11. ASSUME NEW c \in Clones, SwapRefs(c) \/ SwapFile(c) PROVE OwnInv'
  BY <1>5, <1>11, SwapIs, IdleIs, OwnQuiet
<1>12. ASSUME NEW c \in Clones, PushBusy(c) \/ Lose(c) \/ PullRefused(c) PROVE OwnInv'
  BY <1>5, <1>12, GiveUpIs, IdleIs, OwnQuiet
<1> QED
  BY <1>2, <1>3, <1>4, <1>6, <1>7, <1>8, <1>9, <1>10, <1>11, <1>12, OwnFetch, OwnPull, OwnCommit
  DEF Next, Step

\* No fetch, pull or push takes a commit out of the branch of the clone it was
\* made in, for any clones that do not commit while they fetch and whose
\* sessions have seen what others committed before they fetch
\* (remoteStorePersistRefs writes back all refs as the session last loaded them).
THEOREM OwnCommitsKept ==
  {CommitInFetch, FetchBehind} \cap Habits = {} => (Spec => []OwnCommitsStay)
<1> SUFFICES ASSUME {CommitInFetch, FetchBehind} \cap Habits = {} PROVE Spec => []OwnCommitsStay
  OBVIOUS
<1>1. ~May(CommitInFetch) /\ ~May(FetchBehind)
  BY DEF May
<1>2. Init => OwnInv
  BY IdleIs DEF Init, OwnInv, OwnCommitsStay
<1>3. NamesInv /\ OwnInv /\ [Next]_vars => OwnInv'
  BY <1>1, OwnKept
<1>4. Spec => [](NamesInv /\ OwnInv)
  BY <1>2, <1>3, NamesInit, NamesKept, PTL DEF Spec
<1> QED
  BY <1>4, PTL DEF OwnInv

-----------------------------------------------------------------------------
(* The refs a push writes beside its own.                                  *)

BranchOK(c) ==
  LET j == job[c] IN
  /\ j.op = "push" /\ j.at = "sync" /\ c \notin Http => Refs(j.opened) = j.expected
  /\ j.at \in {"refs", "posted"} /\ Expected(c) => j.new.other = remote.other

LEMMA BranchInvIs == BranchInv <=> \A c \in Clones : BranchOK(c)
  BY DEF BranchInv, BranchOK

\* Whatever changes the remote's refs ends the hopes of the other pushes
LEMMA BranchOthers ==
  ASSUME NamesInv, BranchInv, ~May(RefsReturn), NEW c \in Clones, job'[c] = job[c], NoneReturn
  PROVE  BranchOK(c)'
<1>1. CASE Refs(remote') = Refs(remote)
  <2>1. remote'.other = remote.other
    BY <1>1 DEF Refs
  <2> QED BY <1>1, <2>1, BranchInvIs DEF BranchOK, Expected, Refs
<1>2. CASE \A d \in Busy({"push"}) : job[d].expected # Refs(remote')
  <2>1. job[c].at \in {"refs", "posted"} => c \in Busy({"push"})
    BY Known DEF JobOK, Busy
  <2>2. job[c].at \in {"refs", "posted"} => ~Expected(c)'
    BY <1>2, <2>1 DEF Expected, Refs
  <2> QED BY <2>2, BranchInvIs DEF BranchOK, Refs
<1> QED BY <1>1, <1>2 DEF NoneReturn

LEMMA BranchStep ==
  ASSUME NamesInv, BranchInv, ~May(RefsReturn), NEW c \in Clones, OtherJobs(c), NoneReturn,
         BranchOK(c)'
  PROVE  BranchInv'
<1>1. \A d \in Clones : BranchOK(d)'
  BY BranchOthers DEF OtherJobs
<1> QED BY <1>1 DEF BranchInv, BranchOK

LEMMA BranchKept == NamesInv /\ BranchInv /\ ~May(RefsReturn) /\ [Next]_vars => BranchInv'
<1> SUFFICES ASSUME NamesInv, BranchInv, ~May(RefsReturn), [Next]_vars PROVE BranchInv'
  OBVIOUS
<1>1. ASSUME remote'.main = remote.main, remote'.other = remote.other PROVE NoneReturn
  BY <1>1 DEF NoneReturn, Refs
<1>2. ASSUME job' = job, NoneReturn PROVE BranchInv'
  <2>1. \A d \in Clones : BranchOK(d)'
    BY <1>2, BranchOthers
  <2> QED BY <2>1 DEF BranchInv, BranchOK
<1>3. CASE UNCHANGED vars \/ \E c \in Clones : Look(c)
  BY <1>1, <1>2, <1>3 DEF vars, Look
<1>4. CASE HostBranch \/ HostDrop
  BY <1>2, <1>4 DEF HostBranch, HostDrop, HostSets
<1>5. CASE HostGc
  <2>1. remote \in RemoteType
    BY DEF NamesInv, TypeOK
  <2>2. remote'.main = remote.main /\ remote'.other = remote.other
    BY <1>5, <2>1 DEF HostGc, RemoteType
  <2> QED BY <1>1, <1>2, <1>5, <2>2 DEF HostGc
<1>6. ASSUME NEW c \in Clones, LocalGc(c) \/ Commit(c) \/ Merge(c) PROVE BranchInv'
  <2>1. job' = job /\ remote' = remote
    BY <1>6, CommitIs DEF LocalGc
  <2> QED BY <1>1, <1>2, <2>1
<1>7. ASSUME NEW c \in Clones, Push(c) \/ ForcePush(c) PROVE BranchInv'
  <2>1. BranchOK(c)'
    BY <1>7, StartIs DEF BranchOK
  <2> QED BY <1>1, <1>7, <2>1, StartIs, BranchStep
<1>8. ASSUME NEW c \in Clones, Fetch(c, "fetch") \/ Fetch(c, "pull") PROVE BranchInv'
  <2>1. BranchOK(c)'
    BY <1>8, FetchIs DEF BranchOK
  <2> QED BY <1>1, <1>8, <2>1, FetchIs, BranchStep
<1>9. ASSUME NEW c \in Clones, Sync(c) PROVE BranchInv'
  <2>1. BranchOK(c)'
    BY <1>9, SyncIs, BranchInvIs DEF BranchOK
  <2>2. OtherJobs(c) /\ remote' = remote
    BY <1>9, SyncIs
  <2> QED BY <1>1, <2>1, <2>2, BranchStep
<1>10. ASSUME NEW c \in Clones, ReadRefs(c) PROVE BranchInv'
  <2>1. /\ OtherJobs(c) /\ remote' = remote /\ job'[c].expected = job[c].expected
        /\ job[c].at = "sync" /\ job[c].op = "push"
        /\ job'[c].at = "refs" /\ job'[c].new.other = View(c).other
    BY <1>10, ReadIs
  <2>2. Refs(remote) = job[c].expected => View(c).other = remote.other
    <3>1. CASE c \in Http
      BY <3>1 DEF View
    <3>2. CASE c \notin Http
      <4>1. Refs(job[c].opened) = job[c].expected
        BY <2>1, <3>2, BranchInvIs DEF BranchOK
      <4>2. Refs(remote) = Refs(job[c].opened) => remote.other = job[c].opened.other
        BY DEF Refs
      <4> QED BY <3>2, <4>1, <4>2 DEF View
    <3> QED BY <3>1, <3>2
  <2>3. BranchOK(c)'
    BY <2>1, <2>2 DEF BranchOK, Expected, Refs
  <2>4. OtherJobs(c) /\ remote' = remote
    BY <2>1
  <2> QED BY <1>1, <2>3, <2>4, BranchStep
<1>11. ASSUME NEW c \in Clones, PostChunks(c) PROVE BranchInv'
  <2>1. BranchOK(c)'
    BY <1>11, PostIs, BranchInvIs DEF BranchOK, Expected, Refs
  <2> QED BY <1>1, <1>11, <2>1, PostIs, BranchStep
<1>12. ASSUME NEW c \in Clones, job'[c] = Idle PROVE BranchOK(c)'
  BY <1>12, IdleIs DEF BranchOK
<1>13. ASSUME NEW c \in Clones, SwapRefs(c) \/ SwapFile(c) PROVE BranchInv'
  BY <1>12, <1>13, SwapIs, BranchStep
<1>14. ASSUME NEW c \in Clones, PushBusy(c) \/ Lose(c) \/ PullRefused(c) PROVE BranchInv'
  BY <1>1, <1>12, <1>14, GiveUpIs, BranchStep
<1>15. ASSUME NEW c \in Clones, FetchDone(c) PROVE BranchInv'
  <2>1. BranchOK(c)'
    BY <1>12, <1>15, FetchDoneIs DEF BranchOK
  <2> QED BY <1>1, <1>15, <2>1, FetchDoneIs, BranchStep
<1>16. ASSUME NEW c \in Clones, PullDone(c) PROVE BranchInv'
  BY <1>1, <1>12, <1>16, PullDoneIs, BranchStep
<1> QED
  BY <1>3, <1>4, <1>5, <1>6, <1>7, <1>8, <1>9, <1>10, <1>11, <1>13, <1>14, <1>15, <1>16
  DEF Next, Step

\* A push, plain or forced, changes nothing in the remote's refs but its own
\* branch, for any clones, as long as refs that changed do not change back while
\* it runs (doltlitePush reads the refs twice).
THEOREM OneBranchPushed == RefsReturn \notin Habits => (Spec => PushesItsBranch)
<1> SUFFICES ASSUME RefsReturn \notin Habits PROVE Spec => PushesItsBranch
  OBVIOUS
<1>1. ~May(RefsReturn)
  BY DEF May
<1>2. Init => BranchInv
  BY IdleIs DEF Init, BranchInv
<1>3. NamesInv /\ BranchInv /\ [Next]_vars => BranchInv'
  BY <1>1, BranchKept
<1>4. NamesInv /\ BranchInv /\ [Next]_vars =>
        [\A c \in Clones : SwapRefs(c) \/ SwapFile(c) => remote'.other = remote.other]_vars
  BY SwapIs, BranchInvIs DEF BranchOK
<1> QED
  BY <1>2, <1>3, <1>4, NamesInit, NamesKept, PTL DEF Spec, PushesItsBranch
-----------------------------------------------------------------------------
(* What refs name is there.                                                *)

Whole(c) == Seen(c) /\ Synching(c) /\ Ready(c)

\* Files that only grow disturb nobody else's transfer
LEMMA WholeOthers ==
  ASSUME NamesInv, WholeInv, NEW c \in Clones, job'[c] = job[c],
         Made \subseteq Made', \A x \in Made : parents'[x] = parents[x],
         remote.has \subseteq remote'.has, local[c].has \subseteq local'[c].has
  PROVE  Whole(c)'
<1>1. Seen(c) /\ Synching(c) /\ Ready(c)
  BY DEF WholeInv
<1>2. job[c].got \subseteq Made
  BY Known DEF JobOK
<1>3. \A H : Closed(H) => Closed(H)'
  BY DEF Closed
<1>4. Seen(c)'
  BY <1>1, <1>3 DEF Seen, Closed
<1>5. Source(c) \subseteq Source(c)' /\ Present(c) \subseteq Present(c)'
  BY DEF Source, Present, View
<1>6. Synching(c)'
  BY <1>1, <1>2, <1>5 DEF Synching
<1>7. Ready(c)'
  BY <1>1, <1>2 DEF Ready
<1> QED BY <1>4, <1>6, <1>7 DEF Whole

\* Steps of a transfer that write no file
LEMMA WholeQuiet ==
  ASSUME NamesInv, WholeInv, NEW c \in Clones, OtherJobs(c),
         UNCHANGED <<parents, remote, local>>, Whole(c)'
  PROVE  WholeInv'
<1>1. FilesWhole'
  BY DEF WholeInv, FilesWhole, Closed, Made
<1>2. Made' = Made
  BY DEF Made
<1>3. \A d \in Clones \ {c} : Whole(d)'
  BY <1>2, WholeOthers DEF OtherJobs
<1> QED BY <1>1, <1>3 DEF WholeInv, Whole

LEMMA WholeIdle ==
  ASSUME NEW c \in Clones, job'[c] = Idle
  PROVE  Whole(c)'
<1>1. Seen(c)'
  BY IdleIs DEF Seen, Closed
<1>2. Synching(c)' /\ Ready(c)'
  BY IdleIs DEF Synching, Ready
<1> QED BY <1>1, <1>2 DEF Whole

LEMMA WholeStart ==
  ASSUME NamesInv, WholeInv, KnownWhole, NEW c \in Clones, Push(c) \/ ForcePush(c)
  PROVE  WholeInv'
<1>1. /\ OtherJobs(c) /\ UNCHANGED <<parents, remote, local>> /\ Made' = Made
      /\ job'[c].at = "sync" /\ job'[c].op = "push" /\ job'[c].tip = known[c].head
      /\ job'[c].got = {} /\ job'[c].queue = {known[c].head} /\ job'[c].seen = {known[c].head}
      /\ job'[c].snap.has = known[c].has
      /\ job'[c].opened = IF c \in Http THEN NoRemote ELSE remote
  BY StartIs DEF Made
<1>2. /\ Closed(remote.has) /\ remote.other \in remote.has \cup {None}
      /\ Closed(known[c].has) /\ known[c].head \in known[c].has
  BY DEF WholeInv, FilesWhole, KnownWhole
<1>3. Seen(c)'
  BY <1>1, <1>2 DEF Seen, Closed, NoRemote
<1>4. Synching(c)'
  BY <1>1, <1>2 DEF Synching, Source
<1>5. Ready(c)'
  BY <1>1 DEF Ready
<1>6. Whole(c)'
  BY <1>3, <1>4, <1>5 DEF Whole
<1> QED BY <1>1, <1>6, WholeQuiet

LEMMA WholeFetch ==
  ASSUME NamesInv, WholeInv, KnownWhole, ~May(GcInTransfer),
         NEW c \in Clones, NEW op \in {"fetch", "pull"}, Fetch(c, op)
  PROVE  WholeInv'
<1>1. /\ OtherJobs(c) /\ UNCHANGED <<parents, remote, local>> /\ Made' = Made
      /\ job'[c].at = "sync" /\ job'[c].op = op /\ job'[c].tip = remote.main
      /\ job'[c].got = {} /\ job'[c].queue = {remote.main} /\ job'[c].seen = {remote.main}
      /\ job'[c].snap = Loaded(c, op) /\ (op = "fetch" => UpToDate(c))
      /\ job'[c].opened.has = IF c \in Http THEN {} ELSE remote.has
  BY FetchIs DEF Made
<1>2. /\ Closed(remote.has) /\ remote.main \in remote.has
      /\ Closed(Loaded(c, op).has) /\ Loaded(c, op).head \in Loaded(c, op).has
      /\ Loaded(c, op).has \subseteq local[c].has
  BY <1>1 DEF WholeInv, FilesWhole, KnownWhole, Loaded, UpToDate
<1>3. Seen(c)'
  BY <1>1, <1>2 DEF Seen, Closed
<1>4. Synching(c)'
  BY <1>1, <1>2 DEF Synching, Source, View
<1>5. Ready(c)'
  BY <1>1 DEF Ready
<1>6. Whole(c)'
  BY <1>3, <1>4, <1>5 DEF Whole
<1> QED BY <1>1, <1>6, WholeQuiet

LEMMA WholeSync ==
  ASSUME NamesInv, WholeInv, NEW c \in Clones, Sync(c)
  PROVE  WholeInv'
<1> DEFINE j == job[c]
           k == job'[c]
<1>1. /\ OtherJobs(c) /\ UNCHANGED <<parents, remote, local>> /\ Made' = Made
      /\ j.at = "sync" /\ k.at = "sync" /\ k.op = j.op /\ k.tip = j.tip
      /\ k.opened = j.opened /\ k.snap = j.snap
      /\ k.got = j.got \cup Wanted(c)
      /\ k.queue = (UNION {parents[x] : x \in Wanted(c)}) \ j.seen
      /\ k.seen = j.seen \cup k.queue
  BY SyncIs DEF Made
<1>2. Seen(c) /\ Synching(c) /\ FilesWhole
  BY DEF WholeInv
<1>3. Source(c)' = Source(c) /\ Present(c)' = Present(c)
  BY <1>1 DEF Source, Present, View
<1>4. Closed(Source(c))
  BY <1>2 DEF Seen, FilesWhole, Source, View
<1>5. Seen(c)'
  BY <1>1, <1>2 DEF Seen, Closed
<1>6. j.queue \subseteq Wanted(c) \cup Present(c) /\ Wanted(c) \subseteq Source(c)
  BY <1>1, <1>2 DEF Synching, Wanted
<1>7. k.queue \subseteq Source(c)
  BY <1>1, <1>4, <1>6 DEF Closed
<1>8. k.seen \subseteq k.queue \cup k.got \cup Present(c)
  BY <1>1, <1>2, <1>6 DEF Synching
<1>9. \A x \in k.got : parents[x] \subseteq k.seen
  <2> DEFINE named == UNION {parents[x] : x \in Wanted(c)}
  <2>1. \A x \in Wanted(c) : parents[x] \subseteq named
    OBVIOUS
  <2>2. k.queue = named \ j.seen /\ k.got = j.got \cup Wanted(c) /\ k.seen = j.seen \cup k.queue
    BY <1>1
  <2>3. \A x \in j.got : parents[x] \subseteq j.seen
    BY <1>1, <1>2 DEF Synching
  <2> HIDE DEF named, j, k
  <2> QED BY <2>1, <2>2, <2>3
<1>10. Synching(c)'
  BY <1>1, <1>2, <1>3, <1>7, <1>8, <1>9 DEF Synching
<1>11. Ready(c)'
  BY <1>1 DEF Ready
<1>12. Whole(c)'
  BY <1>5, <1>10, <1>11 DEF Whole
<1> QED BY <1>1, <1>12, WholeQuiet

LEMMA WholeRead ==
  ASSUME NamesInv, WholeInv, NEW c \in Clones, ReadRefs(c)
  PROVE  WholeInv'
<1>1. /\ OtherJobs(c) /\ UNCHANGED <<parents, remote, local>> /\ Made' = Made
      /\ job[c].at = "sync" /\ job[c].op = "push" /\ job[c].queue = {}
      /\ job'[c].at = "refs" /\ job'[c].op = "push" /\ job'[c].tip = job[c].tip
      /\ job'[c].new.other = View(c).other /\ job'[c].got = job[c].got
      /\ job'[c].opened = NoRemote /\ job'[c].snap.has = {}
  BY ReadIs DEF Made
<1>2. Seen(c) /\ Synching(c) /\ FilesWhole
  BY DEF WholeInv
<1>3. View(c).has \subseteq remote.has /\ View(c).other \in remote.has \cup {None}
  BY <1>1, <1>2 DEF View, Seen, FilesWhole
<1>4. Seen(c)'
  BY <1>1 DEF Seen, Closed, NoRemote
<1>5. /\ job[c].tip \in job[c].got \cup remote.has
      /\ \A x \in job[c].got : parents[x] \subseteq job[c].got \cup remote.has
  BY <1>1, <1>2, <1>3 DEF Synching, Present
<1>6. Ready(c)'
  BY <1>1, <1>3, <1>5 DEF Ready
<1>7. Synching(c)'
  BY <1>1 DEF Synching
<1>8. Whole(c)'
  BY <1>4, <1>6, <1>7 DEF Whole
<1> QED BY <1>1, <1>8, WholeQuiet

\* Steps that write the remote's file, or a clone's: chunks come with what they
\* name, and refs after their chunks
LEMMA WholeRemote ==
  ASSUME NamesInv, WholeInv, NEW c \in Clones, OtherJobs(c), UNCHANGED <<parents, local>>,
         remote.has \subseteq remote'.has, Closed(remote'.has),
         remote'.main \in remote'.has, remote'.other \in remote'.has \cup {None}, Whole(c)'
  PROVE  WholeInv'
<1>1. Made' = Made
  BY DEF Made
<1>2. FilesWhole'
  BY <1>1 DEF WholeInv, FilesWhole, Closed
<1>3. \A d \in Clones \ {c} : Whole(d)'
  BY <1>1, WholeOthers DEF OtherJobs
<1> QED BY <1>2, <1>3 DEF WholeInv, Whole

LEMMA WholeClone ==
  ASSUME NamesInv, WholeInv, NEW c \in Clones, OtherJobs(c), OtherClones(c),
         UNCHANGED <<parents, remote>>, Closed(local'[c].has),
         local'[c].head \in local'[c].has, local'[c].track \in local'[c].has, Whole(c)'
  PROVE  WholeInv'
<1>1. Made' = Made
  BY DEF Made
<1>2. FilesWhole'
  <2>1. \A d \in Clones : /\ Closed(local'[d].has) /\ local'[d].head \in local'[d].has
                          /\ local'[d].track \in local'[d].has
    BY DEF WholeInv, FilesWhole, OtherClones
  <2> QED BY <1>1, <2>1 DEF WholeInv, FilesWhole, Closed
<1>3. \A d \in Clones \ {c} : Whole(d)'
  BY <1>1, WholeOthers DEF OtherJobs, OtherClones
<1> QED BY <1>2, <1>3 DEF WholeInv, Whole

LEMMA WholePost ==
  ASSUME NamesInv, WholeInv, NEW c \in Clones, PostChunks(c)
  PROVE  WholeInv'
<1>1. /\ OtherJobs(c) /\ UNCHANGED <<parents, local>> /\ Made' = Made
      /\ remote'.has = remote.has \cup job[c].got /\ remote'.main = remote.main
      /\ remote'.other = remote.other
      /\ job[c].at = "refs" /\ job'[c].at = "posted" /\ job'[c].op = job[c].op
      /\ job'[c].tip = job[c].tip /\ job'[c].new = job[c].new
      /\ job'[c].opened = job[c].opened /\ job'[c].snap = job[c].snap
  BY PostIs DEF Made
<1>2. Seen(c) /\ Ready(c) /\ FilesWhole /\ job[c].got \subseteq Made
  BY Known DEF WholeInv, JobOK
<1>3. /\ Closed(remote'.has) /\ remote'.main \in remote'.has
      /\ remote'.other \in remote'.has \cup {None}
  BY <1>1, <1>2 DEF Ready, FilesWhole, Closed
<1>4. Seen(c)'
  BY <1>1, <1>2 DEF Seen, Closed
<1>5. Ready(c)' /\ Synching(c)'
  BY <1>1, <1>2 DEF Ready, Synching
<1>6. Whole(c)'
  BY <1>4, <1>5 DEF Whole
<1> QED BY <1>1, <1>3, <1>6, WholeRemote

LEMMA WholeSwap ==
  ASSUME NamesInv, WholeInv, NEW c \in Clones, SwapRefs(c) \/ SwapFile(c)
  PROVE  WholeInv'
<1>1. /\ OtherJobs(c) /\ UNCHANGED <<parents, local>>
      /\ job'[c] = Idle /\ job[c].at \in {"refs", "posted"}
      /\ remote'.main = job[c].tip /\ remote'.other = job[c].new.other
      /\ \/ job[c].at = "posted" /\ remote'.has = remote.has
         \/ job[c].at = "refs" /\ remote'.has = remote.has \cup job[c].got
  BY SwapIs
<1>2. Ready(c) /\ FilesWhole /\ job[c].got \subseteq Made
  BY Known DEF WholeInv, JobOK
<1>3. /\ Closed(remote'.has) /\ remote'.main \in remote'.has
      /\ remote'.other \in remote'.has \cup {None} /\ remote.has \subseteq remote'.has
  BY <1>1, <1>2 DEF Ready, FilesWhole, Closed
<1> QED BY <1>1, <1>3, WholeIdle, WholeRemote

LEMMA WholeFetchDone ==
  ASSUME NamesInv, WholeInv, NEW c \in Clones, FetchDone(c)
  PROVE  WholeInv'
<1>1. /\ OtherJobs(c) /\ OtherClones(c) /\ UNCHANGED <<parents, remote>> /\ Made' = Made
      /\ job[c].op \in {"fetch", "pull"} /\ job[c].at = "sync" /\ job[c].queue = {}
      /\ local'[c].has = local[c].has \cup job[c].got
      /\ local'[c].head = job[c].snap.head /\ local'[c].track = job[c].tip
  BY FetchDoneIs DEF Made
<1>2. Seen(c) /\ Synching(c) /\ FilesWhole /\ job[c].got \subseteq Made
  BY Known DEF WholeInv, JobOK
<1>3. /\ job[c].tip \in job[c].seen /\ job[c].seen \subseteq job[c].got \cup local[c].has
      /\ \A x \in job[c].got : parents[x] \subseteq job[c].seen
      /\ job[c].snap.head \in local[c].has
  BY <1>1, <1>2 DEF Synching, Seen, Present
<1>4. /\ Closed(local'[c].has) /\ local'[c].head \in local'[c].has
      /\ local'[c].track \in local'[c].has
  BY <1>1, <1>2, <1>3 DEF FilesWhole, Closed
<1>5. CASE job'[c] = Idle
  BY <1>1, <1>4, <1>5, WholeIdle, WholeClone
<1>6. CASE job'[c] # Idle
  <2>1. /\ job[c].op = "pull" /\ job'[c].op = "pull" /\ job'[c].at = "forward"
        /\ job'[c].tip = job[c].tip /\ job'[c].got = job[c].got
        /\ job'[c].opened = job[c].opened
        /\ job'[c].snap.has = job[c].snap.has
    BY <1>6, FetchDoneIs
  <2>2. Seen(c)'
    BY <1>1, <1>2, <2>1 DEF Seen, Closed
  <2>3. Ready(c)' /\ Synching(c)'
    BY <1>1, <1>3, <2>1 DEF Ready, Synching
  <2>4. Whole(c)'
    BY <2>2, <2>3 DEF Whole
  <2> QED BY <1>1, <1>4, <2>4, WholeClone
<1> QED BY <1>5, <1>6

LEMMA WholePull ==
  ASSUME NamesInv, WholeInv, NEW c \in Clones, PullDone(c)
  PROVE  WholeInv'
<1>1. /\ OtherJobs(c) /\ OtherClones(c) /\ UNCHANGED <<parents, remote>>
      /\ job[c].at = "forward" /\ job'[c] = Idle
      /\ local'[c].has = local[c].has \cup job[c].got
      /\ local'[c].head = job[c].tip /\ local'[c].track = job[c].tip
  BY PullDoneIs
<1>2. local'[c].has = local[c].has /\ job[c].tip \in local[c].has /\ Closed(local[c].has)
  BY <1>1 DEF WholeInv, Ready, FilesWhole
<1> QED BY <1>1, <1>2, WholeIdle, WholeClone

LEMMA WholeCommit ==
  ASSUME NamesInv, WholeInv, NEW c \in Clones, Commit(c) \/ Merge(c)
  PROVE  WholeInv'
<1>1. /\ UNCHANGED <<remote, job>> /\ OtherClones(c)
      /\ Fresh \in Made' /\ \A x \in Made : parents'[x] = parents[x]
      /\ Made \subseteq Made'
      /\ local'[c].has = local[c].has \cup {Fresh} /\ local'[c].head = Fresh
      /\ local'[c].track = local[c].track
      /\ parents'[Fresh] \subseteq {local[c].head, local[c].track}
  BY CommitIs
<1>2. PICK f : f = Fresh
  OBVIOUS
<1>3. FilesWhole /\ \A H : Closed(H) => Closed(H)'
  BY <1>1 DEF WholeInv, Closed
<1>4. Closed(local[c].has \cup {f})'
  BY <1>1, <1>2, <1>3 DEF FilesWhole, Closed
<1>5. FilesWhole'
  <2>1. \A d \in Clones \ {c} : local'[d] = local[d]
    BY <1>1 DEF OtherClones
  <2> QED BY <1>1, <1>2, <1>3, <1>4, <2>1 DEF FilesWhole, Closed
<1>6. \A d \in Clones : local[d].has \subseteq local'[d].has
  BY <1>1 DEF OtherClones
<1>7. \A d \in Clones : Whole(d)'
  BY <1>1, <1>6, WholeOthers
<1> QED BY <1>5, <1>7 DEF WholeInv, Whole

\* What a collection leaves is whole again
LEMMA SweptWhole ==
  ASSUME NamesInv, NEW has, Closed(has), NEW refs, refs \subseteq has \cup {None}
  PROVE  Closed(Swept(has, refs)) /\ \A r \in refs : r \in Swept(has, refs) \cup {None}
<1>1. HistoryInv /\ refs \subseteq Made \cup {None}
  BY DEF NamesInv, Closed
<1>2. \A r \in refs : r # None => /\ r \in Past(r) /\ Past(r) \subseteq Made
                                  /\ \A d \in Past(r) : parents[d] \subseteq Past(r)
  BY <1>1, PastOf
<1>3. \A r \in refs : r = None => Past(r) = {}
  BY DEF Past
<1>4. Closed(Reached(refs)) /\ \A r \in refs : r \in Reached(refs) \cup {None}
  BY <1>2, <1>3 DEF Reached, Closed
<1> QED BY <1>4 DEF Swept

LEMMA WholeHostGc ==
  ASSUME NamesInv, WholeInv, ~May(GcInTransfer), HostGc
  PROVE  WholeInv'
<1>1. /\ UNCHANGED <<parents, local, job>> /\ Made' = Made /\ remote'.main = remote.main
      /\ remote'.other = remote.other
      /\ remote'.has = Swept(remote.has, {remote.main, remote.other})
  BY DEF HostGc, NamesInv, TypeOK, RemoteType, Made
<1>2. \A c \in Clones : job[c].op \notin {"push", "fetch", "pull"}
  BY DEF HostGc, Busy
<1>3. \A c \in Clones : job[c] = Idle
  <2> TAKE c \in Clones
  <2>1. job[c] \in JobType /\ JobOK(job[c])
    BY Known
  <2>2. job[c].op = "none"
    BY <1>2, <2>1 DEF JobType
  <2> QED BY <2>1, <2>2 DEF JobOK
<1>4. FilesWhole /\ remote.main # None
  BY DEF WholeInv, NamesInv, TypeOK, RefsInv, Commits, None
<1>5. Closed(remote'.has) /\ remote'.main \in remote'.has
                          /\ remote'.other \in remote'.has \cup {None}
  BY <1>1, <1>4, SweptWhole DEF FilesWhole
<1>6. FilesWhole'
  BY <1>1, <1>4, <1>5 DEF FilesWhole, Closed
<1>7. \A c \in Clones : Whole(c)'
  BY <1>1, <1>3, WholeIdle
<1> QED BY <1>6, <1>7 DEF WholeInv, Whole

LEMMA WholeLocalGc ==
  ASSUME NamesInv, WholeInv, ~May(GcInTransfer), NEW c \in Clones, LocalGc(c)
  PROVE  WholeInv'
<1>1. /\ UNCHANGED <<parents, remote, job>> /\ OtherClones(c) /\ job[c] = Idle
      /\ local'[c].head = local[c].head /\ local'[c].track = local[c].track
      /\ local'[c].has = Swept(local[c].has, {local[c].head, local[c].track})
  BY DEF LocalGc, NamesInv, TypeOK, CloneType, OtherClones
<1>2. FilesWhole /\ local[c].head # None /\ local[c].track # None
  BY Known DEF WholeInv
<1>3. Closed(local'[c].has) /\ local'[c].head \in local'[c].has /\ local'[c].track \in local'[c].has
  BY <1>1, <1>2, SweptWhole DEF FilesWhole
<1>4. OtherJobs(c) /\ Whole(c)'
  BY <1>1, WholeIdle DEF OtherJobs
<1> QED BY <1>1, <1>3, <1>4, WholeClone

LEMMA WholeKept ==
  NamesInv /\ WholeInv /\ KnownWhole /\ ~May(GcInTransfer) /\ [Next]_vars => WholeInv'
<1> SUFFICES ASSUME NamesInv, WholeInv, KnownWhole, ~May(GcInTransfer), [Next]_vars
             PROVE WholeInv'
  OBVIOUS
<1>1. CASE UNCHANGED vars \/ \E c \in Clones : Look(c)
  <2>0. UNCHANGED <<parents, remote, local, job>>
    BY <1>1 DEF vars, Look
  <2>1. \A c \in Clones : Whole(c)'
    BY <2>0, WholeOthers DEF Made
  <2>2. FilesWhole'
    BY <2>0 DEF WholeInv, FilesWhole, Closed, Made
  <2> QED BY <2>1, <2>2 DEF WholeInv, Whole
<1>2. ASSUME HostBranch \/ HostDrop PROVE WholeInv'
  <2>1. /\ UNCHANGED <<parents, local, job>> /\ Made' = Made
        /\ remote'.has = remote.has /\ remote'.main = remote.main
        /\ remote'.other \in {remote.main, None}
    BY <1>2 DEF HostBranch, HostDrop, HostSets, NamesInv, TypeOK, RemoteType, Made
  <2>2. \A c \in Clones : Whole(c)'
    BY <2>1, WholeOthers
  <2>3. FilesWhole'
    BY <2>1 DEF WholeInv, FilesWhole, Closed
  <2> QED BY <2>2, <2>3 DEF WholeInv, Whole
<1>3. ASSUME NEW c \in Clones, PushBusy(c) \/ Lose(c) \/ PullRefused(c) PROVE WholeInv'
  BY <1>3, GiveUpIs, WholeIdle, WholeQuiet
<1> QED
  BY <1>1, <1>2, <1>3, WholeStart, WholeFetch, WholeSync, WholeRead, WholePost, WholeSwap,
     WholeFetchDone, WholePull, WholeCommit, WholeHostGc, WholeLocalGc DEF Next, Step

-----------------------------------------------------------------------------
(* What a session has loaded.                                              *)

\* It loads the file again, or puts back the refs from before a pull
LEMMA KnownIs ==
  ASSUME NamesInv, [Next]_vars, NEW c \in Clones
  PROVE  \/ known'[c] = known[c]
         \/ known'[c] = local'[c]
         \/ /\ known'[c] = [known[c] EXCEPT !.has = local[c].has]
            /\ UNCHANGED <<parents, local>>
<1>1. known \in [Clones -> CloneType]
  BY DEF NamesInv, TypeOK
<1>2. CASE UNCHANGED vars
  BY <1>2 DEF vars
<1>3. CASE HostBranch \/ HostDrop \/ HostGc
  BY <1>3 DEF HostBranch, HostDrop, HostGc, HostSets
<1>4. ASSUME NEW d \in Clones, LocalGc(d) \/ Commit(d) \/ Merge(d) PROVE known' = known
  BY <1>4, CommitIs DEF LocalGc
<1>5. ASSUME NEW d \in Clones, Look(d) PROVE known'[c] = known[c] \/ known'[c] = local'[c]
  BY <1>1, <1>5 DEF Look
<1>6. ASSUME NEW d \in Clones,
             Push(d) \/ ForcePush(d) \/ Fetch(d, "fetch") \/ Fetch(d, "pull")
      PROVE  known' = known
  BY <1>6 DEF Push, ForcePush, Fetch
<1>7. ASSUME NEW d \in Clones, Sync(d) \/ ReadRefs(d) \/ PostChunks(d) \/ SwapRefs(d) \/ SwapFile(d)
      PROVE  known' = known
  BY <1>7 DEF Sync, ReadRefs, PostChunks, SwapRefs, SwapFile
<1>8. ASSUME NEW d \in Clones, FetchDone(d) \/ PullDone(d)
      PROVE  known'[c] = known[c] \/ known'[c] = local'[c]
  <2>1. known' = known \/ known' = [known EXCEPT ![d] = local'[d]]
    BY <1>8, FetchDoneIs, PullDoneIs
  <2> QED BY <1>1, <2>1
<1>9. ASSUME NEW d \in Clones, PushBusy(d) \/ Lose(d) \/ PullRefused(d)
      PROVE  /\ known'[c] = known[c] \/ known'[c] = [known[c] EXCEPT !.has = local[c].has]
             /\ UNCHANGED <<parents, local>>
  <2>1. known' \in {known, [known EXCEPT ![d].has = local[d].has]} /\ UNCHANGED <<parents, local>>
    BY <1>9, GiveUpIs
  <2> QED BY <1>1, <2>1
<1> QED BY <1>2, <1>3, <1>4, <1>5, <1>6, <1>7, <1>8, <1>9 DEF Next, Step

BehindOK(c) ==
  /\ known[c].head \in Past(local[c].head)
  /\ job[c].op \in {"fetch", "pull"} => known[c].head \in Past(job[c].snap.head)

LEMMA BehindInvIs == BehindInv <=> \A c \in Clones : BehindOK(c)
  BY DEF BehindInv, BehindOK

\* It is enough to look at the one transfer, and at the one clone
LEMMA BehindQuiet ==
  ASSUME NamesInv, BehindInv, NEW c \in Clones, parents' = parents, OtherJobs(c), OtherClones(c),
         \A d \in Clones \ {c} : known'[d].head = known[d].head,
         known'[c].head \in Past(local'[c].head),
         job'[c].op \in {"fetch", "pull"} => known'[c].head \in Past(job'[c].snap.head)
  PROVE  BehindInv'
<1>1. \A x : Past(x)' = Past(x)
  BY PastSame
<1>2. \A d \in Clones \ {c} : BehindOK(d)'
  BY <1>1, BehindInvIs DEF BehindOK, OtherJobs, OtherClones
<1>3. BehindOK(c)'
  BY <1>1 DEF BehindOK
<1> QED BY <1>2, <1>3 DEF BehindInv, BehindOK

LEMMA BehindKept == NamesInv /\ BehindInv /\ [Next]_vars => BehindInv'
<1> SUFFICES ASSUME NamesInv, BehindInv, [Next]_vars PROVE BehindInv'
  OBVIOUS
<1>0. /\ HistoryInv /\ \A x \in Made : x \in Past(x)
      /\ known \in [Clones -> CloneType] /\ local \in [Clones -> CloneType]
      /\ \A c \in Clones : BehindOK(c)
  BY PastOf, BehindInvIs DEF NamesInv, TypeOK
<1>1. ASSUME UNCHANGED <<parents, job>>,
             \A d \in Clones : known'[d].head = known[d].head /\ local'[d].head = local[d].head
      PROVE  BehindInv'
  <2>1. \A x : Past(x)' = Past(x)
    BY <1>1, PastSame
  <2> QED BY <1>1, <2>1 DEF BehindInv
<1>2. CASE UNCHANGED vars
  BY <1>1, <1>2 DEF vars
<1>3. CASE HostBranch \/ HostDrop \/ HostGc
  BY <1>1, <1>3 DEF HostBranch, HostDrop, HostGc, HostSets
<1>4. ASSUME NEW c \in Clones, LocalGc(c) PROVE BehindInv'
  BY <1>0, <1>1, <1>4 DEF LocalGc, CloneType
<1>5. ASSUME NEW c \in Clones, UNCHANGED <<parents, local, known>>, OtherJobs(c),
             \/ job'[c].op \notin {"fetch", "pull"}
             \/ known[c].head \in Past(job'[c].snap.head)
      PROVE  BehindInv'
  BY <1>0, <1>5, BehindQuiet DEF BehindOK, OtherClones
<1>6. ASSUME NEW c \in Clones, Look(c) PROVE BehindInv'
  <2>1. /\ known'[c].head = local[c].head /\ job' = job /\ local' = local /\ parents' = parents
        /\ \A d \in Clones \ {c} : known'[d] = known[d]
        /\ job'[c].op = "none" /\ local[c].head \in Made
    BY <1>0, <1>6, IdleIs, Known DEF Look
  <2> QED BY <1>0, <2>1, BehindQuiet DEF OtherJobs, OtherClones
<1>7. ASSUME NEW c \in Clones, Push(c) \/ ForcePush(c) PROVE BehindInv'
  BY <1>5, <1>7, StartIs
<1>8. ASSUME NEW c \in Clones, NEW op \in {"fetch", "pull"}, Fetch(c, op) PROVE BehindInv'
  <2>1. known[c].head \in Made /\ job'[c].snap = Loaded(c, op)
    BY <1>8, Known, FetchIs
  <2>2. known[c].head \in Past(job'[c].snap.head)
    BY <1>0, <2>1 DEF Loaded, BehindOK
  <2> QED BY <1>5, <1>8, <2>2, FetchIs
<1>9. ASSUME NEW c \in Clones, Sync(c) \/ ReadRefs(c) PROVE BehindInv'
  BY <1>0, <1>5, <1>9, SyncIs, ReadIs DEF BehindOK
<1>10. ASSUME NEW c \in Clones, PostChunks(c) PROVE BehindInv'
  BY <1>0, <1>5, <1>10, PostIs DEF BehindOK
<1>11. ASSUME NEW c \in Clones, SwapRefs(c) \/ SwapFile(c) PROVE BehindInv'
  BY <1>5, <1>11, SwapIs, IdleIs
<1>12. ASSUME NEW c \in Clones, PushBusy(c) \/ Lose(c) \/ PullRefused(c) PROVE BehindInv'
  <2>1. /\ OtherJobs(c) /\ job'[c].op = "none" /\ UNCHANGED <<parents, local>>
        /\ known' \in {known, [known EXCEPT ![c].has = local[c].has]}
    BY <1>12, GiveUpIs, IdleIs
  <2>2. \A d \in Clones : known'[d].head = known[d].head
    BY <1>0, <2>1 DEF CloneType
  <2> QED BY <1>0, <2>1, <2>2, BehindQuiet DEF BehindOK, OtherClones
<1>13. ASSUME NEW c \in Clones, FetchDone(c) PROVE BehindInv'
  <2>1. /\ OtherJobs(c) /\ OtherClones(c) /\ parents' = parents
        /\ local'[c].head = job[c].snap.head /\ job[c].op \in {"fetch", "pull"}
    BY <1>13, FetchDoneIs
  <2>2. CASE job'[c] = Idle /\ known' = [known EXCEPT ![c] = local'[c]]
    <3>1. job[c].snap.head \in Made
      BY <2>1, Known DEF JobOK
    <3>2. known'[c] = local'[c] /\ \A d \in Clones \ {c} : known'[d] = known[d]
      BY <1>0, <2>2
    <3> QED BY <1>0, <2>1, <2>2, <3>1, <3>2, IdleIs, BehindQuiet
  <2>3. CASE known' = known /\ job'[c].snap.head = job[c].snap.head
    BY <1>0, <2>1, <2>3, BehindQuiet DEF BehindOK
  <2> QED BY <1>13, <2>2, <2>3, FetchDoneIs
<1>14. ASSUME NEW c \in Clones, PullDone(c) PROVE BehindInv'
  <2>1. /\ OtherJobs(c) /\ OtherClones(c) /\ parents' = parents /\ job'[c] = Idle
        /\ local'[c].head = job[c].tip /\ known' = [known EXCEPT ![c] = local'[c]]
        /\ job[c].op = "pull"
    BY <1>14, PullDoneIs
  <2>2. job[c].tip \in Made
    BY <2>1, Known DEF JobOK
  <2>3. known'[c] = local'[c] /\ \A d \in Clones \ {c} : known'[d] = known[d]
    BY <1>0, <2>1
  <2> QED BY <1>0, <2>1, <2>2, <2>3, IdleIs, BehindQuiet
<1>15. ASSUME NEW c \in Clones, Commit(c) \/ Merge(c) PROVE BehindInv'
  <2>1. /\ UNCHANGED <<known, job>> /\ OtherClones(c) /\ \A x \in Made : Past(x)' = Past(x)
        /\ local'[c].head = Fresh
        /\ \A f : f = Fresh => Past(local[c].head) \cup {f} \subseteq Past(f)'
    BY <1>15, CommitIs
  <2>2. \A d \in Clones : /\ local[d].head \in Made
                          /\ job[d].op \in {"fetch", "pull"} => job[d].snap.head \in Made
    BY Known DEF JobOK
  <2>3. PICK f : f = Fresh
    OBVIOUS
  <2>4. known[c].head \in Past(f)' /\ local'[c].head = f
    BY <1>0, <2>1, <2>3 DEF BehindOK
  <2>5. BehindOK(c)'
    BY <1>0, <2>1, <2>2, <2>4 DEF BehindOK
  <2>6. \A d \in Clones \ {c} : BehindOK(d)'
    BY <1>0, <2>1, <2>2 DEF BehindOK, OtherClones
  <2> QED BY <2>5, <2>6 DEF BehindInv, BehindOK
<1> QED
  BY <1>2, <1>3, <1>4, <1>6, <1>7, <1>8, <1>9, <1>10, <1>11, <1>12, <1>13, <1>14, <1>15
  DEF Next, Step

LEMMA ClosedKept ==
  ASSUME NamesInv, [Next]_vars, NEW H, Closed(H)
  PROVE  Closed(H)'
<1>1. Made \subseteq Made' /\ \A x \in Made : parents'[x] = parents[x]
  <2>1. CASE parents' = parents
    BY <2>1 DEF Made
  <2>2. CASE \E c \in Clones : Commit(c) \/ Merge(c)
    BY <2>2, CommitIs
  <2>3. parents' = parents \/ \E c \in Clones : Commit(c) \/ Merge(c)
    BY DEF vars, Next, Step, LocalGc, Look, Push, ForcePush, Fetch, Sync, ReadRefs, PostChunks,
           SwapRefs, SwapFile, PushBusy, FetchDone, PullDone, PullRefused, Lose,
           HostBranch, HostDrop, HostSets, HostGc
  <2> QED BY <2>1, <2>2, <2>3
<1> QED BY <1>1 DEF Closed

LEMMA KnownKept ==
  NamesInv /\ WholeInv /\ BehindInv /\ KnownWhole /\ [Next]_vars /\ WholeInv' => KnownWhole'
<1> SUFFICES ASSUME NamesInv, WholeInv, BehindInv, KnownWhole, [Next]_vars, WholeInv',
                    NEW c \in Clones
             PROVE  Closed(known[c].has)' /\ known'[c].head \in known'[c].has
  BY DEF KnownWhole, Closed
<1>1. CASE known'[c] = known[c]
  <2>1. Closed(known[c].has) /\ known[c].head \in known[c].has
    BY DEF KnownWhole
  <2>2. Closed(known[c].has)'
    BY <1>1, <2>1, ClosedKept DEF Closed
  <2> QED BY <1>1, <2>1, <2>2 DEF Closed
<1>2. CASE known'[c] = local'[c]
  BY <1>2 DEF WholeInv, FilesWhole, Closed
<1>3. CASE /\ known'[c] = [known[c] EXCEPT !.has = local[c].has]
           /\ UNCHANGED <<parents, local>>
  <2>1. Closed(local[c].has) /\ local[c].head \in local[c].has
    BY DEF WholeInv, FilesWhole
  <2>2. Past(local[c].head) \subseteq local[c].has
    BY <2>1, PastIn
  <2>3. known[c].head \in local[c].has
    BY <2>2 DEF BehindInv
  <2>4. known'[c].has = local[c].has /\ known'[c].head = known[c].head
    BY <1>3, Known DEF CloneType
  <2> QED BY <1>3, <2>1, <2>3, <2>4 DEF Closed, Made
<1> QED BY <1>1, <1>2, <1>3, KnownIs

\* Whatever refs name is there with its whole history, for any clones that do
\* not collect while chunks are transferred, or behind a session that fetches: chunks arrive before the refs that
\* need them (doltliteSyncChunks, doltliteGcFunc).
THEOREM RefsName == GcInTransfer \notin Habits => (Spec => []RefsResolve)
<1> SUFFICES ASSUME GcInTransfer \notin Habits PROVE Spec => []RefsResolve
  OBVIOUS
<1>1. ~May(GcInTransfer)
  BY DEF May
<1>2. Init => WholeInv
  <2> SUFFICES ASSUME Init PROVE WholeInv
    OBVIOUS
  <2>1. FilesWhole
    BY DEF Init, FilesWhole, Closed, Made
  <2>2. \A c \in Clones : Seen(c)
    BY IdleIs DEF Init, Seen, Closed
  <2>3. \A c \in Clones : Synching(c) /\ Ready(c)
    BY IdleIs DEF Init, Synching, Ready
  <2> QED BY <2>1, <2>2, <2>3 DEF WholeInv
<1>6. Init => KnownWhole /\ BehindInv
  <2> SUFFICES ASSUME Init PROVE KnownWhole /\ BehindInv
    OBVIOUS
  <2>1. \A c \in Clones : known[c] = [has |-> {1}, head |-> 1, track |-> 1] /\ known[c] = local[c]
    BY DEF Init
  <2>2. KnownWhole
    BY <2>1 DEF Init, KnownWhole, Closed, Made
  <2>3. HistoryInv /\ 1 \in Made
    BY NamesInit DEF NamesInv, Init, Made
  <2>4. 1 \in Past(1)
    BY <2>3, PastOf
  <2> QED BY <2>1, <2>2, <2>4, IdleIs DEF Init, BehindInv
<1>3. NamesInv /\ WholeInv /\ KnownWhole /\ BehindInv /\ [Next]_vars
        => WholeInv' /\ KnownWhole' /\ BehindInv'
  BY <1>1, WholeKept, KnownKept, BehindKept
<1>4. NamesInv /\ WholeInv => RefsResolve
  <2> SUFFICES ASSUME NamesInv, WholeInv PROVE RefsResolve
    OBVIOUS
  <2>1. ASSUME NEW has, Closed(has) PROVE \A r \in has \cup {None} : Past(r) \subseteq has
    BY <2>1, PastIn DEF Past
  <2>2. FilesWhole
    BY DEF WholeInv
  <2> QED BY <2>1, <2>2 DEF FilesWhole, RefsResolve, Reached
<1>5. Spec => [](NamesInv /\ WholeInv /\ KnownWhole /\ BehindInv)
  BY <1>2, <1>6, <1>3, NamesInit, NamesKept, PTL DEF Spec
<1> QED
  BY <1>4, <1>5, PTL
=============================================================================
