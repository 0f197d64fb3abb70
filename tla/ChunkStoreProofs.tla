-------------------------- MODULE ChunkStoreProofs --------------------------
(* Theorems about ChunkStore, for any number of connections, rows and tags, *)
(* any bounds, and behaviours of any length.                                *)
EXTENDS ChunkStore, TLAPS

-----------------------------------------------------------------------------
(* Type correctness of the operators on a store and on a btree.            *)

\* What the path names has a size and refs
LEMMA PathType == TypeOK => /\ path \in Inodes
                            /\ file[path] \in File
                            /\ file[path].size \in Nat
                            /\ file[path].refs \in Refs
                            /\ file[path].refs.work \in SUBSET Rows
                            /\ file[path].blobs \in SUBSET Refs
  BY DEF TypeOK, File, Refs

\* Each operator on a store gives a store
LEMMA ReloadType ==
  ASSUME TypeOK, NEW s \in Store
  PROVE  /\ Reload(s) \in Store
         /\ \A n \in Nat : ReloadKeepingRefs(s, n) \in Store
         /\ Checked(s) \in Store
         /\ Unpinned(s) \in Store
<1>1. Reload(s) \in Store
  BY PathType DEF Reload, Store
<1>2. \A n \in Nat : ReloadKeepingRefs(s, n) \in Store
  BY <1>1 DEF ReloadKeepingRefs, Store
<1>3. Checked(s) \in Store /\ Unpinned(s) \in Store
  BY DEF Checked, Unpinned, Store
<1> QED
  BY <1>1, <1>2, <1>3

\* The fields a reload leaves, kept or not
LEMMA ReloadFields ==
  ASSUME TypeOK, NEW s \in Store
  PROVE  /\ Reload(s).fd = IF file[path].size = 0 THEN 0 ELSE path
         /\ Reload(s).seen = file[path].size
         /\ Reload(s).refs = file[path].refs
         /\ Reload(s).committed = file[path].refs
         /\ Reload(s).blobs = file[path].blobs
         /\ Reload(s).lock = s.lock
         /\ Reload(s).pinned = s.pinned
         /\ \A n \in Nat :
              /\ ReloadKeepingRefs(s, n).fd = IF file[path].size = 0 THEN 0 ELSE path
              /\ ReloadKeepingRefs(s, n).lock = s.lock
  BY ReloadType DEF Reload, ReloadKeepingRefs, Store

\* ... and so do the refreshes made of them
LEMMA RefreshType ==
  ASSUME TypeOK, NEW s \in Store
  PROVE  Refresh(s) \in Store /\ Current(s) \in Store
<1>1. \A t \in Store : Refresh(t) \in Store
  BY ReloadType DEF Refresh
<1>2. Refresh(Unpinned(s)) \in Store
  BY <1>1, ReloadType
<1> QED
  BY <1>1, <1>2 DEF Current, Store

\* ... and the reload inside csCommitToFile
LEMMA LandedType ==
  ASSUME TypeOK, NEW s \in Store, NEW n \in Nat
  PROVE  Landed(s, n) \in Store
<1> DEFINE m == IF s.moved THEN s
                ELSE [(IF HasMoved(s) THEN ReloadKeepingRefs(s, n) ELSE s) EXCEPT !.moved = TRUE]
<1>1. m \in Store
  BY ReloadType DEF Store
<1>2. ReloadKeepingRefs(m, n) \in Store
  BY <1>1, ReloadType
<1>3. [s EXCEPT !.fd = path, !.zPath = "own"] \in Store
  BY PathType DEF Store
<1> QED
  BY <1>1, <1>2, <1>3 DEF Landed

\* A catalog is loaded into a Btree
LEMMA CatalogType ==
  ASSUME NEW b \in Btree, NEW work \in SUBSET Rows
  PROVE  LoadCatalog(b, work) \in Btree
  BY DEF LoadCatalog, Btree

\* ... and reloaded after a refresh
LEMMA ReloadedType ==
  ASSUME TypeOK, NEW b \in Btree, NEW s
  PROVE  Reloaded(b, s) \in Btree
  BY PathType, CatalogType DEF Reloaded

-----------------------------------------------------------------------------
(* TypeOK is inductive together with the fact that a commit has the file   *)
(* it appends to, and that what dolt_gc renamed into place is not empty.   *)

FileInv == /\ path = files
           /\ path > 1 => file[path].size > 0
           /\ \A c \in Conns : store[c].fd <= files
           /\ \A c \in Conns : job[c].step # "idle" => btree[c].mode # "closed"
           /\ \A c \in Conns : Committing(c) =>
                /\ store[c].fd # 0
                /\ store[c].fd = path /\ path > 1 => job[c].undo.size > 0

\* csCommitToFile appends to the file it had or to the one at the path, if any
LEMMA LandedFile ==
  ASSUME TypeOK, FileInv, NEW s \in Store, s.fd <= files, NEW n \in Nat
  PROVE  Landed(s, n).fd <= files
<1> DEFINE m == IF s.moved THEN s
                ELSE [(IF HasMoved(s) THEN ReloadKeepingRefs(s, n) ELSE s) EXCEPT !.moved = TRUE]
<1>1. path <= files /\ 0 <= files
  BY DEF FileInv, TypeOK, Inodes
<1>2. ASSUME NEW r \in Store
      PROVE  ReloadKeepingRefs(r, n).fd <= files
  BY <1>1, ReloadFields
<1>3. m \in Store /\ m.fd <= files
  BY <1>2, ReloadType DEF Store
<1>4. ReloadKeepingRefs(m, n).fd <= files
  BY <1>2, <1>3
<1>5. [s EXCEPT !.fd = path, !.zPath = "own"].fd <= files
  BY <1>1 DEF Store
<1> QED
  BY <1>3, <1>4, <1>5 DEF Landed

\* What Append does to TypeOK and FileInv, whichever operation commits
LEMMA AppendType ==
  ASSUME TypeOK, FileInv, NEW c \in Conns, NEW s \in Store, s.fd <= files,
         NEW kind \in {"txn", "refs", "rollback"}, NEW adds \in SUBSET Tags,
         NEW drops \in SUBSET Tags, Append(c, s, kind, adds, drops), UNCHANGED <<path, files>>,
         btree[c].mode # "closed", \A d \in Conns : btree'[d].mode = btree[d].mode
  PROVE  /\ file' \in [Inodes -> File]
         /\ store' \in [Conns -> Store]
         /\ job' \in [Conns -> Job]
         /\ FileInv'
<1>1. PICK n \in Staged(s) :
        LET t == [Landed(s, n) EXCEPT !.lock = IF s.lock = 0 THEN job[c].inode ELSE s.lock] IN
        /\ t.fd # 0
        /\ file[t.fd].size + n < MaxSize
        /\ file' = [file EXCEPT ![t.fd].size = @ + n]
        /\ store' = [store EXCEPT ![c] = t]
        /\ job' = [job EXCEPT ![c] = [step |-> "append", kind |-> kind,
                                      inode |-> 0, undo |-> file[t.fd],
                                      adds |-> adds, drops |-> drops]]
  BY DEF Append
<1> DEFINE t == [Landed(s, n) EXCEPT !.lock = IF s.lock = 0 THEN job[c].inode ELSE s.lock]
<1>2. n \in Nat
  BY <1>1, BoundsAssumption DEF Staged
<1>3. t \in Store /\ t.fd \in Inodes /\ t.fd <= files
  <2>1. job[c].inode \in Inodes \cup {0}
    BY DEF TypeOK, Job
  <2> QED
    BY <1>1, <1>2, <2>1, LandedType, LandedFile DEF Store
<1>4. file' \in [Inodes -> File] /\ file[t.fd] \in File
  BY <1>3, <1>1, <1>2 DEF TypeOK, File
<1>5. store' \in [Conns -> Store] /\ job' \in [Conns -> Job]
  BY <1>3, <1>1, <1>4 DEF TypeOK, Job
<1>6. file'[path].size >= file[path].size
  BY <1>3, <1>1, <1>2, <1>4, PathType DEF TypeOK, File
<1>7. FileInv'
  <2>1. path' > 1 => file'[path].size > 0
    BY <1>4, <1>6, PathType DEF FileInv, File
  <2>2. \A d \in Conns : store'[d].fd <= files'
    BY <1>3, <1>1 DEF FileInv, TypeOK
  <2>3. job'[c].undo = file[t.fd] /\ store'[c] = t
    BY <1>1 DEF TypeOK
  <2>4. \A d \in Conns \ {c} : job'[d] = job[d] /\ store'[d] = store[d]
    BY <1>1 DEF TypeOK
  <2>5. t.fd # 0
    BY <1>3 DEF Inodes
  <2> HIDE DEF t
  <2> QED
    BY <2>1, <2>2, <2>3, <2>4, <2>5 DEF FileInv, Committing
<1> QED
  BY <1>4, <1>5, <1>7

\* The same with the variables an Append leaves to its caller
LEMMA AppendStep ==
  ASSUME TypeOK, FileInv, NEW c \in Conns, NEW s \in Store, s.fd <= files,
         NEW kind \in {"txn", "refs", "rollback"}, NEW adds \in SUBSET Tags,
         NEW drops \in SUBSET Tags, Append(c, s, kind, adds, drops), UNCHANGED <<path, files, truth>>,
         btree' \in [Conns -> Btree], dirty' \in [Conns -> SUBSET Rows],
         btree[c].mode # "closed", \A d \in Conns : btree'[d].mode = btree[d].mode
  PROVE  TypeOK' /\ FileInv'
<1>1. /\ file' \in [Inodes -> File]
      /\ store' \in [Conns -> Store]
      /\ job' \in [Conns -> Job]
      /\ FileInv'
  BY AppendType
<1> QED
  BY <1>1 DEF TypeOK

\* A step of a connection outside a commit that leaves the files alone
LEMMA QuietStep ==
  ASSUME TypeOK, FileInv, NEW c \in Conns,
         NEW s \in Store, s.fd \in {0, store[c].fd, path},
         store' = [store EXCEPT ![c] = s],
         NEW b \in Btree, btree' = [btree EXCEPT ![c] = b],
         NEW j \in Job, job' = [job EXCEPT ![c] = j],
         j.step = "idle" \/ (j.step \in {"begin", "lock"} /\ b.mode # "closed"),
         dirty' \in [Conns -> SUBSET Rows],
         UNCHANGED <<path, files, file, truth>>
  PROVE  TypeOK' /\ FileInv'
<1>1. TypeOK'
  BY DEF TypeOK
<1>2. s.fd <= files
  BY PathType DEF FileInv, TypeOK, Inodes
<1>3. FileInv'
  BY <1>2 DEF FileInv, TypeOK, Committing
<1> QED
  BY <1>1, <1>3

\* A step of one connection that ends its job
LEMMA QuietIdle ==
  ASSUME TypeOK, FileInv, NEW c \in Conns, job[c].step = "idle",
         NEW s \in Store, s.fd \in {0, store[c].fd, path},
         store' = [store EXCEPT ![c] = s],
         NEW b \in Btree, btree' = [btree EXCEPT ![c] = b],
         dirty' \in [Conns -> SUBSET Rows],
         UNCHANGED <<path, files, file, job, truth>>
  PROVE  TypeOK' /\ FileInv'
<1>1. job[c] \in Job /\ job' = [job EXCEPT ![c] = job[c]]
  BY DEF TypeOK
<1> QED
  BY <1>1, QuietStep

\* A refresh ends on the file it had, on the one at the path, or on none
LEMMA RefreshFd ==
  ASSUME TypeOK, NEW s \in Store
  PROVE  /\ Refresh(s).fd \in {0, s.fd, path}
         /\ Current(s).fd \in {0, s.fd, path}
<1>1. \A t \in Store : Refresh(t).fd \in {0, t.fd, path}
  BY ReloadFields DEF Refresh, Checked, Store
<1>2. Unpinned(s) \in Store /\ Unpinned(s).fd = s.fd
  BY ReloadType DEF Unpinned, Store
<1>3. Current(s).fd = Refresh(Unpinned(s)).fd
  BY <1>2, RefreshType DEF Current, Store
<1> QED
  BY <1>1, <1>2, <1>3

\* The store of a connection that opens the database
LEMMA OpenedType ==
  ASSUME TypeOK, ClosedStore \in Store
  PROVE  /\ Opened \in Store
         /\ Opened.fd = IF file[path].size = 0 THEN 0 ELSE path
         /\ Opened.seen = file[path].size
         /\ Opened.refs = file[path].refs
         /\ Opened.committed = file[path].refs
         /\ Opened.blobs = file[path].blobs
         /\ Opened.lock = ClosedStore.lock
         /\ Opened.pinned = ClosedStore.pinned
  BY ReloadType, ReloadFields DEF Opened, Store

\* The records everything starts from
LEMMA InitialType ==
  /\ EmptyFile \in File /\ NoRefs \in Refs
  /\ ClosedStore \in Store /\ ClosedStore.fd = 0
  /\ ClosedBtree \in Btree /\ ClosedBtree.mode = "closed"
  /\ IdleJob \in Job /\ IdleJob.step = "idle"
  /\ TypeOK => \A step \in {"begin", "lock"} :
       Asking(step) \in Job /\ Asking(step).step = step /\ Asking(step).inode = path
<1>1. EmptyFile \in File /\ NoRefs \in Refs
  BY DEF EmptyFile, NoRefs, File, Refs
<1>2. ClosedStore \in Store /\ ClosedStore.fd = 0
  BY <1>1 DEF ClosedStore, Store
<1>3. ClosedBtree \in Btree /\ ClosedBtree.mode = "closed"
  BY DEF ClosedBtree, Btree
<1>4. IdleJob \in Job /\ IdleJob.step = "idle"
  BY <1>1 DEF IdleJob, Job
<1>5. ASSUME TypeOK, NEW step \in {"begin", "lock"}
      PROVE  Asking(step) \in Job /\ Asking(step).step = step /\ Asking(step).inode = path
  BY <1>4, <1>5 DEF Asking, Job, TypeOK
<1> QED
  BY <1>1, <1>2, <1>3, <1>4, <1>5

\* Both hold initially
LEMMA TypeInit == Init => TypeOK /\ FileInv
<1> SUFFICES ASSUME Init PROVE TypeOK /\ FileInv
  OBVIOUS
<1>1. 1 \in Inodes
  BY BoundsAssumption DEF Inodes
<1>2. TypeOK
  BY <1>1, InitialType DEF Init, TypeOK
<1>3. FileInv
  BY <1>1, InitialType DEF Init, FileInv, Committing
<1> QED
  BY <1>2, <1>3

\* One step of any operation
LEMMA TypeStep ==
  ASSUME TypeOK, FileInv, AllNext
  PROVE  TypeOK' /\ FileInv'
<1>0. \A c \in Conns : /\ store[c] \in Store /\ btree[c] \in Btree /\ job[c] \in Job
                       /\ dirty[c] \in SUBSET Rows
                       /\ Idle(c) => job[c].step = "idle"
  BY DEF TypeOK, Idle
<1>1. ASSUME NEW c \in Conns, Open(c)
      PROVE  TypeOK' /\ FileInv'
  <2>1. Opened \in Store /\ Opened.fd \in {0, store[c].fd, path}
    BY InitialType, OpenedType
  <2>2. [ClosedBtree EXCEPT !.mode = "none"] \in Btree
    BY InitialType DEF Btree
  <2>3. LoadCatalog([ClosedBtree EXCEPT !.mode = "none"], file[path].refs.work) \in Btree
    BY <2>2, CatalogType, PathType
  <2>4. job[c].step = "idle"
    BY <1>1 DEF Open, FileInv
  <2> QED
    BY <1>1, <2>1, <2>3, <2>4, QuietIdle DEF Open, TypeOK
<1>2. ASSUME NEW c \in Conns, Close(c)
      PROVE  TypeOK' /\ FileInv'
  <2>1. dirty' \in [Conns -> SUBSET Rows]
    BY <1>2 DEF Close, TypeOK
  <2> QED
    BY <1>2, <2>1, InitialType, QuietStep DEF Close
<1>3. ASSUME NEW c \in Conns, Begin(c)
      PROVE  TypeOK' /\ FileInv'
  <2>1. [btree[c] EXCEPT !.auto = FALSE] \in Btree
    BY <1>0 DEF Btree
  <2>2. btree' = [btree EXCEPT ![c] = [btree[c] EXCEPT !.auto = FALSE]]
    BY <1>3 DEF Begin, TypeOK
  <2>3. store' = [store EXCEPT ![c] = store[c]]
    BY <1>3 DEF Begin, TypeOK
  <2> QED
    BY <1>0, <1>3, <2>1, <2>2, <2>3, QuietIdle DEF Begin, TypeOK
<1>4. ASSUME NEW c \in Conns, Read(c)
      PROVE  TypeOK' /\ FileInv'
  <2>1. /\ Unpinned(store[c]) \in Store
        /\ Unpinned(store[c]).fd = store[c].fd
    BY <1>0, ReloadType DEF Unpinned, Store
  <2> DEFINE s == [Refresh(Unpinned(store[c])) EXCEPT !.pinned = TRUE]
  <2>2. s \in Store /\ s.fd \in {0, store[c].fd, path}
    BY <2>1, RefreshType, RefreshFd DEF Store
  <2>3. Reloaded(btree[c], Unpinned(store[c])) \in Btree
    BY <1>0, ReloadedType
  <2> DEFINE b == [Reloaded(btree[c], Unpinned(store[c])) EXCEPT !.mode = "read"]
  <2>4. b \in Btree
    BY <2>3 DEF Btree
  <2>5. store' = [store EXCEPT ![c] = s] /\ btree' = [btree EXCEPT ![c] = b]
    BY <1>4 DEF Read
  <2> HIDE DEF s, b
  <2> QED
    BY <1>0, <1>4, <2>2, <2>4, <2>5, QuietIdle DEF Read, TypeOK
<1>5. ASSUME NEW c \in Conns, EndRead(c)
      PROVE  TypeOK' /\ FileInv'
  <2> DEFINE s == [Unpinned(store[c]) EXCEPT !.lock = 0]
             b == [btree[c] EXCEPT !.mode = "none", !.auto = TRUE]
  <2>1. s \in Store /\ s.fd = store[c].fd /\ b \in Btree
    <3>1. s \in Store /\ s.fd = store[c].fd
      BY <1>0 DEF Unpinned, Store
    <3>2. b \in Btree
      BY <1>0 DEF Btree
    <3> QED
      BY <3>1, <3>2
  <2>2. store' = [store EXCEPT ![c] = s] /\ btree' = [btree EXCEPT ![c] = b]
    BY <1>5 DEF EndRead
  <2> HIDE DEF s, b
  <2> QED
    BY <1>0, <1>5, <2>1, <2>2, QuietIdle DEF EndRead, TypeOK
<1>6. ASSUME NEW c \in Conns, BeginWrite(c)
      PROVE  TypeOK' /\ FileInv'
  <2> DEFINE r == Refresh(store[c])
             s == [Compared(c, r) EXCEPT !.lock = job[c].inode, !.pinned = TRUE]
             l == LoadCatalog(Reloaded(btree[c], store[c]), r.refs.work)
             b == [l EXCEPT !.mode = "write", !.base = r.refs.work]
  <2>1. r \in Store /\ r.fd \in {0, store[c].fd, path} /\ r.refs.work \in SUBSET Rows
    BY <1>0, RefreshType, RefreshFd DEF Store, Refs
  <2>2. Compared(c, r) \in Store /\ Compared(c, r).fd = r.fd
    BY <2>1, ReloadType DEF Compared, Checked, Store
  <2>3. s \in Store /\ s.fd = r.fd
    <3>1. job[c].inode \in Inodes \cup {0}
      BY <1>0 DEF Job
    <3> QED
      BY <2>2, <3>1 DEF Store
  <2>4. l \in Btree
    BY <1>0, <2>1, CatalogType, ReloadedType
  <2>5. b \in Btree
    BY <2>1, <2>4 DEF Btree
  <2>6. store' = [store EXCEPT ![c] = s] /\ btree' = [btree EXCEPT ![c] = b]
    BY <1>6 DEF BeginWrite
  <2> HIDE DEF r, s, l, b
  <2> QED
    BY <1>0, <1>6, <2>1, <2>3, <2>5, <2>6, InitialType, QuietStep DEF BeginWrite, TypeOK
<1>7. ASSUME NEW c \in Conns, AskToWrite(c)
      PROVE  TypeOK' /\ FileInv'
  <2>1. Reloaded(btree[c], store[c]) \in Btree
    BY <1>0, ReloadedType
  <2>2. Refresh(store[c]) \in Store /\ Refresh(store[c]).fd \in {0, store[c].fd, path}
    BY <1>0, RefreshType, RefreshFd
  <2>3. Reloaded(btree[c], store[c]).mode = btree[c].mode
    BY <1>0, PathType DEF Reloaded, LoadCatalog, Btree
  <2>4. /\ store' = [store EXCEPT ![c] = Refresh(store[c])]
        /\ btree' = [btree EXCEPT ![c] = Reloaded(btree[c], store[c])]
        /\ job' = [job EXCEPT ![c] = Asking("begin")]
        /\ btree[c].mode # "closed"
    BY <1>7 DEF AskToWrite
  <2> QED
    <3>1. /\ Asking("begin") \in Job /\ Asking("begin").step = "begin"
          /\ dirty' \in [Conns -> SUBSET Rows] /\ UNCHANGED <<path, files, file, truth>>
      BY <1>7, InitialType DEF AskToWrite, TypeOK
    <3> QED
      BY <2>1, <2>2, <2>3, <2>4, <3>1, QuietStep
<1>8. ASSUME NEW c \in Conns, BeginStale(c)
      PROVE  TypeOK' /\ FileInv'
  <2>1. Checked(store[c]) \in Store /\ Checked(store[c]).fd = store[c].fd
    BY <1>0, ReloadType DEF Checked, Store
  <2>2. /\ store' = [store EXCEPT ![c] = Checked(store[c])]
        /\ btree' = [btree EXCEPT ![c] = btree[c]]
    BY <1>8 DEF BeginStale, TypeOK
  <2> QED
    BY <1>0, <1>8, <2>1, <2>2, InitialType, QuietStep DEF BeginStale, TypeOK
<1>9. ASSUME NEW c \in Conns, Insert(c) \/ Delete(c)
      PROVE  TypeOK' /\ FileInv'
  <2>1. PICK r \in Rows, rows \in SUBSET Rows :
          /\ btree' = [btree EXCEPT ![c].cat = rows]
          /\ dirty' = [dirty EXCEPT ![c] = @ \cup {r}]
    <3>1. CASE Insert(c)
      <4>1. PICK r \in Rows \ btree[c].cat :
              /\ btree' = [btree EXCEPT ![c].cat = btree[c].cat \cup {r}]
              /\ dirty' = [dirty EXCEPT ![c] = @ \cup {r}]
        BY <3>1 DEF Insert
      <4>2. btree[c].cat \cup {r} \in SUBSET Rows
        BY <1>0 DEF Btree
      <4> QED
        BY <4>1, <4>2
    <3>2. CASE Delete(c)
      <4>1. PICK r \in btree[c].cat :
              /\ btree' = [btree EXCEPT ![c].cat = btree[c].cat \ {r}]
              /\ dirty' = [dirty EXCEPT ![c] = @ \cup {r}]
        BY <3>2 DEF Delete
      <4>2. btree[c].cat \ {r} \in SUBSET Rows /\ r \in Rows
        BY <1>0 DEF Btree
      <4> QED
        BY <4>1, <4>2
    <3> QED
      BY <1>9, <3>1, <3>2
  <2> DEFINE b == [btree[c] EXCEPT !.cat = rows]
  <2>2. b \in Btree /\ btree' = [btree EXCEPT ![c] = b]
    BY <1>0, <2>1 DEF Btree, TypeOK
  <2>3. dirty' \in [Conns -> SUBSET Rows] /\ store' = [store EXCEPT ![c] = store[c]]
    BY <1>9, <2>1 DEF Insert, Delete, TypeOK
  <2>4. UNCHANGED <<path, files, file, job, truth>> /\ Idle(c)
    BY <1>9 DEF Insert, Delete
  <2> HIDE DEF b
  <2> QED
    BY <1>0, <2>2, <2>3, <2>4, QuietIdle
<1>10. ASSUME NEW c \in Conns, CommitBusy(c) \/ Rollback(c)
       PROVE  TypeOK' /\ FileInv'
  <2> DEFINE u == [Unpinned(store[c]) EXCEPT !.refs = store[c].committed]
             s == IF CommitBusy(c) THEN u ELSE [u EXCEPT !.lock = 0]
             k == [btree[c] EXCEPT !.mode = "none", !.cat = btree[c].base]
             e == [btree[c] EXCEPT !.mode = "none", !.auto = TRUE, !.cat = btree[c].base]
             b == IF CommitBusy(c) THEN k ELSE e
  <2>1. /\ u \in Store /\ u.fd = store[c].fd
        /\ [u EXCEPT !.lock = 0] \in Store /\ [u EXCEPT !.lock = 0].fd = u.fd
    BY <1>0 DEF Unpinned, Store
  <2>2. s \in Store /\ s.fd = store[c].fd
    BY <2>1
  <2>3. b \in Btree
    <3>1. k \in Btree /\ e \in Btree
      BY <1>0 DEF Btree
    <3> QED
      BY <3>1
  <2>5. store' = [store EXCEPT ![c] = s]
    <3>1. CASE CommitBusy(c)
      BY <3>1 DEF CommitBusy
    <3>2. CASE ~CommitBusy(c)
      <4>1. Rollback(c)
        BY <3>2, <1>10
      <4>2. [Unpinned(store[c]) EXCEPT !.refs = store[c].committed, !.lock = 0] = [u EXCEPT !.lock = 0]
        BY <1>0 DEF Unpinned, Store
      <4> QED
        BY <3>2, <4>1, <4>2 DEF Rollback
    <3> QED
      BY <3>1, <3>2
  <2>6. btree' = [btree EXCEPT ![c] = b]
    <3>1. CASE CommitBusy(c)
      BY <3>1 DEF CommitBusy
    <3>2. CASE ~CommitBusy(c)
      BY <1>10, <3>2 DEF Rollback
    <3> QED
      BY <3>1, <3>2
  <2>7. UNCHANGED <<path, files, file, truth>>
    BY <1>10 DEF CommitBusy, Rollback
  <2>9. PICK j \in Job : j.step = "idle" /\ job' = [job EXCEPT ![c] = j]
    <3>1. CASE CommitBusy(c)
      BY <3>1, InitialType DEF CommitBusy
    <3>2. CASE Rollback(c)
      <4>1. job[c] \in Job /\ job[c].step = "idle" /\ job' = [job EXCEPT ![c] = job[c]]
        BY <1>0, <3>2 DEF Rollback, TypeOK
      <4> QED
        BY <4>1
    <3> QED
      BY <1>10, <3>1, <3>2
  <2>8. dirty' \in [Conns -> SUBSET Rows]
    BY <1>10 DEF CommitBusy, Rollback, TypeOK
  <2> HIDE DEF s, b
  <2> QED
    BY <2>2, <2>3, <2>5, <2>6, <2>7, <2>8, <2>9, QuietStep
<1>11. ASSUME NEW c \in Conns, MutateRefused(c) \/ GcNothing(c)
       PROVE  TypeOK' /\ FileInv'
  <2>1. /\ Refresh(store[c]) \in Store /\ Refresh(store[c]).fd \in {0, store[c].fd, path}
        /\ Current(store[c]) \in Store /\ Current(store[c]).fd \in {0, store[c].fd, path}
    BY <1>0, RefreshType, RefreshFd
  <2>2. PICK s \in Store : /\ s.fd \in {0, store[c].fd, path}
                           /\ store' = [store EXCEPT ![c] = s]
    <3>1. CASE MutateRefused(c)
      <4>1. /\ [Current(store[c]) EXCEPT !.lock = 0] \in Store
            /\ [Current(store[c]) EXCEPT !.lock = 0].fd = Current(store[c]).fd
        BY <2>1 DEF Store
      <4>2. store' = [store EXCEPT ![c] = [Current(store[c]) EXCEPT !.lock = 0]]
        BY <3>1 DEF MutateRefused
      <4> QED
        BY <4>1, <4>2, <2>1
    <3>2. CASE GcNothing(c)
      BY <3>2, <2>1 DEF GcNothing
    <3> QED
      BY <1>11, <3>1, <3>2
  <2>3. btree' = [btree EXCEPT ![c] = btree[c]]
    BY <1>11 DEF MutateRefused, GcNothing, TypeOK
  <2>4. job' = [job EXCEPT ![c] = IdleJob] /\ UNCHANGED <<path, files, file, truth, dirty>>
    BY <1>11 DEF MutateRefused, GcNothing
  <2> QED
    BY <1>0, <2>2, <2>3, <2>4, InitialType, QuietStep DEF TypeOK
<1>12. ASSUME NEW c \in Conns, Commit(c)
       PROVE  TypeOK' /\ FileInv'
  <2> DEFINE s == [store[c] EXCEPT !.refs.work = btree[c].cat]
  <2>1. s \in Store /\ s.fd = store[c].fd
    BY <1>0 DEF Store, Btree, Refs
  <2>2. Append(c, s, "txn", {}, {}) /\ UNCHANGED <<path, files, btree, truth, dirty>>
    BY <1>12 DEF Commit
  <2>3. s.fd <= files /\ btree[c].mode # "closed"
    BY <1>12, <2>1 DEF FileInv, Commit
  <2> HIDE DEF s
  <2>4. {} \in SUBSET Tags /\ btree' \in [Conns -> Btree]
        /\ dirty' \in [Conns -> SUBSET Rows] /\ \A d \in Conns : btree'[d].mode = btree[d].mode
    BY <2>2 DEF TypeOK
  <2> QED
    BY <2>1, <2>2, <2>3, <2>4, AppendStep
<1>13. ASSUME NEW c \in Conns, MutateRefs(c)
       PROVE  TypeOK' /\ FileInv'
  <2>1. Current(store[c]) \in Store /\ Current(store[c]).fd <= files
    <3>1. Current(store[c]).fd \in {0, store[c].fd, path} /\ Current(store[c]) \in Store
      BY <1>0, RefreshType, RefreshFd
    <3>2. store[c].fd <= files /\ path = files /\ files \in Nat /\ 0 <= files
      BY DEF FileInv, TypeOK, Inodes
    <3> QED
      BY <3>1, <3>2
  <2> DEFINE adds(t) == {t} \ Current(store[c]).refs.tags
             drops(t) == {t} \cap Current(store[c]).refs.tags
             s(t) == [Current(store[c]) EXCEPT !.refs.tags = (@ \cup adds(t)) \ drops(t)]
  <2>2. PICK t \in Tags : Append(c, s(t), "refs", adds(t), drops(t))
    BY <1>13 DEF MutateRefs
  <2>3. s(t) \in Store /\ s(t).fd = Current(store[c]).fd
    BY <2>1 DEF Store, Refs
  <2>4. btree[c].mode # "closed" /\ UNCHANGED <<path, files, btree, truth, dirty>>
    BY <1>13 DEF MutateRefs, HasOrGetsLock, FileInv, Idle
  <2>5. adds(t) \in SUBSET Tags /\ drops(t) \in SUBSET Tags
    OBVIOUS
  <2> HIDE DEF s, adds, drops
  <2>6. /\ btree' \in [Conns -> Btree] /\ dirty' \in [Conns -> SUBSET Rows]
        /\ \A d \in Conns : btree'[d].mode = btree[d].mode
    BY <2>4 DEF TypeOK
  <2> QED
    BY <2>1, <2>2, <2>3, <2>4, <2>5, <2>6, AppendStep
<1>14. ASSUME NEW c \in Conns, RollbackRewrites(c)
       PROVE  TypeOK' /\ FileInv'
  <2> DEFINE s == [store[c] EXCEPT !.refs = [store[c].committed EXCEPT !.work = btree[c].base]]
  <2>1. s \in Store /\ s.fd = store[c].fd
    BY <1>0 DEF Store, Btree, Refs
  <2>2. Append(c, s, "rollback", {}, {}) /\ UNCHANGED <<path, files, truth>>
    BY <1>14 DEF RollbackRewrites
  <2>3. s.fd <= files /\ btree[c].mode # "closed"
    BY <1>14, <2>1 DEF FileInv, RollbackRewrites
  <2>4. /\ btree' \in [Conns -> Btree] /\ dirty' \in [Conns -> SUBSET Rows]
        /\ \A d \in Conns : btree'[d].mode = btree[d].mode
    BY <1>14, <1>0 DEF RollbackRewrites, TypeOK, Btree
  <2> HIDE DEF s
  <2>5. {} \in SUBSET Tags
    OBVIOUS
  <2> QED
    BY <2>1, <2>2, <2>3, <2>4, <2>5, AppendStep
<1>15. ASSUME NEW c \in Conns, WriteRoot(c)
       PROVE  TypeOK' /\ FileInv'
  <2> DEFINE f == [size |-> file[store[c].fd].size + 1, refs |-> store[c].refs,
                  blobs |-> file[store[c].fd].blobs \cup {store[c].refs}]
             j == [job[c] EXCEPT !.step = "root"]
  <2>1. store[c].fd \in Inodes /\ f \in File /\ f.size > 0 /\ j \in Job
    <3>1. store[c].fd \in Inodes
      BY <1>15, <1>0 DEF FileInv, WriteRoot, Committing, Store
    <3>2. /\ file[store[c].fd].size \in Nat /\ store[c].refs \in Refs
          /\ file[store[c].fd].blobs \in SUBSET Refs
      BY <3>1, <1>0 DEF TypeOK, File, Store
    <3>3. f \in File /\ f.size > 0
      BY <3>2 DEF File
    <3>4. j \in Job
      BY <1>0 DEF Job
    <3> QED
      BY <3>1, <3>3, <3>4
  <2>2. /\ file' = [file EXCEPT ![store[c].fd] = f]
        /\ job' = [job EXCEPT ![c] = j]
        /\ UNCHANGED <<path, files, store, btree, truth, dirty>>
    BY <1>15, <2>1 DEF WriteRoot, TypeOK
  <2>3. j.step # "idle" /\ j.undo = job[c].undo /\ job[c].step # "idle"
    BY <1>15, <1>0 DEF WriteRoot, Job
  <2> HIDE DEF f, j
  <2>4. TypeOK'
    BY <2>1, <2>2 DEF TypeOK
  <2>5. path' > 1 => file'[path].size > 0
    BY <2>1, <2>2, PathType DEF FileInv, TypeOK
  <2> QED
    BY <1>15, <2>2, <2>3, <2>4, <2>5 DEF FileInv, TypeOK, Committing, WriteRoot
<1>16. ASSUME NEW c \in Conns, Sync(c)
       PROVE  TypeOK' /\ FileInv'
  <2> DEFINE ended == job[c].kind # "refs"
             s == [store[c] EXCEPT !.seen = file[store[c].fd].size, !.committed = store[c].refs,
                                   !.blobs = store[c].blobs \cup {store[c].refs},
                                   !.lock = 0, !.pinned = store[c].pinned /\ ~ended]
             b == IF ended THEN [btree[c] EXCEPT !.mode = "none", !.auto = TRUE,
                                                 !.base = store[c].refs.work]
                           ELSE btree[c]
  <2>1. store[c].fd \in Inodes
    BY <1>16, <1>0 DEF FileInv, Sync, Committing, Store
  <2>2. s \in Store /\ s.fd = store[c].fd
    BY <1>0, <2>1 DEF TypeOK, Store, File
  <2>3. b \in Btree
    <3>1. store[c].refs.work \in SUBSET Rows /\ btree[c] \in Btree
      BY <1>0 DEF Store, Refs
    <3> QED
      BY <3>1 DEF Btree
  <2>4. Acknowledged(c) \in Refs
    BY <1>0 DEF Acknowledged, TypeOK, Refs, Job, Btree
  <2>5. /\ store' = [store EXCEPT ![c] = s] /\ btree' = [btree EXCEPT ![c] = b]
        /\ job' = [job EXCEPT ![c] = IdleJob] /\ truth' = Acknowledged(c)
        /\ dirty' = [dirty EXCEPT ![c] = IF ended THEN {} ELSE @]
        /\ UNCHANGED <<path, files, file>>
    BY <1>16, <1>0 DEF Sync, disk, TypeOK
  <2>6. dirty' \in [Conns -> SUBSET Rows]
    BY <2>5 DEF TypeOK
  <2> HIDE DEF s, b
  <2>7. TypeOK'
    BY <2>2, <2>3, <2>4, <2>5, <2>6, InitialType DEF TypeOK
  <2> QED
    BY <2>2, <2>5, <2>7, InitialType DEF FileInv, Committing, TypeOK
<1>17. ASSUME NEW c \in Conns, CommitFails(c)
       PROVE  TypeOK' /\ FileInv'
  <2> DEFINE ended == job[c].kind # "refs"
             s == [RestoredRefs(store[c]) EXCEPT !.lock = 0,
                                                 !.pinned = store[c].pinned /\ ~ended]
             b == IF job[c].kind = "txn"
                  THEN [btree[c] EXCEPT !.mode = "none", !.auto = TRUE, !.cat = btree[c].base]
                  ELSE btree[c]
  <2>1. store[c].fd \in Inodes /\ job[c].step # "idle" /\ job[c].undo \in File
    BY <1>17, <1>0 DEF FileInv, CommitFails, Committing, Store, Job
  <2>2. s \in Store /\ s.fd = store[c].fd
    BY <1>0 DEF RestoredRefs, Store
  <2>3. b \in Btree
    BY <1>0 DEF Btree
  <2>4. /\ store' = [store EXCEPT ![c] = s] /\ btree' = [btree EXCEPT ![c] = b]
        /\ job' = [job EXCEPT ![c] = IdleJob]
        /\ file' = [file EXCEPT ![store[c].fd] = job[c].undo]
        /\ dirty' = [dirty EXCEPT ![c] = IF ended THEN {} ELSE @]
        /\ UNCHANGED <<path, files, truth>>
    BY <1>17 DEF CommitFails, Truncated
  <2>5. dirty' \in [Conns -> SUBSET Rows]
    BY <2>4 DEF TypeOK
  <2> HIDE DEF s, b
  <2>6. TypeOK'
    BY <2>1, <2>2, <2>3, <2>4, <2>5, InitialType DEF TypeOK
  <2>7. path' > 1 => file'[path].size > 0
    <3>1. Committing(c)
      BY <1>17 DEF CommitFails
    <3> QED
      BY <2>1, <2>4, <3>1, PathType DEF FileInv, TypeOK
  <2> QED
    <3>1. /\ store'[c].fd = store[c].fd /\ job'[c].step = "idle"
          /\ \A d \in Conns \ {c} : /\ store'[d] = store[d] /\ job'[d] = job[d]
                                    /\ btree'[d] = btree[d]
      BY <2>2, <2>4, InitialType DEF TypeOK
    <3>2. \A d \in Conns : store'[d].fd <= files'
      BY <2>4, <3>1 DEF FileInv
    <3> QED
      <4>1. ASSUME NEW d \in Conns, job'[d].step # "idle"
            PROVE  btree'[d].mode # "closed"
        BY <3>1, <4>1 DEF FileInv
      <4>2. ASSUME NEW d \in Conns, Committing(d)'
            PROVE  /\ store'[d].fd # 0
                   /\ store'[d].fd = path' /\ path' > 1 => job'[d].undo.size > 0
        <5>1. d # c /\ Committing(d)
          BY <3>1, <4>2 DEF Committing
        <5>2. path' = path /\ store'[d] = store[d] /\ job'[d] = job[d]
          BY <2>4, <3>1, <5>1
        <5> QED
          BY <5>1, <5>2 DEF FileInv
      <4> QED
        BY <2>4, <2>6, <2>7, <3>2, <4>1, <4>2 DEF FileInv
<1>18. ASSUME NEW c \in Conns, Crash(c)
       PROVE  TypeOK' /\ FileInv'
  <2>1. Acknowledged(c) \in Refs
    BY <1>0 DEF Acknowledged, TypeOK, Refs, Job, Btree
  <2>2. TypeOK'
    BY <1>18, <2>1, InitialType DEF Crash, TypeOK, disk
  <2> QED
    BY <1>18, <2>2, InitialType DEF Crash, FileInv, Committing, TypeOK, disk, Inodes
<1>19. ASSUME NEW c \in Conns, Gc(c)
       PROVE  TypeOK' /\ FileInv'
  <2> DEFINE r == Refresh(store[c])
             s == [r EXCEPT !.fd = files + 1, !.zPath = "own", !.blobs = {r.refs}]
  <2>1. files + 1 \in Inodes
    BY <1>19, BoundsAssumption DEF Gc, TypeOK, Inodes
  <2>2. r \in Store /\ r.refs \in Refs
    BY <1>0, RefreshType DEF Store
  <2>3. s \in Store /\ s.fd = files + 1
    BY <2>1, <2>2 DEF Store
  <2>4. PICK n \in 1..MaxSize :
          file' = [file EXCEPT ![files + 1] = [size |-> n, refs |-> r.refs, blobs |-> {r.refs}]]
    BY <1>19 DEF Gc
  <2>5. [size |-> n, refs |-> r.refs, blobs |-> {r.refs}] \in File /\ n > 0
    BY <2>2, <2>4, BoundsAssumption DEF File
  <2>6. /\ store' = [store EXCEPT ![c] = s] /\ path' = files + 1 /\ files' = files + 1
        /\ job' = [job EXCEPT ![c] = IdleJob] /\ UNCHANGED <<btree, truth, dirty>>
    BY <1>19 DEF Gc
  <2> HIDE DEF s, r
  <2>7. TypeOK'
    BY <2>1, <2>3, <2>4, <2>5, <2>6, InitialType DEF TypeOK
  <2>8. file'[path'].size > 0
    BY <2>1, <2>4, <2>5, <2>6 DEF TypeOK
  <2>9. \A d \in Conns : store'[d].fd <= files'
    <3>1. \A d \in Conns : store[d].fd <= files /\ store[d].fd \in Nat
      BY <1>0 DEF FileInv, Store, Inodes
    <3>2. files \in Nat /\ store'[c].fd = files + 1
      BY <2>3, <2>6 DEF TypeOK, Inodes
    <3>3. \A d \in Conns \ {c} : store'[d] = store[d]
      BY <2>6 DEF TypeOK
    <3> QED
      BY <3>1, <3>2, <3>3, <2>6
  <2>10. ASSUME NEW d \in Conns, job'[d].step # "idle"
         PROVE  /\ btree'[d].mode # "closed"
                /\ Committing(d)' => store'[d].fd # 0 /\ store'[d].fd # path'
    <3>1. d # c /\ store'[d] = store[d] /\ job'[d] = job[d] /\ btree'[d] = btree[d]
      BY <2>6, <2>10, InitialType DEF TypeOK
    <3>2. store[d].fd <= files /\ files \in Nat /\ store[d].fd \in Nat
      BY <1>0 DEF FileInv, Store, Inodes, TypeOK
    <3> QED
      BY <3>1, <3>2, <2>6, <2>10 DEF FileInv, Committing
  <2> QED
    BY <2>6, <2>7, <2>8, <2>9, <2>10 DEF FileInv, Committing
<1>20. ASSUME NEW c \in Conns, AskForLock(c) \/ LockBusy(c) \/ BeginBusy(c)
       PROVE  TypeOK' /\ FileInv'
  <2>1. PICK j \in Job : /\ job' = [job EXCEPT ![c] = j]
                         /\ j.step = "idle" \/ (j.step = "lock" /\ btree[c].mode # "closed")
    BY <1>20, InitialType DEF AskForLock, LockBusy, BeginBusy, Idle
  <2>2. /\ store' = [store EXCEPT ![c] = store[c]] /\ btree' = [btree EXCEPT ![c] = btree[c]]
        /\ UNCHANGED <<path, files, file, truth, dirty>>
    BY <1>20 DEF AskForLock, LockBusy, BeginBusy, TypeOK
  <2> QED
    BY <1>0, <2>1, <2>2, QuietStep DEF TypeOK
<1>21. ASSUME NEW c \in Conns, Stage(c)
       PROVE  TypeOK' /\ FileInv'
  <2>1. PICK t \in Tags :
          Append(c, [store[c] EXCEPT !.refs = [work |-> btree[c].cat, tags |-> @.tags \cup {t}]],
                 "refs", {t}, {})
    BY <1>21 DEF Stage
  <2> DEFINE s == [store[c] EXCEPT !.refs = [work |-> btree[c].cat, tags |-> @.tags \cup {t}]]
  <2>2. s \in Store /\ s.fd = store[c].fd
    BY <1>0 DEF Store, Btree, Refs
  <2>3. s.fd <= files /\ btree[c].mode # "closed"
    BY <1>21, <2>2 DEF FileInv, Stage
  <2>4. UNCHANGED <<path, files, btree, truth, dirty>>
    BY <1>21 DEF Stage
  <2>5. Append(c, s, "refs", {t}, {})
    BY <2>1
  <2> HIDE DEF s
  <2>6. {t} \in SUBSET Tags /\ {} \in SUBSET Tags /\ btree' \in [Conns -> Btree]
        /\ dirty' \in [Conns -> SUBSET Rows] /\ \A d \in Conns : btree'[d].mode = btree[d].mode
    BY <2>4 DEF TypeOK
  <2> QED
    BY <2>2, <2>3, <2>4, <2>5, <2>6, AppendStep
<1>22. ASSUME NEW c \in Conns, Reuse(c)
       PROVE  TypeOK' /\ FileInv'
  <2> DEFINE s == [store[c] EXCEPT !.zPath = "reused"]
  <2>1. s \in Store /\ s.fd = store[c].fd
    BY <1>0 DEF Store
  <2>2. /\ store' = [store EXCEPT ![c] = s]
        /\ UNCHANGED <<path, files, file, btree, job, truth, dirty>>
    BY <1>22 DEF Reuse
  <2> HIDE DEF s
  <2>3. TypeOK'
    BY <2>1, <2>2 DEF TypeOK
  <2> QED
    BY <2>1, <2>2 DEF FileInv, Committing, TypeOK
<1> QED
  BY <1>1, <1>2, <1>3, <1>4, <1>5, <1>6, <1>7, <1>8, <1>9, <1>10, <1>11, <1>12, <1>13,
     <1>14, <1>15, <1>16, <1>17, <1>18, <1>19, <1>20, <1>21, <1>22
     DEF AllNext, SteadyNext, Transaction, Session, EditRefs

\* The variables have their types in every behaviour of every operation, and a
\* commit has the file it began to append to until its end, however dolt_gc,
\* crashes and failed commits interleave (csCommitToFile, csRollbackFailedAppend)
THEOREM TypeCorrect == AllSpec => []TypeOK
<1>1. TypeOK /\ FileInv /\ [AllNext]_vars => TypeOK' /\ FileInv'
  <2> SUFFICES ASSUME TypeOK, FileInv, [AllNext]_vars PROVE TypeOK' /\ FileInv'
    OBVIOUS
  <2>1. CASE AllNext
    BY <2>1, TypeStep
  <2>2. CASE UNCHANGED vars
    BY <2>2 DEF vars, TypeOK, FileInv, Committing
  <2> QED
    BY <2>1, <2>2
<1> QED
  BY <1>1, TypeInit, PTL DEF AllSpec

-----------------------------------------------------------------------------
(* Who may append: mutual exclusion by flock, proved of every operation of *)
(* ChunkStore but dolt_gc, with ref mutations, failed commits and crashes   *)
(* interleaved.                                                            *)

\* The lock a connection holds, or asks for, is on the inode the path names; it
\* is held in a write transaction or a commit only, always in a commit, and by
\* one connection at a time
LockInv ==
  /\ \A c \in Conns : store[c].lock \in {0, path}
  /\ \A c \in Conns : job[c].step \in {"begin", "lock"} => job[c].inode = path
  /\ \A c \in Conns : job[c].step = "begin" => btree[c].mode \in {"none", "read"}
  /\ \A c \in Conns : Committing(c) => store[c].lock = path
  /\ \A c \in Conns : store[c].lock = path => btree[c].mode = "write" \/ Committing(c)
  /\ \A c, d \in Conns : store[c].lock = path /\ store[d].lock = path => c = d

\* No other connection holds the lock
Exclusive(c) == \A d \in Conns \ {c} : store[d].lock # path

\* A step of c that leaves the locks of the others, and the path, alone
LEMMA LockStep ==
  ASSUME TypeOK, LockInv, NEW c \in Conns, path' = path,
         \A d \in Conns \ {c} : /\ store'[d].lock = store[d].lock
                                /\ job'[d] = job[d]
                                /\ btree'[d].mode = btree[d].mode,
         store'[c].lock \in {0, path},
         store'[c].lock = path => Exclusive(c),
         job'[c].step \in {"begin", "lock"} => job'[c].inode = path,
         job'[c].step = "begin" => btree'[c].mode \in {"none", "read"},
         Committing(c)' => store'[c].lock = path,
         store'[c].lock = path => btree'[c].mode = "write" \/ Committing(c)'
  PROVE  LockInv'
<1>1. \A d, e \in Conns : store'[d].lock = path /\ store'[e].lock = path => d = e
  BY DEF LockInv, Exclusive
<1>2. \A d \in Conns \ {c} : Committing(d)' <=> Committing(d)
  BY DEF Committing
<1> QED
  BY <1>1, <1>2 DEF LockInv

\* Who has the lock, or gets it, excludes the others
LEMMA LockExcludes ==
  ASSUME TypeOK, LockInv, NEW c \in Conns
  PROVE  /\ store[c].lock = path => Exclusive(c)
         /\ job[c].step \in {"begin", "lock"} /\ LockFree(c) => Exclusive(c)
         /\ HasOrGetsLock(c) => Exclusive(c)
         /\ HasOrGetsLock(c) => store[c].lock = path \/ job[c].inode = path
  BY DEF LockInv, Exclusive, LockFree, HasOrGetsLock

\* Refreshing and reloading keep the lock
LEMMA KeepsLock ==
  ASSUME TypeOK, NEW s \in Store
  PROVE  /\ Refresh(s).lock = s.lock
         /\ Checked(s).lock = s.lock
         /\ Unpinned(s).lock = s.lock
         /\ Current(s).lock = s.lock
         /\ \A n \in Nat : Landed(s, n).lock = s.lock
<1>1. /\ \A t \in Store : Reload(t).lock = t.lock
      /\ \A t \in Store, n \in Nat : ReloadKeepingRefs(t, n).lock = t.lock
      /\ \A t \in Store : Checked(t).lock = t.lock /\ Unpinned(t).lock = t.lock
  BY ReloadFields DEF Checked, Unpinned, Store
<1>2. \A t \in Store : Refresh(t).lock = t.lock
  BY <1>1 DEF Refresh
<1>3. Current(s).lock = s.lock
  <2>1. Unpinned(s) \in Store
    BY ReloadType
  <2>2. Refresh(Unpinned(s)) \in Store
    BY <2>1, RefreshType
  <2> QED
    BY <1>1, <1>2, <2>1, <2>2 DEF Current, Store
<1>4. ASSUME NEW n \in Nat PROVE Landed(s, n).lock = s.lock
  <2> DEFINE m == IF s.moved THEN s
                  ELSE [(IF HasMoved(s) THEN ReloadKeepingRefs(s, n) ELSE s) EXCEPT !.moved = TRUE]
  <2>1. ReloadKeepingRefs(s, n) \in Store
    BY ReloadType
  <2>2. m \in Store /\ m.lock = s.lock
    BY <1>1, <2>1 DEF Store
  <2>3. [s EXCEPT !.fd = path, !.zPath = "own"] \in Store /\ [s EXCEPT !.fd = path, !.zPath = "own"].lock = s.lock
    BY PathType DEF Store
  <2> HIDE DEF m
  <2>4. ReloadKeepingRefs(m, n).lock = s.lock
    BY <1>1, <2>2
  <2> QED
    BY <2>2, <2>3, <2>4 DEF Landed, m
<1> QED
  BY <1>1, <1>2, <1>3, <1>4

\* An append holds the lock
LEMMA AppendLock ==
  ASSUME TypeOK, LockInv, NEW c \in Conns, NEW s \in Store, s.lock = store[c].lock,
         NEW kind, NEW adds, NEW drops, Append(c, s, kind, adds, drops), HasOrGetsLock(c), path' = path,
         \A d \in Conns : btree'[d].mode = btree[d].mode
  PROVE  LockInv'
<1>0. PICK n \in Staged(s) :
        LET t == [Landed(s, n) EXCEPT !.lock = IF s.lock = 0 THEN job[c].inode ELSE s.lock] IN
        /\ store' = [store EXCEPT ![c] = t]
        /\ job' = [job EXCEPT ![c] = [step |-> "append", kind |-> kind,
                                      inode |-> 0, undo |-> file[t.fd],
                                      adds |-> adds, drops |-> drops]]
  BY DEF Append
<1> DEFINE t == [Landed(s, n) EXCEPT !.lock = IF s.lock = 0 THEN job[c].inode ELSE s.lock]
<1>1. t \in Store /\ t.lock = path
  <2>0. n \in Nat
    BY <1>0, BoundsAssumption DEF Staged
  <2>1. job[c].inode \in Inodes \cup {0} /\ Landed(s, n) \in Store
    BY <2>0, LandedType DEF TypeOK, Job
  <2>2. s.lock = path \/ (s.lock = 0 /\ job[c].inode = path)
    BY LockExcludes DEF LockInv, HasOrGetsLock
  <2>3. path # 0
    BY DEF TypeOK, Inodes
  <2> QED
    BY <2>1, <2>2, <2>3 DEF Store
<1>2. store' = [store EXCEPT ![c] = t] /\ job'[c].step = "append"
      /\ \A d \in Conns \ {c} : job'[d] = job[d]
  BY <1>0 DEF TypeOK
<1> HIDE DEF t
<1>3. store'[c].lock = path /\ \A d \in Conns \ {c} : store'[d] = store[d]
  BY <1>1, <1>2 DEF TypeOK
<1> QED
  BY <1>2, <1>3, LockExcludes, LockStep DEF Committing

\* LockInv holds initially
LEMMA LockInit == Init => LockInv
  BY BoundsAssumption, InitialType DEF Init, LockInv, Committing, ClosedStore, IdleJob, Store, Inodes

\* One step of any operation
LEMMA LockNext ==
  ASSUME TypeOK, FileInv, LockInv, SteadyNext
  PROVE  LockInv'
<1>0. \A c \in Conns : /\ store[c] \in Store /\ btree[c] \in Btree /\ job[c] \in Job
                       /\ store[c].lock \in {0, path}
                       /\ Idle(c) => job[c].step = "idle"
  BY DEF TypeOK, Idle, LockInv
<1>1. /\ path \in Inodes /\ path # 0 /\ IdleJob.step = "idle"
      /\ \A step \in {"begin", "lock"} : Asking(step).step = step /\ Asking(step).inode = path
  BY InitialType DEF TypeOK, Inodes
<1>2. ASSUME NEW c \in Conns, Open(c) \/ Close(c) \/ Crash(c)
      PROVE  LockInv'
  <2>1. ClosedStore.lock = 0 /\ Opened.lock = 0
    BY InitialType, OpenedType DEF ClosedStore
  <2>2. store'[c].lock = 0 /\ path' = path
    BY <1>2, <2>1 DEF Open, Close, Crash, TypeOK, disk
  <2>3. job'[c].step = "idle"
    BY <1>0, <1>1, <1>2 DEF Open, Close, Crash, TypeOK, FileInv
  <2>4. \A d \in Conns \ {c} : store'[d] = store[d] /\ job'[d] = job[d] /\ btree'[d] = btree[d]
    BY <1>2 DEF Open, Close, Crash, TypeOK
  <2> QED
    BY <1>1, <2>2, <2>3, <2>4, LockStep DEF Committing
<1>3. ASSUME NEW c \in Conns,
             Begin(c) \/ Insert(c) \/ Delete(c) \/ EndRead(c) \/ Read(c) \/ Rollback(c)
      PROVE  LockInv'
  <2>1. job[c].step = "idle" /\ job' = job /\ path' = path
    BY <1>0, <1>3 DEF Begin, Insert, Delete, EndRead, Read, Rollback
  <2>2. store'[c].lock = store[c].lock \/ store'[c].lock = 0
    <3>1. CASE EndRead(c)
      <4>1. [Unpinned(store[c]) EXCEPT !.lock = 0].lock = 0
        BY <1>0 DEF Unpinned, Store
      <4> QED
        BY <3>1, <4>1 DEF EndRead, TypeOK
    <3>2. CASE Rollback(c)
      <4>1. [Unpinned(store[c]) EXCEPT !.refs = store[c].committed, !.lock = 0].lock = 0
        BY <1>0 DEF Unpinned, Store
      <4> QED
        BY <3>2, <4>1 DEF Rollback, TypeOK
    <3>3. CASE Read(c)
      <4>1. /\ Refresh(Unpinned(store[c])) \in Store
            /\ Refresh(Unpinned(store[c])).lock = store[c].lock
        BY <1>0, ReloadType, RefreshType, KeepsLock
      <4>2. [Refresh(Unpinned(store[c])) EXCEPT !.pinned = TRUE].lock = store[c].lock
        BY <4>1 DEF Store
      <4> QED
        BY <3>3, <4>2 DEF Read, TypeOK
    <3>4. CASE Begin(c) \/ Insert(c) \/ Delete(c)
      BY <3>4 DEF Begin, Insert, Delete
    <3> QED
      BY <1>3, <3>1, <3>2, <3>3, <3>4
  <2>3. store'[c].lock = path => btree'[c].mode = "write"
    <3>1. CASE Insert(c) \/ Delete(c)
      BY <1>0, <3>1 DEF Insert, Delete, TypeOK, Btree
    <3>2. CASE Rollback(c)
      <4>1. [Unpinned(store[c]) EXCEPT !.refs = store[c].committed, !.lock = 0].lock = 0
        BY <1>0 DEF Unpinned, Store
      <4> QED
        BY <1>1, <3>2, <4>1 DEF Rollback, TypeOK
    <3>3. CASE ~(Insert(c) \/ Delete(c) \/ Rollback(c))
      <4>1. btree[c].mode # "write"
        BY <1>3, <3>3 DEF Begin, EndRead, Read
      <4> QED
        BY <1>0, <1>1, <2>1, <2>2, <4>1 DEF LockInv, Committing
    <3> QED
      BY <3>1, <3>2, <3>3
  <2>4. \A d \in Conns \ {c} : store'[d] = store[d] /\ job'[d] = job[d] /\ btree'[d] = btree[d]
    BY <1>3 DEF Begin, Insert, Delete, EndRead, Read, Rollback, TypeOK
  <2> QED
    BY <1>0, <1>1, <2>1, <2>2, <2>3, <2>4, LockStep, LockExcludes DEF Committing
<1>4. ASSUME NEW c \in Conns, AskToWrite(c) \/ AskForLock(c)
      PROVE  LockInv'
  <2>1. Refresh(store[c]).lock = store[c].lock
    BY <1>0, KeepsLock
  <2>2. store'[c].lock = store[c].lock /\ path' = path /\ job[c].step = "idle"
    BY <1>0, <1>4, <2>1 DEF AskToWrite, AskForLock, TypeOK
  <2>3. store'[c].lock = 0
    BY <1>0, <1>1, <1>4, <2>2 DEF AskToWrite, AskForLock, LockInv, Committing
  <2>4. /\ job'[c].step \in {"begin", "lock"} /\ job'[c].inode = path
        /\ job'[c].step = "begin" => AskToWrite(c)
    BY <1>1, <1>4 DEF AskToWrite, AskForLock, TypeOK
  <2>5. AskToWrite(c) => btree'[c].mode \in {"none", "read"}
    <3>1. Reloaded(btree[c], store[c]).mode = btree[c].mode
      BY <1>0, PathType DEF Reloaded, LoadCatalog, Btree
    <3> QED
      BY <3>1 DEF AskToWrite, TypeOK
  <2>6. \A d \in Conns \ {c} : store'[d] = store[d] /\ job'[d] = job[d] /\ btree'[d] = btree[d]
    BY <1>4 DEF AskToWrite, AskForLock, TypeOK
  <2> QED
    BY <1>1, <2>2, <2>3, <2>4, <2>5, <2>6, LockStep DEF Committing
<1>5. ASSUME NEW c \in Conns, BeginWrite(c)
      PROVE  LockInv'
  <2>1. Refresh(store[c]) \in Store
    BY <1>0, RefreshType
  <2>2. Compared(c, Refresh(store[c])) \in Store /\ job[c].inode = path
    BY <1>5, <2>1, ReloadType DEF LockInv, BeginWrite, Compared
  <2>3. [Compared(c, Refresh(store[c])) EXCEPT !.lock = job[c].inode, !.pinned = TRUE].lock = path
    BY <2>2 DEF Store
  <2>4. store'[c].lock = path /\ path' = path
    BY <1>5, <2>3 DEF BeginWrite, TypeOK
  <2>5. btree'[c].mode = "write"
    <3>1. LoadCatalog(Reloaded(btree[c], store[c]), Refresh(store[c]).refs.work) \in Btree
      BY <1>0, <2>1, CatalogType, ReloadedType DEF Store, Refs
    <3> QED
      BY <1>5, <3>1 DEF BeginWrite, TypeOK, Btree
  <2>6. Exclusive(c) /\ job'[c].step = "idle"
    BY <1>1, <1>5, LockExcludes DEF BeginWrite, TypeOK
  <2>7. \A d \in Conns \ {c} : store'[d] = store[d] /\ job'[d] = job[d] /\ btree'[d] = btree[d]
    BY <1>5 DEF BeginWrite, TypeOK
  <2> QED
    BY <1>1, <2>4, <2>5, <2>6, <2>7, LockStep DEF Committing
<1>6. ASSUME NEW c \in Conns,
             CommitBusy(c) \/ BeginBusy(c) \/ BeginStale(c) \/ LockBusy(c) \/ MutateRefused(c)
      PROVE  LockInv'
  <2>1. /\ [Unpinned(store[c]) EXCEPT !.refs = store[c].committed].lock = store[c].lock
        /\ Checked(store[c]).lock = store[c].lock
        /\ [Current(store[c]) EXCEPT !.lock = 0].lock = 0
    BY <1>0, KeepsLock, RefreshType DEF Unpinned, Store
  <2>2. store'[c].lock = store[c].lock \/ store'[c].lock = 0
    BY <1>6, <2>1 DEF CommitBusy, BeginBusy, BeginStale, LockBusy, MutateRefused, TypeOK
  <2>3. job'[c].step = "idle" /\ path' = path
    BY <1>1, <1>6 DEF CommitBusy, BeginBusy, BeginStale, LockBusy, MutateRefused, TypeOK
  <2>4. store'[c].lock = 0 \/ (LockBusy(c) /\ btree[c].mode = "write")
    <3>1. CASE MutateRefused(c)
      BY <2>1, <3>1 DEF MutateRefused, TypeOK
    <3>2. CASE CommitBusy(c)
      BY <1>0, <1>1, <2>2, <3>2, LockExcludes DEF CommitBusy, LockInv, Exclusive, LockFree
    <3>3. CASE BeginBusy(c) \/ BeginStale(c) \/ LockBusy(c)
      BY <1>0, <1>1, <2>2, <3>3 DEF BeginBusy, BeginStale, LockBusy, LockInv, Committing
    <3> QED
      BY <1>6, <3>1, <3>2, <3>3
  <2>5. LockBusy(c) => btree' = btree
    BY DEF LockBusy
  <2>6. \A d \in Conns \ {c} : store'[d] = store[d] /\ job'[d] = job[d] /\ btree'[d] = btree[d]
    BY <1>6 DEF CommitBusy, BeginBusy, BeginStale, LockBusy, MutateRefused, TypeOK
  <2> QED
    BY <1>0, <1>1, <2>2, <2>3, <2>4, <2>5, <2>6, LockStep, LockExcludes DEF Committing
<1>7. ASSUME NEW c \in Conns, Commit(c)
      PROVE  LockInv'
  <2> DEFINE s == [store[c] EXCEPT !.refs.work = btree[c].cat]
  <2>1. s \in Store /\ s.lock = store[c].lock
    BY <1>0 DEF Store, Btree, Refs
  <2>2. Append(c, s, "txn", {}, {}) /\ HasOrGetsLock(c) /\ path' = path /\ btree' = btree
    BY <1>7 DEF Commit
  <2> HIDE DEF s
  <2> QED
    BY <2>1, <2>2, AppendLock
<1>8. ASSUME NEW c \in Conns, MutateRefs(c)
      PROVE  LockInv'
  <2> DEFINE adds(t) == {t} \ Current(store[c]).refs.tags
             drops(t) == {t} \cap Current(store[c]).refs.tags
             s(t) == [Current(store[c]) EXCEPT !.refs.tags = (@ \cup adds(t)) \ drops(t)]
  <2>1. PICK t \in Tags : Append(c, s(t), "refs", adds(t), drops(t))
    BY <1>8 DEF MutateRefs
  <2>2. Current(store[c]) \in Store /\ Current(store[c]).lock = store[c].lock
    BY <1>0, RefreshType, KeepsLock
  <2>3. s(t) \in Store /\ s(t).lock = store[c].lock
    BY <2>2 DEF Store, Refs
  <2>4. HasOrGetsLock(c) /\ path' = path /\ btree' = btree
    BY <1>8 DEF MutateRefs
  <2> HIDE DEF s, adds, drops
  <2> QED
    BY <2>1, <2>3, <2>4, AppendLock
<1>9. ASSUME NEW c \in Conns, RollbackRewrites(c)
      PROVE  LockInv'
  <2> DEFINE s == [store[c] EXCEPT !.refs = [store[c].committed EXCEPT !.work = btree[c].base]]
  <2>1. s \in Store /\ s.lock = store[c].lock
    BY <1>0 DEF Store, Btree, Refs
  <2>2. /\ Append(c, s, "rollback", {}, {}) /\ HasOrGetsLock(c) /\ path' = path
        /\ btree' = [btree EXCEPT ![c].cat = btree[c].base]
    BY <1>9 DEF RollbackRewrites
  <2>3. \A d \in Conns : btree'[d].mode = btree[d].mode
    BY <2>2 DEF TypeOK, Btree
  <2> HIDE DEF s
  <2> QED
    BY <2>1, <2>2, <2>3, AppendLock
<1>10. ASSUME NEW c \in Conns, WriteRoot(c)
       PROVE  LockInv'
  <2>1. store' = store /\ btree' = btree /\ path' = path /\ Committing(c)
    BY <1>10 DEF WriteRoot, Committing
  <2>2. job'[c].step = "root" /\ \A d \in Conns \ {c} : job'[d] = job[d]
    BY <1>10 DEF WriteRoot, TypeOK, Job
  <2>3. store[c].lock = path
    BY <2>1 DEF LockInv
  <2> QED
    BY <1>0, <2>1, <2>2, <2>3, LockStep, LockExcludes DEF Committing
<1>11. ASSUME NEW c \in Conns, Sync(c) \/ CommitFails(c)
       PROVE  LockInv'
  <2>1. store'[c].lock = 0
    <3>1. CASE Sync(c)
      BY <1>0, <3>1 DEF Sync, TypeOK, Store
    <3>2. CASE CommitFails(c)
      BY <1>0, <3>2 DEF CommitFails, RestoredRefs, TypeOK, Store
    <3> QED
      BY <1>11, <3>1, <3>2
  <2>2. path' = path /\ job'[c].step = "idle"
    BY <1>11, InitialType DEF Sync, CommitFails, TypeOK, disk
  <2>3. \A d \in Conns \ {c} : store'[d] = store[d] /\ job'[d] = job[d] /\ btree'[d] = btree[d]
    BY <1>11 DEF Sync, CommitFails, TypeOK
  <2> QED
    BY <1>1, <2>1, <2>2, <2>3, LockStep DEF Committing
<1>12. ASSUME NEW c \in Conns, Stage(c)
       PROVE  LockInv'
  <2>1. PICK t \in Tags :
          Append(c, [store[c] EXCEPT !.refs = [work |-> btree[c].cat, tags |-> @.tags \cup {t}]],
                 "refs", {t}, {})
    BY <1>12 DEF Stage
  <2> DEFINE s == [store[c] EXCEPT !.refs = [work |-> btree[c].cat, tags |-> @.tags \cup {t}]]
  <2>2. s \in Store /\ s.lock = store[c].lock
    BY <1>0 DEF Store, Btree, Refs
  <2>3. Append(c, s, "refs", {t}, {}) /\ HasOrGetsLock(c) /\ path' = path /\ btree' = btree
    BY <1>12, <2>1 DEF Stage, HasOrGetsLock
  <2> HIDE DEF s
  <2> QED
    BY <2>2, <2>3, AppendLock
<1>13. ASSUME NEW c \in Conns, Reuse(c)
       PROVE  LockInv'
  <2>1. /\ \A d \in Conns : store'[d].lock = store[d].lock
        /\ UNCHANGED <<path, btree, job>>
    BY <1>0, <1>13 DEF Reuse, TypeOK, Store
  <2> QED
    BY <2>1 DEF LockInv, Committing
<1> QED
  BY <1>2, <1>3, <1>4, <1>5, <1>6, <1>7, <1>8, <1>9, <1>10, <1>11, <1>12, <1>13
     DEF SteadyNext, Transaction, Session, EditRefs

\* The three invariants together, in every behaviour without dolt_gc
THEOREM Locked == SteadySpec => [](TypeOK /\ FileInv /\ LockInv)
<1>1. TypeOK /\ FileInv /\ LockInv /\ [SteadyNext]_vars => (TypeOK /\ FileInv /\ LockInv)'
  <2> SUFFICES ASSUME TypeOK, FileInv, LockInv, [SteadyNext]_vars
               PROVE  (TypeOK /\ FileInv /\ LockInv)'
    OBVIOUS
  <2>1. CASE SteadyNext
    BY <2>1, TypeStep, LockNext DEF AllNext
  <2>2. CASE UNCHANGED vars
    BY <2>2 DEF vars, TypeOK, FileInv, LockInv, Committing
  <2> QED
    BY <2>1, <2>2
<1> QED
  BY <1>1, TypeInit, LockInit, PTL DEF SteadySpec

\* Without dolt_gc no two connections append at the same time, whatever they do
\* and in whatever order: the one inside csCommitToFile holds the flock of the
\* file at the path, also after a ref mutation dropped the lock of a transaction
THEOREM AppendersExclude == SteadySpec => []OneAppender
<1>1. TypeOK /\ FileInv /\ LockInv => OneAppender
  BY DEF LockInv, OneAppender
<1> QED
  BY <1>1, Locked, PTL

-----------------------------------------------------------------------------
(* No acknowledged commit is lost: the serial outcome of the commits is what *)
(* the file holds, for any number of connections that insert rows, commit,   *)
(* roll back, crash and come back, and files of any size.  The name of an    *)
(* open file may be reused under a connection at any time: rows that are     *)
(* only inserted never return to a refs blob the store holds, so the reload  *)
(* this causes in csCommitToFile keeps the refs of the commit.               *)

\* The file: its refs are the acknowledged ones, or one root record ahead, and
\* the blobs it holds are of catalogs that only grew
FileSide ==
  /\ path = 1
  /\ file[1].size = 0 => Head = NoRefs
  /\ (\A c \in Conns : job[c].step # "root") => Head = truth
  /\ \A r \in file[1].blobs : r.work \subseteq Head.work

\* A connection's store follows the file from behind
StoreSide(c) ==
  /\ store[c].fd \in {0, 1}
  /\ store[c].fd = 0 => store[c].seen = 0
  /\ store[c].seen <= file[1].size
  /\ store[c].pinned <=> btree[c].mode \in {"read", "write"}
  /\ btree[c].mode = "write" <=> store[c].lock = 1
  /\ btree[c].mode # "write" => dirty[c] = {}
  /\ store[c].blobs \subseteq file[1].blobs

\* A connection that has seen the whole file has its refs; the catalog it
\* holds is the one of its refs, which no later commit removes rows from
Reader(c) ==
  btree[c].mode \in {"none", "read"} =>
    /\ store[c].refs.work \subseteq Head.work
    /\ store[c].seen = file[1].size => store[c].refs = Head /\ store[c].committed = Head
    /\ btree[c].cat = store[c].refs.work
    /\ btree[c].base \subseteq btree[c].cat

\* A writer works on the head
Writer(c) ==
  btree[c].mode = "write" =>
    /\ btree[c].cat = btree[c].base \cup dirty[c]
    /\ ~Committing(c) => /\ store[c].refs = Head
                         /\ store[c].committed = Head
                         /\ store[c].seen = file[1].size
                         /\ btree[c].base = Head.work

\* What is being committed is the acknowledged refs with the writer's catalog
Appender(c) ==
  Committing(c) =>
    /\ btree[c].mode = "write"
    /\ job[c].kind = "txn"
    /\ job[c].adds = {}
    /\ store[c].fd = 1
    /\ store[c].refs = [truth EXCEPT !.work = btree[c].cat]
    /\ btree[c].base = truth.work
    /\ job[c].drops = {}
    /\ job[c].step = "root" => store[c].refs = Head /\ store[c].refs \in file[1].blobs

SerialInv == FileSide /\ \A c \in Conns : StoreSide(c) /\ Reader(c) /\ Writer(c) /\ Appender(c)

-----------------------------------------------------------------------------
(* The operators on a store and a btree, when the path never changes.      *)

\* Loading a catalog that only gained rows gives exactly that catalog
LEMMA Loaded ==
  ASSUME NEW b \in Btree, NEW work \in SUBSET Rows, b.base \subseteq b.cat, b.cat \subseteq work
  PROVE  /\ LoadCatalog(b, work) \in Btree
         /\ LoadCatalog(b, work).cat = work
         /\ LoadCatalog(b, work).base = b.base
         /\ LoadCatalog(b, work).mode = b.mode
  BY DEF LoadCatalog, Btree

\* A connection without a snapshot has the head after a refresh
LEMMA Refreshed ==
  ASSUME TypeOK, path = 1, NEW s \in Store, ~s.pinned,
         s.fd \in {0, 1}, s.fd = 0 => s.seen = 0, s.seen <= file[1].size,
         s.seen = file[1].size => s.refs = Head /\ s.committed = Head,
         s.blobs \subseteq file[1].blobs
  PROVE  /\ Refresh(s) \in Store
         /\ Refresh(s).fd \in {0, 1}
         /\ Refresh(s).fd = 0 => Refresh(s).seen = 0
         /\ Refresh(s).seen = file[1].size
         /\ Refresh(s).refs = Head
         /\ Refresh(s).committed = Head
         /\ Refresh(s).pinned = FALSE
         /\ Refresh(s).lock = s.lock
         /\ Refresh(s).blobs \subseteq file[1].blobs
<1>1. Refresh(s) \in Store /\ file[1].size \in Nat /\ s.seen \in Nat
  BY RefreshType, PathType DEF Store
<1>2. CASE Changed(s)
  BY <1>1, <1>2, ReloadFields DEF Refresh, Head
<1>3. CASE ~Changed(s)
  <2>1. s.seen = file[1].size
    BY <1>1, <1>3 DEF Changed
  <2>2. Refresh(s) = Checked(s)
    BY <1>3 DEF Refresh
  <2> QED
    BY <1>1, <2>1, <2>2 DEF Checked, Store
<1> QED
  BY <1>2, <1>3

\* ... and so has its Btree
LEMMA ReloadedCatalog ==
  ASSUME TypeOK, path = 1, NEW s \in Store, ~s.pinned, NEW b \in Btree,
         s.fd \in {0, 1}, s.fd = 0 => s.seen = 0, s.seen <= file[1].size,
         s.seen = file[1].size => b.cat = Head.work,
         b.base \subseteq b.cat, b.cat \subseteq Head.work
  PROVE  /\ Reloaded(b, s) \in Btree
         /\ Reloaded(b, s).cat = Head.work
         /\ Reloaded(b, s).base = b.base
         /\ Reloaded(b, s).mode = b.mode
<1>1. file[1].size \in Nat /\ s.seen \in Nat /\ Head.work \in SUBSET Rows
  BY PathType DEF Store, Head
<1>2. CASE Changed(s)
  BY <1>1, <1>2, Loaded DEF Reloaded, Head
<1>3. CASE ~Changed(s)
  <2>1. s.seen = file[1].size
    BY <1>1, <1>3 DEF Changed
  <2> QED
    BY <1>3, <2>1 DEF Reloaded
<1> QED
  BY <1>2, <1>3

\* A writer on the head appends to the end of the file it has, also when a
\* name that was reused makes it reload
LEMMA LandedCore ==
  ASSUME TypeOK, path = 1, NEW s \in Store, NEW n \in Nat,
         s.fd \in {0, 1}, s.seen = file[1].size, s.committed = Head,
         s.refs # s.committed => n # 0, s.blobs \subseteq file[1].blobs,
         Landed(s, n).fd # 0
  PROVE  /\ Landed(s, n) \in Store
         /\ Landed(s, n).fd = 1
         /\ Landed(s, n).seen = s.seen
         /\ Landed(s, n).refs = s.refs
         /\ Landed(s, n).pinned = s.pinned
         /\ Landed(s, n).blobs \subseteq file[1].blobs
<1>1. file[1].size \in Nat /\ Landed(s, n) \in Store
  BY PathType, LandedType
<1> DEFINE r == ReloadKeepingRefs(s, n)
           m == IF s.moved THEN s
                ELSE [(IF HasMoved(s) THEN r ELSE s) EXCEPT !.moved = TRUE]
<1>2. /\ r \in Store /\ r.fd \in {0, 1} /\ r.seen = file[1].size /\ r.refs = s.refs
      /\ r.pinned = s.pinned /\ r.blobs = file[1].blobs
  <2>1. /\ Reload(s) \in Store /\ Reload(s).fd \in {0, 1} /\ Reload(s).seen = file[1].size
        /\ Reload(s).refs = s.committed /\ Reload(s).pinned = s.pinned
        /\ Reload(s).blobs = file[1].blobs
    BY ReloadType, ReloadFields DEF Head
  <2> QED
    BY <2>1, ReloadType DEF ReloadKeepingRefs, Store
<1>3. CASE s.fd = 0
  BY <1>1, <1>3 DEF Landed, Store
<1>4. CASE s.fd = 1
  <2> HIDE DEF r
  <2>1. /\ m \in Store /\ m.fd \in {0, 1} /\ m.seen = file[1].size /\ m.refs = s.refs
        /\ m.pinned = s.pinned /\ m.blobs \subseteq file[1].blobs
    BY <1>2, <1>4 DEF Store
  <2>2. ~(m.fd # 0 /\ file[m.fd].size > m.seen)
    <3> HIDE DEF m
    <3> QED
      BY <1>1, <2>1
  <2>3. Landed(s, n) = m
    BY <1>4, <2>2 DEF Landed, r
  <2> HIDE DEF m
  <2> QED
    BY <1>1, <2>1, <2>3
<1> QED
  BY <1>3, <1>4

-----------------------------------------------------------------------------
(* Steps.                                                                  *)

\* The part of SerialInv about one connection outside a commit, of its values
Local(s, b, rows) ==
  /\ s \in Store /\ b \in Btree
  /\ s.fd \in {0, 1}
  /\ s.fd = 0 => s.seen = 0
  /\ s.seen <= file[1].size
  /\ s.pinned <=> b.mode \in {"read", "write"}
  /\ b.mode = "write" <=> s.lock = 1
  /\ b.mode # "write" => rows = {}
  /\ s.blobs \subseteq file[1].blobs
  /\ b.mode \in {"none", "read"} =>
       /\ s.refs.work \subseteq Head.work
       /\ s.seen = file[1].size => s.refs = Head /\ s.committed = Head
       /\ b.cat = s.refs.work
       /\ b.base \subseteq b.cat
  /\ b.mode = "write" =>
       /\ b.cat = b.base \cup rows
       /\ s.refs = Head
       /\ s.committed = Head
       /\ s.seen = file[1].size
       /\ b.base = Head.work

\* A step outside a commit, of c alone
LEMMA LocalStep ==
  ASSUME TypeOK, SerialInv, NEW c \in Conns, ~Committing(c),
         UNCHANGED <<path, files, file, truth>>,
         job'[c].step \in {"idle", "begin"}, \A d \in Conns \ {c} : job'[d] = job[d],
         NEW s, store' = [store EXCEPT ![c] = s],
         NEW b, btree' = [btree EXCEPT ![c] = b],
         NEW rows, dirty' = [dirty EXCEPT ![c] = rows],
         Local(s, b, rows)
  PROVE  SerialInv'
<1>1. Head' = Head /\ FileSide'
  <2>1. (\A d \in Conns : job'[d].step # "root") => \A d \in Conns : job[d].step # "root"
    BY DEF Committing
  <2> QED
    BY <2>1 DEF SerialInv, FileSide, Head, NoRefs
<1>2. /\ store'[c] = s /\ btree'[c] = b /\ dirty'[c] = rows
      /\ \A d \in Conns \ {c} : /\ store'[d] = store[d] /\ btree'[d] = btree[d]
                                /\ dirty'[d] = dirty[d]
  BY DEF TypeOK
<1>3. \A d \in Conns \ {c} : StoreSide(d)' /\ Reader(d)' /\ Writer(d)' /\ Appender(d)'
  <2> SUFFICES ASSUME NEW d \in Conns \ {c}
               PROVE  StoreSide(d)' /\ Reader(d)' /\ Writer(d)' /\ Appender(d)'
    OBVIOUS
  <2>1. StoreSide(d) /\ Reader(d) /\ Writer(d) /\ Appender(d)
    BY DEF SerialInv
  <2> QED
    BY <1>1, <1>2, <2>1 DEF StoreSide, Reader, Writer, Appender, Committing
<1>4. StoreSide(c)' /\ Reader(c)' /\ Writer(c)' /\ Appender(c)'
  BY <1>1, <1>2 DEF Local, StoreSide, Reader, Writer, Appender, Committing
<1> QED
  BY <1>1, <1>3, <1>4 DEF SerialInv

\* SerialInv holds initially
LEMMA SerialInit == Init => SerialInv
<1> SUFFICES ASSUME Init PROVE SerialInv
  OBVIOUS
<1>1. 1 \in Inodes
  BY BoundsAssumption DEF Inodes
<1>2. FileSide
  BY <1>1 DEF Init, FileSide, Head, EmptyFile
<1>3. ASSUME NEW c \in Conns
      PROVE  StoreSide(c) /\ Reader(c) /\ Writer(c) /\ Appender(c)
  BY <1>1 DEF Init, StoreSide, Reader, Writer, Appender, Committing, ClosedStore, ClosedBtree, IdleJob, EmptyFile
<1> QED
  BY <1>2, <1>3 DEF SerialInv

\* The steps that end or abandon a transaction, and those that start one
LEMMA SessionStep ==
  ASSUME TypeOK, FileInv, LockInv, SerialInv, NEW c \in Conns,
         Open(c) \/ Close(c) \/ Begin(c) \/ EndRead(c) \/ Rollback(c)
  PROVE  SerialInv'
<1>0. /\ store[c] \in Store /\ btree[c] \in Btree /\ path = 1 /\ 1 \in Inodes
      /\ StoreSide(c) /\ Reader(c) /\ Writer(c) /\ FileSide
      /\ ~Committing(c) /\ job'[c].step = "idle" /\ \A d \in Conns \ {c} : job'[d] = job[d]
      /\ ~Close(c) => job' = job
      /\ file[1].size \in Nat /\ dirty = [dirty EXCEPT ![c] = dirty[c]]
  BY PathType, InitialType DEF TypeOK, FileInv, SerialInv, FileSide, Idle, Committing,
                  Open, Close, Begin, EndRead, Rollback
<1>1. CASE Open(c)
  <2> DEFINE s == Opened
             n == [ClosedBtree EXCEPT !.mode = "none"]
             b == LoadCatalog(n, file[path].refs.work)
  <2>1. /\ s \in Store /\ s.fd = IF file[1].size = 0 THEN 0 ELSE 1
        /\ s.seen = file[1].size /\ s.refs = Head /\ s.committed = Head
        /\ s.pinned = FALSE /\ s.lock = 0 /\ s.blobs = file[1].blobs
    BY <1>0, InitialType, OpenedType DEF ClosedStore, Head
  <2>2. n \in Btree /\ n.base = {} /\ n.cat = {} /\ n.mode = "none"
    BY InitialType DEF ClosedBtree, Btree
  <2>3. b \in Btree /\ b.cat = Head.work /\ b.base = {} /\ b.mode = "none"
    <3>1. file[path].refs.work \in SUBSET Rows
      BY PathType
    <3> HIDE DEF n
    <3> QED
      BY <2>2, <3>1, Loaded DEF Head
  <2>4. job[c].step = "idle" /\ dirty[c] = {}
    BY <1>0, <1>1 DEF Open, FileInv, StoreSide
  <2>5. /\ store' = [store EXCEPT ![c] = s] /\ btree' = [btree EXCEPT ![c] = b]
        /\ dirty' = [dirty EXCEPT ![c] = {}] /\ UNCHANGED <<path, files, file, truth>>
    BY <1>0, <1>1, <2>4 DEF Open
  <2> HIDE DEF s, b
  <2>6. Local(s, b, {})
    BY <1>0, <2>1, <2>3 DEF Local
  <2> QED
    BY <1>0, <2>4, <2>5, <2>6, LocalStep
<1>2. CASE Close(c)
  <2>1. /\ ClosedStore \in Store /\ ClosedBtree \in Btree /\ ClosedStore.fd = 0
        /\ ClosedStore.seen = 0 /\ ClosedStore.pinned = FALSE /\ ClosedStore.lock = 0
        /\ ClosedStore.blobs = {}
        /\ ClosedBtree.mode = "closed"
    BY InitialType DEF ClosedStore, ClosedBtree
  <2>2. 0 <= file[1].size
    BY <1>0
  <2>3. Local(ClosedStore, ClosedBtree, {})
    BY <2>1, <2>2 DEF Local
  <2> QED
    BY <1>0, <1>2, <2>3, LocalStep DEF Close
<1>3. CASE Begin(c)
  <2> DEFINE b == [btree[c] EXCEPT !.auto = FALSE]
  <2>1. /\ b \in Btree /\ b.mode = btree[c].mode /\ b.cat = btree[c].cat
        /\ b.base = btree[c].base
    BY <1>0 DEF Btree
  <2>2. /\ btree' = [btree EXCEPT ![c] = b] /\ store' = [store EXCEPT ![c] = store[c]]
        /\ dirty' = [dirty EXCEPT ![c] = dirty[c]] /\ UNCHANGED <<path, files, file, job, truth>>
        /\ Idle(c)
    BY <1>0, <1>3 DEF Begin, TypeOK
  <2> HIDE DEF b
  <2>3. Local(store[c], b, dirty[c])
    BY <1>0, <2>1, <2>2 DEF Local, StoreSide, Reader, Writer
  <2> QED
    BY <1>0, <2>2, <2>3, LocalStep
<1>4. CASE EndRead(c)
  <2> DEFINE s == [Unpinned(store[c]) EXCEPT !.lock = 0]
             b == [btree[c] EXCEPT !.mode = "none", !.auto = TRUE]
  <2>1. /\ s \in Store /\ s.fd = store[c].fd /\ s.seen = store[c].seen /\ s.refs = store[c].refs
        /\ s.committed = store[c].committed /\ s.pinned = FALSE /\ s.lock = 0
        /\ s.blobs = store[c].blobs
    BY <1>0 DEF Unpinned, Store
  <2>2. /\ b \in Btree /\ b.mode = "none" /\ b.cat = btree[c].cat /\ b.base = btree[c].base
    BY <1>0 DEF Btree
  <2>3. /\ btree' = [btree EXCEPT ![c] = b] /\ store' = [store EXCEPT ![c] = s]
        /\ dirty' = [dirty EXCEPT ![c] = {}] /\ UNCHANGED <<path, files, file, job, truth>>
        /\ Idle(c) /\ btree[c].mode \in {"none", "read"}
    BY <1>4 DEF EndRead
  <2> HIDE DEF b, s
  <2>5. Local(s, b, {})
    BY <1>0, <2>1, <2>2, <2>3 DEF Local, StoreSide, Reader
  <2> QED
    BY <1>0, <2>3, <2>5, LocalStep
<1>5. CASE Rollback(c)
  <2> DEFINE s == [Unpinned(store[c]) EXCEPT !.refs = store[c].committed, !.lock = 0]
             b == [btree[c] EXCEPT !.mode = "none", !.auto = TRUE, !.cat = btree[c].base]
  <2>1. /\ s \in Store /\ s.fd = store[c].fd /\ s.seen = store[c].seen
        /\ s.refs = store[c].committed
        /\ s.committed = store[c].committed /\ s.pinned = FALSE /\ s.lock = 0
        /\ s.blobs = store[c].blobs
    BY <1>0 DEF Unpinned, Store
  <2>2. /\ b \in Btree /\ b.mode = "none" /\ b.cat = btree[c].base /\ b.base = btree[c].base
    BY <1>0 DEF Btree
  <2>3. /\ btree' = [btree EXCEPT ![c] = b] /\ store' = [store EXCEPT ![c] = s]
        /\ dirty' = [dirty EXCEPT ![c] = {}] /\ UNCHANGED <<path, files, file, job, truth>>
        /\ Idle(c) /\ btree[c].mode = "write"
    BY <1>5 DEF Rollback
  <2> HIDE DEF b, s
  <2>4. Local(s, b, {})
    BY <1>0, <2>1, <2>2, <2>3 DEF Local, StoreSide, Writer
  <2> QED
    BY <1>0, <2>3, <2>4, LocalStep
<1> QED
  BY <1>1, <1>2, <1>3, <1>4, <1>5

\* Reading, and asking for the lock
LEMMA ReadStep ==
  ASSUME TypeOK, FileInv, LockInv, SerialInv, NEW c \in Conns,
         Read(c) \/ AskToWrite(c) \/ BeginBusy(c) \/ BeginStale(c) \/ BeginWrite(c)
  PROVE  SerialInv'
<1>0. /\ store[c] \in Store /\ btree[c] \in Btree /\ path = 1
      /\ StoreSide(c) /\ Reader(c) /\ FileSide
      /\ ~Committing(c) /\ btree[c].mode \in {"none", "read"} /\ dirty[c] = {}
      /\ job'[c].step \in {"idle", "begin"} /\ \A d \in Conns \ {c} : job'[d] = job[d]
      /\ file[1].size \in Nat /\ dirty = [dirty EXCEPT ![c] = dirty[c]]
      /\ UNCHANGED <<path, files, file, truth, dirty>>
  <2>1. /\ job[c].step \in {"idle", "begin"} /\ btree[c].mode \in {"none", "read"}
        /\ UNCHANGED <<path, files, file, truth, dirty>>
    BY DEF Read, AskToWrite, BeginBusy, BeginStale, BeginWrite, Idle, LockInv
  <2>2. StoreSide(c) /\ Reader(c) /\ FileSide /\ path = 1
    BY DEF SerialInv, FileSide
  <2>3. job'[c].step \in {"idle", "begin"} /\ \A d \in Conns \ {c} : job'[d] = job[d]
    BY InitialType DEF Read, AskToWrite, BeginBusy, BeginStale, BeginWrite, Idle, TypeOK
  <2> QED
    BY <2>1, <2>2, <2>3, PathType DEF TypeOK, StoreSide, Committing
<1> DEFINE u == Unpinned(store[c])
<1>1. /\ u \in Store /\ u.fd = store[c].fd /\ u.seen = store[c].seen /\ u.refs = store[c].refs
      /\ u.committed = store[c].committed /\ u.pinned = FALSE /\ u.lock = store[c].lock
      /\ u.blobs = store[c].blobs
  BY <1>0 DEF Unpinned, Store
<1>2. /\ store[c].lock # 1
      /\ store[c].fd \in {0, 1} /\ (store[c].fd = 0 => store[c].seen = 0)
      /\ store[c].seen <= file[1].size
      /\ store[c].seen = file[1].size => store[c].refs = Head /\ store[c].committed = Head
      /\ store[c].seen = file[1].size => btree[c].cat = Head.work
      /\ btree[c].base \subseteq btree[c].cat /\ btree[c].cat \subseteq Head.work
      /\ store[c].blobs \subseteq file[1].blobs
  BY <1>0 DEF StoreSide, Reader
\* what the store and the btree of a connection without a snapshot become
<1>3. ASSUME NEW s \in {store[c], u}, s.pinned = FALSE
      PROVE  /\ Refresh(s) \in Store
             /\ Refresh(s).fd \in {0, 1}
             /\ Refresh(s).fd = 0 => Refresh(s).seen = 0
             /\ Refresh(s).seen = file[1].size
             /\ Refresh(s).refs = Head
             /\ Refresh(s).committed = Head
             /\ Refresh(s).pinned = FALSE
             /\ Refresh(s).lock # 1
             /\ Refresh(s).blobs \subseteq file[1].blobs
             /\ Reloaded(btree[c], s) \in Btree
             /\ Reloaded(btree[c], s).cat = Head.work
             /\ Reloaded(btree[c], s).base = btree[c].base
             /\ Reloaded(btree[c], s).mode = btree[c].mode
  <2> HIDE DEF u
  <2>1. /\ s \in Store /\ s.fd = store[c].fd /\ s.seen = store[c].seen /\ s.refs = store[c].refs
        /\ s.committed = store[c].committed /\ s.lock = store[c].lock
        /\ s.blobs = store[c].blobs
    BY <1>0, <1>1
  <2>2. /\ s.fd \in {0, 1} /\ (s.fd = 0 => s.seen = 0)
        /\ s.seen <= file[1].size
        /\ s.seen = file[1].size => s.refs = Head /\ s.committed = Head
        /\ s.seen = file[1].size => btree[c].cat = Head.work
        /\ ~s.pinned /\ s.blobs \subseteq file[1].blobs
    BY <1>2, <1>3, <2>1
  <2>3. Refresh(s).lock # 1
    BY <1>0, <1>2, <2>1, <2>2, Refreshed
  <2> QED
    BY <1>0, <1>2, <2>1, <2>2, <2>3, Refreshed, ReloadedCatalog
<1>4. CASE Read(c)
  <2> DEFINE s == [Refresh(u) EXCEPT !.pinned = TRUE]
             b == [Reloaded(btree[c], u) EXCEPT !.mode = "read"]
  <2>1. /\ s \in Store /\ s.fd \in {0, 1} /\ (s.fd = 0 => s.seen = 0) /\ s.pinned = TRUE
        /\ s.seen = file[1].size /\ s.refs = Head /\ s.committed = Head /\ s.lock # 1
        /\ s.blobs \subseteq file[1].blobs
    BY <1>1, <1>3 DEF Store
  <2>2. b \in Btree /\ b.mode = "read" /\ b.cat = Head.work /\ b.base = btree[c].base
    BY <1>1, <1>3 DEF Btree
  <2>3. store' = [store EXCEPT ![c] = s] /\ btree' = [btree EXCEPT ![c] = b]
    BY <1>4 DEF Read
  <2> HIDE DEF s, b, u
  <2>4. Local(s, b, dirty[c])
    BY <1>0, <1>2, <2>1, <2>2 DEF Local
  <2> QED
    BY <1>0, <2>3, <2>4, LocalStep
<1>5. CASE BeginStale(c)
  <2> DEFINE s == Checked(store[c])
  <2>1. /\ s \in Store /\ s.fd = store[c].fd /\ s.seen = store[c].seen /\ s.lock = store[c].lock
        /\ s.refs = store[c].refs /\ s.committed = store[c].committed /\ s.pinned = store[c].pinned
        /\ s.blobs = store[c].blobs
    BY <1>0 DEF Checked, Store
  <2>2. store' = [store EXCEPT ![c] = s] /\ btree' = [btree EXCEPT ![c] = btree[c]]
    BY <1>0, <1>5 DEF BeginStale, TypeOK
  <2> HIDE DEF s, u
  <2>3. Local(s, btree[c], dirty[c])
    BY <1>0, <2>1 DEF Local, StoreSide, Reader
  <2> QED
    BY <1>0, <2>2, <2>3, LocalStep
\* a refresh under a snapshot does nothing
<1>6. ASSUME store[c].pinned = TRUE
      PROVE  Refresh(store[c]) = store[c] /\ Reloaded(btree[c], store[c]) = btree[c]
  BY <1>6 DEF Refresh, Reloaded
<1>7. store[c].pinned \in BOOLEAN /\ (store[c].pinned <=> btree[c].mode = "read")
  BY <1>0 DEF Store, StoreSide
<1>8. CASE AskToWrite(c)
  <2>1. /\ store' = [store EXCEPT ![c] = Refresh(store[c])]
        /\ btree' = [btree EXCEPT ![c] = Reloaded(btree[c], store[c])]
    BY <1>8 DEF AskToWrite
  <2> HIDE DEF u
  <2>2. Local(Refresh(store[c]), Reloaded(btree[c], store[c]), dirty[c])
    <3>1. CASE store[c].pinned = TRUE
      BY <1>0, <1>6, <3>1 DEF Local, StoreSide, Reader
    <3>2. CASE store[c].pinned = FALSE
      <4> DEFINE s == Refresh(store[c])
                 b == Reloaded(btree[c], store[c])
      <4>1. btree[c].mode = "none"
        BY <1>0, <1>7, <3>2
      <4>2. /\ s \in Store /\ s.fd \in {0, 1} /\ (s.fd = 0 => s.seen = 0)
            /\ s.seen = file[1].size /\ s.refs = Head /\ s.committed = Head
            /\ s.pinned = FALSE /\ s.lock # 1 /\ s.blobs \subseteq file[1].blobs
            /\ b \in Btree /\ b.cat = Head.work /\ b.base = btree[c].base /\ b.mode = "none"
        BY <1>3, <3>2, <4>1
      <4> HIDE DEF s, b
      <4>3. Local(s, b, dirty[c])
        BY <1>0, <1>2, <4>2 DEF Local
      <4> QED
        BY <4>3 DEF s, b
    <3> QED
      BY <1>7, <3>1, <3>2
  <2> QED
    BY <1>0, <2>1, <2>2, LocalStep
<1>9. CASE BeginWrite(c)
  <2> DEFINE r == Refresh(store[c])
             s == [Compared(c, r) EXCEPT !.lock = job[c].inode, !.pinned = TRUE]
             v == Reloaded(btree[c], store[c])
             l == LoadCatalog(v, r.refs.work)
             b == [l EXCEPT !.mode = "write", !.base = r.refs.work]
  <2>1. btree[c].mode = "read" => ~Changed(r)
    BY <1>9 DEF BeginWrite, IsLatest
  <2>0. job[c].inode = 1
    BY <1>0, <1>9 DEF BeginWrite, LockInv
  <2>2. /\ r \in Store /\ r.fd \in {0, 1} /\ (r.fd = 0 => r.seen = 0) /\ r.seen = file[1].size
        /\ r.refs = Head /\ r.committed = Head /\ r.blobs \subseteq file[1].blobs
        /\ v \in Btree /\ v.base \subseteq v.cat /\ v.cat = Head.work
    <3>1. CASE store[c].pinned = TRUE
      <4>1. ~Changed(store[c]) /\ store[c].seen \in Nat
        BY <1>0, <1>6, <1>7, <2>1, <3>1 DEF Store
      <4>2. store[c].seen = file[1].size
        BY <1>0, <1>2, <4>1 DEF Changed
      <4> QED
        BY <1>0, <1>2, <1>6, <3>1, <4>2
    <3>2. CASE store[c].pinned = FALSE
      BY <1>0, <1>2, <1>3, <3>2
    <3> QED
      BY <1>7, <3>1, <3>2
  <2>3. Head.work \in SUBSET Rows
    BY PathType DEF Head
  <2>4. l \in Btree /\ l.cat = Head.work
    <3> HIDE DEF r, v
    <3> QED
      BY <2>2, <2>3, Loaded
  <2>5. b \in Btree /\ b.mode = "write" /\ b.base = Head.work /\ b.cat = Head.work
    BY <2>2, <2>3, <2>4 DEF Btree
  <2>6. /\ s \in Store /\ s.fd = r.fd /\ s.seen = r.seen /\ s.refs = r.refs /\ s.lock = 1
        /\ s.committed = r.committed /\ s.pinned = TRUE /\ s.blobs = r.blobs
    <3> HIDE DEF r
    <3> QED
      BY <1>0, <2>0, <2>2, PathType DEF Compared, Checked, Store
  <2>7. store' = [store EXCEPT ![c] = s] /\ btree' = [btree EXCEPT ![c] = b]
    BY <1>9 DEF BeginWrite
  <2> HIDE DEF s, b, r, v, l, u
  <2>8. Local(s, b, dirty[c])
    BY <1>0, <2>2, <2>5, <2>6 DEF Local
  <2> QED
    BY <1>0, <2>7, <2>8, LocalStep
<1>10. CASE BeginBusy(c)
  <2>1. store' = [store EXCEPT ![c] = store[c]] /\ btree' = [btree EXCEPT ![c] = btree[c]]
    BY <1>10 DEF BeginBusy, TypeOK
  <2> HIDE DEF u
  <2>2. Local(store[c], btree[c], dirty[c])
    BY <1>0 DEF Local, StoreSide, Reader
  <2> QED
    BY <1>0, <2>1, <2>2, LocalStep
<1> QED
  BY <1>4, <1>5, <1>8, <1>9, <1>10

\* Inserting a row
LEMMA InsertStep ==
  ASSUME TypeOK, FileInv, LockInv, SerialInv, NEW c \in Conns, Insert(c)
  PROVE  SerialInv'
<1>0. /\ store[c] \in Store /\ btree[c] \in Btree
      /\ StoreSide(c) /\ Writer(c) /\ store = [store EXCEPT ![c] = store[c]]
      /\ job[c].step = "idle" /\ ~Committing(c) /\ btree[c].mode = "write"
      /\ UNCHANGED <<path, files, file, store, job, truth>>
  BY DEF SerialInv, TypeOK, Insert, Idle, Committing
<1>1. PICK r \in Rows : /\ btree' = [btree EXCEPT ![c].cat = btree[c].cat \cup {r}]
                        /\ dirty' = [dirty EXCEPT ![c] = dirty[c] \cup {r}]
  BY DEF Insert
<1> DEFINE b == [btree[c] EXCEPT !.cat = btree[c].cat \cup {r}]
<1>2. /\ b \in Btree /\ b.mode = "write" /\ b.base = btree[c].base
      /\ b.cat = btree[c].cat \cup {r} /\ btree' = [btree EXCEPT ![c] = b]
  BY <1>0, <1>1 DEF Btree, TypeOK
<1> HIDE DEF b
<1>3. Local(store[c], b, dirty[c] \cup {r})
  BY <1>0, <1>2 DEF Local, StoreSide, Writer
<1> QED
  BY <1>0, <1>1, <1>2, <1>3, LocalStep

-----------------------------------------------------------------------------
(* The steps of a commit.                                                  *)

\* While c holds the lock no other connection is in a write transaction
LEMMA Alone ==
  ASSUME TypeOK, LockInv, SerialInv, NEW c \in Conns, store[c].lock = 1
  PROVE  \A d \in Conns \ {c} : btree[d].mode # "write" /\ ~Committing(d)
  BY DEF SerialInv, FileSide, StoreSide, Appender, LockInv

\* A step of c that moves the file on without taking rows from the head
LEMMA OthersStep ==
  ASSUME TypeOK, SerialInv, NEW c \in Conns, NEW d \in Conns \ {c},
         store'[d] = store[d], btree'[d] = btree[d], job'[d] = job[d], dirty'[d] = dirty[d],
         btree[d].mode # "write", ~Committing(d), path' = path,
         Head.work \subseteq Head'.work, file[1].blobs \subseteq file'[1].blobs, file[1].size \in Nat, file'[1].size \in Nat,
         file'[1].size > file[1].size \/ (file'[1].size = file[1].size /\ Head' = Head)
  PROVE  StoreSide(d)' /\ Reader(d)' /\ Writer(d)' /\ Appender(d)'
<1>1. StoreSide(d) /\ Reader(d) /\ store[d].seen \in Nat
  BY DEF SerialInv, TypeOK, Store
<1>2. StoreSide(d)'
  BY <1>1 DEF StoreSide
<1>3. Reader(d)'
  BY <1>1, <1>2 DEF Reader, StoreSide
<1> QED
  BY <1>1, <1>2, <1>3 DEF Writer, Appender, Committing

\* The append of a COMMIT: the writer lands on the file it has, at its end
LEMMA CommitStep ==
  ASSUME TypeOK, FileInv, LockInv, SerialInv, NEW c \in Conns, Commit(c)
  PROVE  SerialInv'
<1> DEFINE s == [store[c] EXCEPT !.refs.work = btree[c].cat]
<1>0. /\ store[c] \in Store /\ btree[c] \in Btree /\ path = 1 /\ 1 \in Inodes
      /\ StoreSide(c) /\ Writer(c) /\ FileSide /\ file[1] \in File
      /\ job[c].step \in {"idle", "lock"} /\ ~Committing(c) /\ btree[c].mode = "write"
      /\ UNCHANGED <<path, files, btree, truth, dirty>>
      /\ Append(c, s, "txn", {}, {})
  BY PathType DEF SerialInv, FileSide, TypeOK, Commit, HasOrGetsLock, Idle, Committing
<1>1. \A d \in Conns \ {c} : btree[d].mode # "write" /\ ~Committing(d)
  BY <1>0, Alone DEF StoreSide
<1>2. Head = truth /\ store[c].refs = truth /\ btree[c].base = truth.work /\ truth \in Refs
  BY <1>0, <1>1 DEF FileSide, Writer, TypeOK, Committing
<1>3. /\ s \in Store /\ s.fd = store[c].fd /\ s.seen = store[c].seen /\ s.pinned = store[c].pinned
      /\ s.lock = 1 /\ s.refs = [truth EXCEPT !.work = btree[c].cat]
      /\ s.committed = store[c].committed /\ s.blobs = store[c].blobs
  BY <1>0, <1>2 DEF Store, Btree, Refs, StoreSide
<1>4. PICK n \in Staged(s) :
        LET t == [Landed(s, n) EXCEPT !.lock = IF s.lock = 0 THEN job[c].inode ELSE s.lock] IN
        /\ t.fd # 0
        /\ file' = [file EXCEPT ![t.fd].size = @ + n]
        /\ store' = [store EXCEPT ![c] = t]
        /\ job' = [job EXCEPT ![c] = [step |-> "append", kind |-> "txn",
                                      inode |-> 0, undo |-> file[t.fd],
                                      adds |-> {}, drops |-> {}]]
  BY <1>0 DEF Append
<1>5. n \in Nat /\ (s.refs # s.committed => n # 0)
  <2>1. s.refs \in s.blobs => s.refs = s.committed
    <3>1. SUFFICES ASSUME s.refs \in s.blobs PROVE s.refs = s.committed
      OBVIOUS
    <3>2. s.refs.work \subseteq truth.work
      BY <1>0, <1>2, <1>3, <3>1 DEF StoreSide, FileSide
    <3>3. truth.work \subseteq btree[c].cat /\ s.refs.work = btree[c].cat
      BY <1>0, <1>2, <1>3 DEF Writer, Refs
    <3>4. s.refs = truth
      <4>1. btree[c].cat = truth.work
        BY <3>2, <3>3
      <4> HIDE DEF s
      <4> QED
        BY <1>2, <1>3, <4>1 DEF Refs
    <3> QED
      BY <1>0, <1>2, <1>3, <3>4 DEF Writer
  <2> HIDE DEF s
  <2> QED
    BY <1>4, <2>1, BoundsAssumption DEF Staged
<1> DEFINE t == [Landed(s, n) EXCEPT !.lock = IF s.lock = 0 THEN job[c].inode ELSE s.lock]
<1>6. /\ Landed(s, n) \in Store /\ Landed(s, n).fd = 1 /\ Landed(s, n).seen = file[1].size
      /\ Landed(s, n).refs = s.refs /\ Landed(s, n).pinned = store[c].pinned
      /\ Landed(s, n).blobs \subseteq file[1].blobs
  <2>0. Landed(s, n).fd # 0
    <3>1. Landed(s, n) \in Store
      BY <1>3, <1>5, LandedType
    <3> HIDE DEF s
    <3> QED
      BY <1>4, <3>1 DEF Store
  <2> HIDE DEF s
  <2>1. /\ s.fd \in {0, 1} /\ s.seen = file[1].size /\ s.committed = Head
        /\ s.blobs \subseteq file[1].blobs
    BY <1>0, <1>3 DEF StoreSide, Writer
  <2> QED
    BY <1>0, <1>3, <1>5, <2>0, <2>1, LandedCore
<1>7. /\ t \in Store /\ t.fd = 1 /\ t.seen = file[1].size /\ t.refs = s.refs
      /\ t.pinned = store[c].pinned /\ t.lock = 1 /\ t.blobs \subseteq file[1].blobs
  <2> HIDE DEF s
  <2> QED
    BY <1>3, <1>6 DEF Store
<1>8. /\ file' = [file EXCEPT ![t.fd].size = @ + n]
       /\ store' = [store EXCEPT ![c] = t]
       /\ job' = [job EXCEPT ![c] = [step |-> "append", kind |-> "txn",
                                     inode |-> 0, undo |-> file[t.fd],
                                     adds |-> {}, drops |-> {}]]
  BY <1>4
<1> HIDE DEF s, t
<1>9. /\ file'[1].size = file[1].size + n /\ file'[1].refs = file[1].refs
      /\ file'[1].blobs = file[1].blobs
      /\ file[1].size \in Nat /\ file'[1].size \in Nat /\ Head' = Head
  BY <1>0, <1>7, <1>8, <1>5 DEF TypeOK, File, Head
<1>10. /\ store'[c] = t /\ job'[c].step = "append" /\ job'[c].kind = "txn" /\ job'[c].adds = {}
      /\ job'[c].drops = {}
      /\ \A d \in Conns \ {c} : store'[d] = store[d] /\ job'[d] = job[d]
  BY <1>8 DEF TypeOK
<1>11. \A d \in Conns \ {c} : StoreSide(d)' /\ Reader(d)' /\ Writer(d)' /\ Appender(d)'
  BY <1>0, <1>1, <1>5, <1>9, <1>10, OthersStep
<1>12. FileSide'
  <2>1. \A d \in Conns : job[d].step # "root"
    BY <1>0, <1>1 DEF Committing
  <2> QED
    BY <1>0, <1>2, <1>5, <1>9 DEF FileSide
<1>13. StoreSide(c)' /\ Reader(c)'
  BY <1>0, <1>7, <1>5, <1>9, <1>10 DEF StoreSide, Reader
<1>14. Writer(c)' /\ Appender(c)'
  BY <1>0, <1>2, <1>3, <1>7, <1>10 DEF Writer, Appender, Committing
<1> QED
  BY <1>11, <1>12, <1>13, <1>14 DEF SerialInv

\* The root record: the refs in the file become those of the writer
LEMMA WriteRootStep ==
  ASSUME TypeOK, FileInv, LockInv, SerialInv, NEW c \in Conns, WriteRoot(c)
  PROVE  SerialInv'
<1>0. /\ store[c] \in Store /\ btree[c] \in Btree /\ path = 1 /\ 1 \in Inodes
      /\ StoreSide(c) /\ Writer(c) /\ Appender(c) /\ FileSide /\ file[1] \in File
      /\ job[c].step = "append" /\ Committing(c) /\ job[c] \in Job /\ store[c].lock = 1
      /\ UNCHANGED <<path, files, store, btree, truth, dirty>>
  BY PathType DEF SerialInv, FileSide, TypeOK, WriteRoot, LockInv, Committing
<1>1. \A d \in Conns \ {c} : btree[d].mode # "write" /\ ~Committing(d)
  BY <1>0, Alone
<1>2. /\ btree[c].mode = "write" /\ job[c].kind = "txn" /\ job[c].adds = {} /\ store[c].fd = 1
      /\ job[c].drops = {}
      /\ store[c].refs = [truth EXCEPT !.work = btree[c].cat] /\ btree[c].base = truth.work
      /\ btree[c].cat = truth.work \cup dirty[c] /\ Head = truth /\ truth \in Refs
  <2>1. \A d \in Conns : job[d].step # "root"
    BY <1>0, <1>1 DEF Committing
  <2> QED
    BY <1>0, <2>1 DEF Appender, Writer, FileSide, TypeOK
<1>3. file' = [file EXCEPT ![1] = [size |-> file[1].size + 1, refs |-> store[c].refs,
                                   blobs |-> file[1].blobs \cup {store[c].refs}]]
  BY <1>2 DEF WriteRoot, TypeOK
<1>4. /\ file'[1].size = file[1].size + 1 /\ file[1].size \in Nat
      /\ Head' = store[c].refs /\ file'[1].blobs = file[1].blobs \cup {store[c].refs}
  BY <1>0, <1>3 DEF TypeOK, File, Head
<1>5. Head.work \subseteq Head'.work
  BY <1>2, <1>4 DEF Refs
<1>6. /\ job'[c].step = "root" /\ job'[c].kind = "txn" /\ job'[c].adds = {}
      /\ job'[c].drops = {}
      /\ \A d \in Conns \ {c} : job'[d] = job[d]
  BY <1>0, <1>2 DEF WriteRoot, TypeOK, Job
<1>7. \A d \in Conns \ {c} : StoreSide(d)' /\ Reader(d)' /\ Writer(d)' /\ Appender(d)'
  BY <1>0, <1>1, <1>4, <1>5, <1>6, OthersStep
<1>8. FileSide'
  BY <1>0, <1>4, <1>5, <1>6 DEF FileSide
<1>9. StoreSide(c)' /\ Reader(c)'
  BY <1>0, <1>2, <1>4, <1>6 DEF StoreSide, Reader, Store
<1>10. Writer(c)' /\ Appender(c)'
  BY <1>0, <1>2, <1>4, <1>6 DEF Writer, Appender, Committing
<1> QED
  BY <1>7, <1>8, <1>9, <1>10 DEF SerialInv

\* The end of a commit, by its acknowledgement or by a crash
LEMMA EndStep ==
  ASSUME TypeOK, FileInv, LockInv, SerialInv, NEW c \in Conns, Sync(c) \/ Crash(c)
  PROVE  SerialInv'
<1>0. /\ store[c] \in Store /\ btree[c] \in Btree /\ path = 1 /\ 1 \in Inodes
      /\ StoreSide(c) /\ Writer(c) /\ Appender(c) /\ FileSide /\ file[1] \in File
      /\ Committing(c) /\ job[c].step \in {"append", "root"} /\ store[c].lock = 1
      /\ UNCHANGED <<path, files, file>>
  BY PathType DEF SerialInv, FileSide, TypeOK, Sync, Crash, LockInv, disk, Committing
<1>1. \A d \in Conns \ {c} : btree[d].mode # "write" /\ ~Committing(d)
  BY <1>0, Alone
<1>2. /\ btree[c].mode = "write" /\ job[c].kind = "txn" /\ job[c].adds = {} /\ store[c].fd = 1
      /\ job[c].drops = {}
      /\ store[c].refs = [truth EXCEPT !.work = btree[c].cat]
      /\ btree[c].cat = truth.work \cup dirty[c] /\ truth \in Refs
      /\ job[c].step = "root" => Head = store[c].refs
      /\ job[c].step = "append" => Head = truth
  <2>1. job[c].step = "append" => \A d \in Conns : job[d].step # "root"
    BY <1>0, <1>1 DEF Committing
  <2> QED
    BY <1>0, <2>1 DEF Appender, Writer, FileSide, TypeOK
<1>3. Head' = Head
  BY <1>0 DEF Head
<1>4. truth' = Head
  <2>1. Acknowledged(c) = store[c].refs
    <3>1. (truth.work \ dirty[c]) \cup (btree[c].cat \cap dirty[c]) = btree[c].cat
      BY <1>2
    <3>2. (truth.tags \cup job[c].adds) \ job[c].drops = truth.tags
      BY <1>2
    <3>3. Acknowledged(c) = [work |-> btree[c].cat, tags |-> truth.tags]
      BY <1>2, <3>1, <3>2 DEF Acknowledged
    <3> QED
      BY <1>2, <3>3 DEF Refs
  <2>2. CASE Sync(c)
    BY <1>2, <2>1, <2>2 DEF Sync
  <2>3. CASE Crash(c)
    BY <1>0, <1>2, <2>1, <2>3 DEF Crash
  <2> QED
    BY <2>2, <2>3
<1>5. /\ job'[c].step = "idle" /\ dirty'[c] = {}
      /\ \A d \in Conns \ {c} : /\ store'[d] = store[d] /\ btree'[d] = btree[d]
                                /\ job'[d] = job[d] /\ dirty'[d] = dirty[d]
  BY <1>2, InitialType DEF Sync, Crash, TypeOK
<1>6. \A d \in Conns \ {c} : StoreSide(d)' /\ Reader(d)' /\ Writer(d)' /\ Appender(d)'
  <2>1. /\ file[1].size \in Nat /\ file'[1].size = file[1].size /\ path' = path
        /\ file'[1].blobs = file[1].blobs
    BY <1>0 DEF File
  <2> QED
    BY <1>1, <1>3, <1>5, <2>1, OthersStep
<1>7. FileSide'
  BY <1>0, <1>3, <1>4 DEF FileSide
<1>8. StoreSide(c)' /\ Reader(c)' /\ Writer(c)' /\ Appender(c)'
  <2>1. CASE Crash(c)
    <3>1. store'[c] = ClosedStore /\ btree'[c] = ClosedBtree
      BY <2>1 DEF Crash, TypeOK
    <3> QED
      BY <1>0, <1>5, <3>1 DEF StoreSide, Reader, Writer, Appender, Committing, ClosedStore, ClosedBtree, File
  <2>2. CASE Sync(c)
    <3>1. /\ Head = store[c].refs /\ job[c].step = "root"
      BY <1>2, <2>2 DEF Sync
    <3>2. /\ store'[c].fd = 1 /\ store'[c].seen = file[1].size /\ store'[c].pinned = FALSE
          /\ store'[c].lock = 0 /\ store'[c].refs = Head /\ store'[c].committed = Head
          /\ store'[c].blobs \subseteq file[1].blobs
      BY <1>0, <1>2, <2>2, <3>1 DEF Sync, TypeOK, Store, StoreSide, Appender
    <3>3. /\ btree'[c].mode = "none" /\ btree'[c].cat = Head.work /\ btree'[c].base = Head.work
      BY <1>0, <1>2, <2>2, <3>1 DEF Sync, TypeOK, Btree, Refs
    <3> QED
      BY <1>0, <1>3, <1>5, <3>2, <3>3 DEF StoreSide, Reader, Writer, Appender, Committing, File
  <2> QED
    BY <2>1, <2>2
<1> QED
  BY <1>6, <1>7, <1>8 DEF SerialInv

\* The name of an open file is reused: nothing else changes
LEMMA ReuseStep ==
  ASSUME TypeOK, SerialInv, NEW c \in Conns, Reuse(c)
  PROVE  SerialInv'
<1>1. /\ \A d \in Conns : /\ store'[d].fd = store[d].fd
                            /\ store'[d].seen = store[d].seen
                            /\ store'[d].refs = store[d].refs
                            /\ store'[d].committed = store[d].committed
                            /\ store'[d].pinned = store[d].pinned
                            /\ store'[d].lock = store[d].lock
                            /\ store'[d].blobs = store[d].blobs
      /\ UNCHANGED <<path, files, file, btree, job, truth, dirty>>
  BY DEF Reuse, TypeOK, Store
<1>2. FileSide' /\ Head' = Head
  BY <1>1 DEF SerialInv, FileSide, Head
<1>3. ASSUME NEW d \in Conns
      PROVE  StoreSide(d)' /\ Reader(d)' /\ Writer(d)' /\ Appender(d)'
  BY <1>1, <1>2 DEF SerialInv, StoreSide, Reader, Writer, Appender, Committing
<1> QED
  BY <1>2, <1>3 DEF SerialInv

\* Every step of a SQL transaction preserves SerialInv
LEMMA SerialStep ==
  ASSUME TypeOK, FileInv, LockInv, SerialInv, Next
  PROVE  SerialInv'
  BY SessionStep, ReadStep, InsertStep, CommitStep, WriteRootStep, EndStep, ReuseStep
     DEF Next, Transaction, Session

\* SerialInv holds in every behaviour of SQL transactions, with what it rests on
THEOREM Serial == Spec => [](TypeOK /\ FileInv /\ LockInv /\ SerialInv)
<1> DEFINE Inv == TypeOK /\ FileInv /\ LockInv /\ SerialInv
<1>1. Init => Inv
  BY TypeInit, LockInit, SerialInit
<1>2. Inv /\ [Next]_vars => Inv'
  <2> SUFFICES ASSUME Inv, [Next]_vars PROVE Inv'
    OBVIOUS
  <2>1. CASE Next
    <3>1. SteadyNext /\ AllNext
      BY <2>1 DEF Next, AllNext, SteadyNext
    <3> QED
      BY <2>1, <3>1, TypeStep, LockNext, SerialStep
  <2>2. CASE UNCHANGED vars
    <3>1. TypeOK' /\ FileInv' /\ LockInv'
      BY <2>2 DEF vars, TypeOK, FileInv, LockInv, Committing
    <3>2. FileSide' /\ Head' = Head
      BY <2>2 DEF vars, SerialInv, FileSide, Head
    <3>3. ASSUME NEW c \in Conns
          PROVE  StoreSide(c)' /\ Reader(c)' /\ Writer(c)' /\ Appender(c)'
      BY <2>2, <3>2 DEF vars, SerialInv, StoreSide, Reader, Writer, Appender, Committing
    <3> QED
      BY <3>1, <3>2, <3>3 DEF SerialInv
  <2> QED
    BY <2>1, <2>2
<1> QED
  BY <1>1, <1>2, PTL DEF Spec

\* The refs in the file are the serial outcome of the commits acknowledged so
\* far: no interleaving of transactions, rollbacks and crashes loses or undoes
\* one (csCommitToFile)
THEOREM NoCommitLost == Spec => []HeadIsSerial
<1>1. SerialInv => HeadIsSerial
  BY DEF SerialInv, FileSide, HeadIsSerial
<1> QED
  BY <1>1, Serial, PTL

\* A write transaction excludes every other (prollyBtreeBeginTrans), until ref
\* mutations come into play
THEOREM WritersExclude == Spec => []OneWriter
<1>1. LockInv /\ SerialInv => OneWriter
  BY DEF SerialInv, FileSide, StoreSide, LockInv, OneWriter
<1> QED
  BY <1>1, Serial, PTL

\* Nothing is committed behind the back of a write transaction
THEOREM WritersHaveHead == Spec => []WriterHasHead
<1>1. SerialInv => WriterHasHead
  BY DEF SerialInv, Writer, WriterHasHead
<1> QED
  BY <1>1, Serial, PTL

-----------------------------------------------------------------------------
(* SQL transactions over the shared file are the transactions of           *)
(* AtomicStore, and what a reader sees.                                    *)

Inv == TypeOK /\ FileInv /\ LockInv /\ SerialInv

-----------------------------------------------------------------------------
(* What a step of a session does to its Btree.                             *)

\* Loading a catalog changes neither the mode nor whether BEGIN was given
LEMMA LoadKeeps ==
  ASSUME NEW b \in Btree, NEW work \in SUBSET Rows
  PROVE  /\ LoadCatalog(b, work) \in Btree
         /\ LoadCatalog(b, work).mode = b.mode
         /\ LoadCatalog(b, work).auto = b.auto
  BY DEF LoadCatalog, Btree

\* What is known of a connection that is not in a write transaction
LEMMA ReaderFacts ==
  ASSUME Inv, NEW c \in Conns, btree[c].mode \in {"none", "read"}
  PROVE  /\ store[c] \in Store /\ btree[c] \in Btree /\ path = 1 /\ dirty[c] = {}
         /\ file[1].size \in Nat /\ store[c].seen \in Nat
         /\ store[c].fd \in {0, 1} /\ (store[c].fd = 0 => store[c].seen = 0)
         /\ store[c].seen <= file[1].size
         /\ store[c].seen = file[1].size => store[c].refs = Head /\ store[c].committed = Head
         /\ store[c].seen = file[1].size => btree[c].cat = Head.work
         /\ btree[c].base \subseteq btree[c].cat /\ btree[c].cat \subseteq Head.work
         /\ store[c].blobs \subseteq file[1].blobs
         /\ store[c].pinned <=> btree[c].mode = "read"
<1>1. StoreSide(c) /\ Reader(c) /\ FileSide
  BY DEF Inv, SerialInv
<1>2. store[c] \in Store /\ btree[c] \in Btree /\ path = 1 /\ file[1].size \in Nat
  BY <1>1, PathType DEF Inv, TypeOK, FileSide
<1> QED
  BY <1>1, <1>2 DEF StoreSide, Reader, Store

\* A statement that starts to read sees the head
LEMMA ReadShows ==
  ASSUME Inv, NEW c \in Conns, Read(c)
  PROVE  /\ btree'[c].mode = "read" /\ btree'[c].cat = Head.work
         /\ btree'[c].auto = btree[c].auto
<1> DEFINE u == Unpinned(store[c])
           r == Reloaded(btree[c], u)
<1>1. /\ btree[c].mode \in {"none", "read"}
      /\ btree' = [btree EXCEPT ![c] = [r EXCEPT !.mode = "read"]]
  BY DEF Read
<1>2. /\ u \in Store /\ u.fd = store[c].fd /\ u.seen = store[c].seen /\ ~u.pinned
  <2>1. store[c] \in Store
    BY <1>1, ReaderFacts
  <2> QED
    BY <2>1 DEF Unpinned, Store
<1>3. r \in Btree /\ r.cat = Head.work
  <2> HIDE DEF u
  <2> QED
    BY <1>1, <1>2, ReaderFacts, ReloadedCatalog DEF Inv
<1>4. r.auto = btree[c].auto
  <2>1. file[path].refs.work \in SUBSET Rows
    BY PathType DEF Inv
  <2> HIDE DEF u
  <2> QED
    BY <1>1, <2>1, LoadKeeps, ReaderFacts DEF Reloaded
<1> HIDE DEF r
<1> QED
  BY <1>1, <1>3, <1>4 DEF Inv, TypeOK, Btree

\* Asking for the lock changes nothing a transaction has read
LEMMA AskShows ==
  ASSUME Inv, NEW c \in Conns, AskToWrite(c)
  PROVE  /\ btree'[c].mode = btree[c].mode /\ btree'[c].auto = btree[c].auto
         /\ btree[c].mode = "read" => btree'[c].cat = btree[c].cat
                                      /\ store'[c].refs = store[c].refs
<1>1. /\ btree[c].mode \in {"none", "read"}
      /\ store' = [store EXCEPT ![c] = Refresh(store[c])]
      /\ btree' = [btree EXCEPT ![c] = Reloaded(btree[c], store[c])]
  BY DEF AskToWrite
<1>2. Reloaded(btree[c], store[c]).mode = btree[c].mode
      /\ Reloaded(btree[c], store[c]).auto = btree[c].auto
  <2>1. file[path].refs.work \in SUBSET Rows
    BY PathType DEF Inv
  <2> QED
    BY <1>1, <2>1, LoadKeeps, ReaderFacts DEF Reloaded
<1>3. btree[c].mode = "read" => /\ Refresh(store[c]) = store[c]
                                /\ Reloaded(btree[c], store[c]) = btree[c]
  BY <1>1, ReaderFacts DEF Refresh, Reloaded
<1> QED
  BY <1>1, <1>2, <1>3 DEF Inv, TypeOK

\* A write transaction begins on the head, which a snapshot it had was
LEMMA WriteShows ==
  ASSUME Inv, NEW c \in Conns, BeginWrite(c)
  PROVE  /\ btree[c].mode \in {"none", "read"}
         /\ btree[c].mode = "read" => btree[c].cat = Head.work /\ store[c].refs = Head
         /\ btree'[c].mode = "write" /\ btree'[c].cat = Head.work
         /\ btree'[c].auto = btree[c].auto /\ store'[c].refs = Head
<1>1. /\ btree[c].mode \in {"none", "read"} /\ job[c].step = "begin"
      /\ Head' = Head /\ dirty' = dirty
  BY DEF BeginWrite, Inv, LockInv, Head
<1>2. btree[c].mode = "read" => btree[c].cat = Head.work /\ store[c].refs = Head
  <2> SUFFICES ASSUME btree[c].mode = "read"
               PROVE  btree[c].cat = Head.work /\ store[c].refs = Head
    OBVIOUS
  <2>1. Refresh(store[c]) = store[c]
    BY ReaderFacts DEF Refresh
  <2>2. ~Changed(store[c])
    BY <2>1 DEF BeginWrite, IsLatest
  <2>3. store[c].seen = file[1].size
    BY <2>2, ReaderFacts DEF Changed
  <2> QED
    BY <2>3, ReaderFacts
<1>3. btree'[c].mode = "write" /\ btree'[c].auto = btree[c].auto
  <2> DEFINE s == Refresh(store[c])
             l == LoadCatalog(Reloaded(btree[c], store[c]), s.refs.work)
  <2>1. s.refs.work \in SUBSET Rows /\ file[path].refs.work \in SUBSET Rows
    BY <1>1, ReaderFacts, RefreshType, PathType DEF Inv, Store, Refs
  <2>2. /\ Reloaded(btree[c], store[c]) \in Btree
        /\ Reloaded(btree[c], store[c]).auto = btree[c].auto
    BY <1>1, <2>1, LoadKeeps, ReaderFacts DEF Reloaded
  <2>3. l \in Btree /\ l.auto = btree[c].auto
    BY <2>1, <2>2, LoadKeeps
  <2>4. btree' = [btree EXCEPT ![c] = [l EXCEPT !.mode = "write", !.base = s.refs.work]]
    BY DEF BeginWrite
  <2> HIDE DEF s, l
  <2> QED
    BY <2>3, <2>4 DEF Inv, TypeOK, Btree
<1>4. ~Committing(c)'
  BY InitialType DEF BeginWrite, Committing, Inv, TypeOK
<1>5. Writer(c)'
  BY ReadStep DEF Inv, SerialInv
<1>6. /\ btree'[c].cat = btree'[c].base \cup dirty[c] /\ btree'[c].base = Head.work
      /\ store'[c].refs = Head
  BY <1>1, <1>3, <1>4, <1>5 DEF Writer
<1>7. dirty[c] = {}
  BY <1>1, ReaderFacts
<1> QED
  BY <1>1, <1>2, <1>3, <1>6, <1>7

\* What is left of a step when it is not the connection's own
LEMMA OthersKeep ==
  ASSUME Inv, NEW c \in Conns, Transaction(c)
  PROVE  \A d \in Conns \ {c} : /\ btree'[d] = btree[d] /\ job'[d] = job[d]
                                /\ store'[d] = store[d]
  BY DEF Inv, TypeOK, Transaction, Session, Open, Close, Reuse, Begin, Read, EndRead,
         AskToWrite, BeginWrite, BeginBusy, BeginStale, Insert, Commit, Append, WriteRoot,
         Sync, Rollback, Crash

-----------------------------------------------------------------------------
(* What a reader sees.                                                     *)

\* The modes the other steps start from and lead to
LEMMA Modes ==
  ASSUME Inv, NEW c \in Conns
  PROVE  /\ Open(c) => btree[c].mode = "closed" /\ btree'[c].mode = "none" /\ btree'[c].auto
         /\ Close(c) \/ Crash(c) => btree'[c].mode = "closed" /\ btree'[c].auto
         /\ EndRead(c) \/ Rollback(c) => btree'[c].mode = "none" /\ btree'[c].auto
         /\ Begin(c) => btree'[c] = [btree[c] EXCEPT !.auto = FALSE] /\ btree[c].auto
         /\ Insert(c) => /\ btree[c].mode = "write" /\ btree'[c].mode = "write"
                         /\ btree'[c].auto = btree[c].auto
         /\ Rollback(c) \/ Commit(c) => btree[c].mode = "write"
         /\ WriteRoot(c) \/ Sync(c) \/ Crash(c) => btree[c].mode = "write" /\ Committing(c)
         /\ Sync(c) => btree'[c].mode = "none" /\ btree'[c].auto
         /\ Commit(c) \/ WriteRoot(c) \/ Reuse(c) \/ BeginBusy(c) \/ BeginStale(c)
              => btree' = btree
<1>1. btree[c] \in Btree /\ btree \in [Conns -> Btree]
  BY DEF Inv, TypeOK
<1>2. ASSUME Open(c)
      PROVE  btree[c].mode = "closed" /\ btree'[c].mode = "none" /\ btree'[c].auto
  <2> DEFINE n == [ClosedBtree EXCEPT !.mode = "none"]
  <2>1. n \in Btree /\ n.mode = "none" /\ n.auto
    BY DEF ClosedBtree, Btree
  <2>2. btree[c].mode = "closed" /\ btree'[c] = LoadCatalog(n, file[path].refs.work)
    BY <1>1, <1>2 DEF Open
  <2> HIDE DEF n
  <2> QED
    BY <2>1, <2>2, LoadKeeps, PathType DEF Inv
<1>3. Close(c) \/ Crash(c) => btree'[c].mode = "closed" /\ btree'[c].auto
  BY <1>1 DEF Close, Crash, ClosedBtree
<1>4. EndRead(c) \/ Rollback(c) => btree'[c].mode = "none" /\ btree'[c].auto
  <2>1. EndRead(c) => btree'[c] = [btree[c] EXCEPT !.mode = "none", !.auto = TRUE]
    BY <1>1 DEF EndRead
  <2>2. Rollback(c) => btree'[c] = [btree[c] EXCEPT !.mode = "none", !.auto = TRUE,
                                                     !.cat = btree[c].base]
    BY <1>1 DEF Rollback
  <2> QED
    BY <1>1, <2>1, <2>2 DEF Btree
<1>5. Begin(c) => btree'[c] = [btree[c] EXCEPT !.auto = FALSE] /\ btree[c].auto
  BY <1>1 DEF Begin
<1>6. Insert(c) => /\ btree[c].mode = "write" /\ btree'[c].mode = "write"
                   /\ btree'[c].auto = btree[c].auto
  BY <1>1 DEF Insert, Btree
<1>7. Rollback(c) \/ Commit(c) => btree[c].mode = "write"
  BY DEF Rollback, Commit
<1>8. WriteRoot(c) \/ Sync(c) \/ Crash(c) => btree[c].mode = "write" /\ Committing(c)
  BY DEF WriteRoot, Sync, Crash, Inv, SerialInv, Appender, Committing
<1>9. Sync(c) => btree'[c].mode = "none" /\ btree'[c].auto
  <2> SUFFICES ASSUME Sync(c) PROVE btree'[c].mode = "none" /\ btree'[c].auto
    OBVIOUS
  <2>1. job[c].kind = "txn"
    BY <1>8 DEF Inv, SerialInv, Appender
  <2> QED
    BY <1>1, <2>1 DEF Sync, Btree
<1>10. Commit(c) \/ WriteRoot(c) \/ Reuse(c) \/ BeginBusy(c) \/ BeginStale(c) => btree' = btree
  BY DEF Commit, WriteRoot, Reuse, BeginBusy, BeginStale
<1> QED
  BY <1>2, <1>3, <1>4, <1>5, <1>6, <1>7, <1>8, <1>9, <1>10

\* In every state a client has the rows its transaction inserted, and none of a
\* transaction that is over (prollyBtreeCommitPhaseTwo, prollyBtreeRollback).
THEOREM OwnRowsStay == Spec => []OwnRowsSeen
<1>1. SerialInv /\ TypeOK => OwnRowsSeen
  <2> SUFFICES ASSUME SerialInv, NEW c \in Conns PROVE dirty[c] \subseteq btree[c].cat
    BY DEF OwnRowsSeen
  <2> QED
    BY DEF SerialInv, StoreSide, Writer
<1> QED
  BY <1>1, Serial, PTL

\* The steps of a transaction that has read leave what it sees
LEMMA ReaderUndisturbed ==
  ASSUME Inv, NEW c \in Conns, Transaction(c), btree[c].mode = "read",
         btree'[c].mode \in {"read", "write"}, ~btree[c].auto
  PROVE  btree'[c].cat = btree[c].cat /\ store'[c].refs = store[c].refs
<1>1. store[c] \in Store /\ btree[c] \in Btree
  BY DEF Inv, TypeOK
<1>2. ~(Open(c) \/ Close(c) \/ Begin(c) \/ EndRead(c) \/ Insert(c) \/ Commit(c)
        \/ WriteRoot(c) \/ Sync(c) \/ Rollback(c) \/ Crash(c))
  BY <1>1, Modes
<1>3. ~Read(c)
  BY DEF Read
<1>4. CASE Reuse(c)
  BY <1>1, <1>4 DEF Reuse, Inv, TypeOK, Store
<1>5. CASE BeginBusy(c)
  BY <1>5 DEF BeginBusy
<1>6. CASE BeginStale(c)
  BY <1>1, <1>6 DEF BeginStale, Checked, Inv, TypeOK, Store
<1> QED
  BY <1>2, <1>3, <1>4, <1>5, <1>6, AskShows, WriteShows DEF Transaction, Session

\* Every first read sees the head
LEMMA FirstReadShows ==
  ASSUME Inv, NEW c \in Conns, Transaction(c), btree[c].mode = "none", btree'[c].mode = "read"
  PROVE  btree'[c].cat = Head.work
<1>1. ~(Open(c) \/ Close(c) \/ EndRead(c) \/ Insert(c) \/ Commit(c) \/ Reuse(c) \/ WriteRoot(c)
        \/ Sync(c) \/ Rollback(c) \/ Crash(c) \/ BeginBusy(c) \/ BeginStale(c))
  BY Modes
<1>2. ~Begin(c)
  <2>1. btree[c] \in Btree
    BY DEF Inv, TypeOK
  <2> QED
    BY <2>1, Modes DEF Btree
<1> QED
  BY <1>1, <1>2, AskShows, WriteShows, ReadShows DEF Transaction, Session

\* Whatever runs beside it, the first read of a transaction sees every commit
\* that is in the file (btreeRefreshFromDisk in prollyBtreeBeginTrans).
THEOREM ReadsAreFresh == Spec => FirstReadIsFresh
<1>1. Inv /\ [Next]_vars
        => [\A c \in Conns : btree[c].mode = "none" /\ btree'[c].mode = "read"
              => btree'[c].cat = Head.work]_vars
  <2> SUFFICES ASSUME Inv, Next, NEW c \in Conns, btree[c].mode = "none", btree'[c].mode = "read"
               PROVE  btree'[c].cat = Head.work
    OBVIOUS
  <2>1. PICK d \in Conns : Transaction(d)
    BY DEF Next
  <2> QED
    BY <2>1, OthersKeep, FirstReadShows
<1> QED
  BY <1>1, Serial, PTL DEF Spec, FirstReadIsFresh, Inv

\* Between BEGIN and its end a transaction that has read sees the same rows and
\* works on the same refs, whoever commits, and also when it becomes a write
\* transaction (snapshotPinned).
THEOREM SnapshotsHold == Spec => SnapshotIsStable
<1>1. Inv /\ [Next]_vars
        => [\A c \in Conns : /\ btree[c].mode = "read" /\ ~btree[c].auto
                             /\ btree'[c].mode \in {"read", "write"}
              => btree'[c].cat = btree[c].cat /\ store'[c].refs = store[c].refs]_vars
  <2> SUFFICES ASSUME Inv, Next, NEW c \in Conns, btree[c].mode = "read", ~btree[c].auto,
                      btree'[c].mode \in {"read", "write"}
               PROVE  btree'[c].cat = btree[c].cat /\ store'[c].refs = store[c].refs
    OBVIOUS
  <2>1. PICK d \in Conns : Transaction(d)
    BY DEF Next
  <2> QED
    BY <2>1, OthersKeep, ReaderUndisturbed
<1> QED
  BY <1>1, Serial, PTL DEF Spec, SnapshotIsStable, Inv

-----------------------------------------------------------------------------
(* The refinement.                                                         *)

\* What a connection's transaction is to the client
AbstractView(c) == IF InTransaction(c) THEN btree[c].cat ELSE {}

\* AtomicStore begins where ChunkStore does
LEMMA AtomicInit == Init => Atomic!Init
<1> SUFFICES ASSUME Init PROVE Atomic!Init
  OBVIOUS
<1>1. Head.work = {}
  BY BoundsAssumption DEF Init, Head, Inodes, EmptyFile, NoRefs
<1>2. \A c \in Conns : AbstractMode(c) = "none" /\ btree[c].auto /\ ~InTransaction(c)
  BY DEF Init, AbstractMode, InTransaction, ClosedBtree, IdleJob
<1> QED
  BY <1>1, <1>2 DEF Atomic!Init

\* The abstract mode of a connection that does not end a commit
LEMMA ModeIs ==
  ASSUME NEW c \in Conns
  PROVE  /\ job[c].step = "root" => AbstractMode(c) = "done"
         /\ job[c].step # "root" /\ InTransaction(c) => AbstractMode(c) = btree[c].mode
         /\ job[c].step # "root" /\ ~InTransaction(c) => AbstractMode(c) = "none"
         /\ job'[c].step = "root" => AbstractMode(c)' = "done"
         /\ job'[c].step # "root" /\ InTransaction(c)' => AbstractMode(c)' = btree'[c].mode
         /\ job'[c].step # "root" /\ ~InTransaction(c)' => AbstractMode(c)' = "none"
  BY DEF AbstractMode

\* A step of c changes the transaction of c only
LEMMA MapStep ==
  ASSUME Inv, NEW c \in Conns, \A d \in Conns \ {c} : btree'[d] = btree[d] /\ job'[d] = job[d]
  PROVE  /\ [d \in Conns |-> AbstractMode(d)]'
              = [[d \in Conns |-> AbstractMode(d)] EXCEPT ![c] = AbstractMode(c)']
         /\ [d \in Conns |-> IF InTransaction(d) THEN btree[d].cat ELSE {}]'
              = [[d \in Conns |-> IF InTransaction(d) THEN btree[d].cat ELSE {}]
                   EXCEPT ![c] = AbstractView(c)']
         /\ AbstractMode(c)' = AbstractMode(c)
              => UNCHANGED [d \in Conns |-> AbstractMode(d)]
         /\ AbstractView(c)' = AbstractView(c)
              => UNCHANGED [d \in Conns |-> IF InTransaction(d) THEN btree[d].cat ELSE {}]
  BY DEF AbstractMode, InTransaction, AbstractView

\* ... and whether it was given BEGIN
LEMMA MapHeld ==
  ASSUME Inv, NEW c \in Conns, \A d \in Conns \ {c} : btree'[d] = btree[d] /\ job'[d] = job[d]
  PROVE  /\ btree'[c].auto
              => [d \in Conns |-> ~btree[d].auto]'
                   = [[d \in Conns |-> ~btree[d].auto] EXCEPT ![c] = FALSE]
         /\ ~btree'[c].auto
              => [d \in Conns |-> ~btree[d].auto]'
                   = [[d \in Conns |-> ~btree[d].auto] EXCEPT ![c] = TRUE]
         /\ btree'[c].auto = btree[c].auto
              => UNCHANGED [d \in Conns |-> ~btree[d].auto]
  BY DEF Inv, TypeOK, Btree

\* Only the root record changes the refs in the file
LEMMA HeadKept ==
  ASSUME Inv, NEW c \in Conns, Transaction(c), ~WriteRoot(c)
  PROVE  Head' = Head
<1>1. CASE Commit(c)
  <2>1. path' = path
    BY <1>1 DEF Commit
  <2>2. PICK i \in Inodes \cup {0}, n \in Nat : i # 0 /\ file' = [file EXCEPT ![i].size = @ + n]
    <3> DEFINE s == [store[c] EXCEPT !.refs.work = btree[c].cat]
    <3>1. s \in Store
      <4>1. store[c] \in Store /\ btree[c] \in Btree
        BY DEF Inv, TypeOK
      <4> QED
        BY <4>1 DEF Store, Btree, Refs
    <3>2. PICK n \in Staged(s) :
            LET t == [Landed(s, n) EXCEPT !.lock = IF s.lock = 0 THEN job[c].inode ELSE s.lock]
            IN t.fd # 0 /\ file' = [file EXCEPT ![t.fd].size = @ + n]
      BY <1>1 DEF Commit, Append
    <3> HIDE DEF s
    <3>3. n \in Nat
      BY <3>2, BoundsAssumption DEF Staged
    <3>4. Landed(s, n) \in Store
      BY <3>1, <3>3, LandedType DEF Inv
    <3> QED
      BY <3>2, <3>3, <3>4 DEF Store
  <2> QED
    BY <2>1, <2>2, PathType DEF Inv, Head, TypeOK, File
<1>2. CASE ~Commit(c)
  BY <1>2 DEF Transaction, Session, Open, Close, Reuse, Begin, Read, EndRead, AskToWrite,
              BeginWrite, BeginBusy, BeginStale, Insert, Sync, Rollback, Crash, Head, disk
<1> QED
  BY <1>1, <1>2

\* Only between the root record and its sync is a commit installed and not over
LEMMA Steps ==
  ASSUME Inv, NEW c \in Conns
  PROVE  /\ Open(c) \/ Close(c) \/ EndRead(c) \/ Rollback(c) \/ Sync(c) \/ Crash(c)
              => job'[c].step # "root"
         /\ Begin(c) \/ Read(c) \/ Insert(c) \/ AskToWrite(c) \/ BeginWrite(c)
              \/ BeginBusy(c) \/ BeginStale(c) \/ Commit(c)
              => job[c].step # "root" /\ job'[c].step # "root"
         /\ Reuse(c) => job'[c].step = job[c].step
         /\ WriteRoot(c) => job[c].step = "append" /\ job'[c].step = "root"
<1>1. job[c] \in Job /\ job \in [Conns -> Job] /\ IdleJob.step = "idle"
      /\ Asking("begin").step = "begin"
  BY InitialType DEF Inv, TypeOK
<1>2. Open(c) => job'[c].step # "root"
  BY DEF Open, Inv, FileInv
<1>3. Close(c) \/ Sync(c) \/ Crash(c) => job'[c].step # "root"
  BY <1>1 DEF Close, Sync, Crash
<1>4. EndRead(c) \/ Rollback(c) => job'[c].step # "root"
  BY DEF EndRead, Rollback, Idle
<1>5. Begin(c) \/ Read(c) \/ Insert(c) => job[c].step # "root" /\ job'[c].step # "root"
  BY DEF Begin, Read, Insert, Idle
<1>6. AskToWrite(c) \/ BeginWrite(c) \/ BeginBusy(c) \/ BeginStale(c)
        => job[c].step # "root" /\ job'[c].step # "root"
  BY <1>1 DEF AskToWrite, BeginWrite, BeginBusy, BeginStale, Idle
<1>7. Commit(c) => job[c].step # "root" /\ job'[c].step # "root"
  BY <1>1 DEF Commit, HasOrGetsLock, Idle, Append
<1>8. Reuse(c) => job'[c].step = job[c].step
  BY DEF Reuse
<1>9. WriteRoot(c) => job[c].step = "append" /\ job'[c].step = "root"
  BY <1>1 DEF WriteRoot, Job
<1> QED
  BY <1>2, <1>3, <1>4, <1>5, <1>6, <1>7, <1>8, <1>9

\* The end of a transaction, acknowledged, rolled back or abandoned
LEMMA EndMaps ==
  ASSUME Inv, NEW c \in Conns, Transaction(c),
         Open(c) \/ Close(c) \/ EndRead(c) \/ Rollback(c) \/ Sync(c) \/ Crash(c)
  PROVE  Atomic!End(c)
<1>1. btree'[c].mode \in {"none", "closed"} /\ btree'[c].auto
  BY Modes
<1>2. job'[c].step # "root"
  BY Steps
<1>3. AbstractMode(c)' = "none" /\ AbstractView(c)' = {}
  BY <1>1, <1>2, ModeIs DEF InTransaction, AbstractView
<1>4. Head' = Head
  <2>1. ~WriteRoot(c)
    BY Steps, Modes DEF Open, Close, EndRead, Rollback, Sync, Crash, WriteRoot, Idle, Committing
  <2> QED
    BY <2>1, HeadKept
<1> QED
  BY <1>1, <1>3, <1>4, OthersKeep, MapStep, MapHeld DEF Atomic!End

\* Beginning, reading and writing
LEMMA HoldMaps ==
  ASSUME Inv, NEW c \in Conns, Transaction(c), Begin(c)
  PROVE  Atomic!Hold(c)
<1>1. /\ btree[c] \in Btree /\ btree[c].mode \in {"none", "read"}
      /\ btree'[c] = [btree[c] EXCEPT !.auto = FALSE]
  BY Modes DEF Begin, Inv, TypeOK
<1>2. /\ btree'[c].mode = btree[c].mode /\ btree'[c].cat = btree[c].cat /\ ~btree'[c].auto
  BY <1>1 DEF Btree
<1>3. job[c].step # "root" /\ job'[c].step # "root"
  BY Steps
<1>4. /\ AbstractMode(c) \in {"none", "read"} /\ AbstractMode(c)' = AbstractMode(c)
      /\ AbstractView(c)' = AbstractView(c)
  <2>1. AbstractView(c)' = AbstractView(c) /\ (InTransaction(c)' <=> InTransaction(c))
    BY <1>2 DEF InTransaction, AbstractView
  <2>2. btree[c].mode \in {"none", "read"} /\ (InTransaction(c) <=> btree[c].mode = "read")
    BY <1>1 DEF InTransaction
  <2> QED
    BY <1>2, <1>3, <2>1, <2>2, ModeIs
<1>5. Head' = Head
  <2>1. ~WriteRoot(c)
    BY <1>3, Steps
  <2> QED
    BY <2>1, HeadKept
<1> QED
  BY <1>2, <1>4, <1>5, OthersKeep, MapStep, MapHeld DEF Atomic!Hold

LEMMA ReadMaps ==
  ASSUME Inv, NEW c \in Conns, Transaction(c), Read(c)
  PROVE  Atomic!Read(c)
<1>1. /\ btree[c].mode = "none" \/ (btree[c].mode = "read" /\ btree[c].auto)
      /\ btree'[c].mode = "read" /\ btree'[c].cat = Head.work
      /\ btree'[c].auto = btree[c].auto
  BY ReadShows DEF Read
<1>2. job[c].step # "root" /\ job'[c].step # "root"
  BY Steps
<1>3. /\ AbstractMode(c) = "none" \/ (AbstractMode(c) = "read" /\ btree[c].auto)
      /\ AbstractMode(c)' = "read" /\ AbstractView(c)' = Head.work
  BY <1>1, <1>2, ModeIs DEF InTransaction, AbstractView
<1>4. Head' = Head
  <2>1. ~WriteRoot(c)
    BY <1>2, Steps
  <2> QED
    BY <2>1, HeadKept
<1> QED
  BY <1>1, <1>3, <1>4, OthersKeep, MapStep, MapHeld DEF Atomic!Read

LEMMA WriteMaps ==
  ASSUME Inv, NEW c \in Conns, Transaction(c), BeginWrite(c)
  PROVE  Atomic!Write(c)
<1>1. /\ btree[c].mode \in {"none", "read"}
      /\ btree[c].mode = "read" => btree[c].cat = Head.work
      /\ btree'[c].mode = "write" /\ btree'[c].cat = Head.work
      /\ btree'[c].auto = btree[c].auto
  BY WriteShows
<1>2. job[c].step # "root" /\ job'[c].step # "root"
  BY Steps
<1>3. /\ AbstractMode(c) = "none" \/ (AbstractMode(c) = "read" /\ AbstractView(c) = Head.work)
      /\ AbstractMode(c)' = "write" /\ AbstractView(c)' = Head.work
  BY <1>1, <1>2, ModeIs DEF InTransaction, AbstractView
<1>4. \A d \in Conns : AbstractMode(d) \notin {"write", "done"}
  <2> SUFFICES ASSUME NEW d \in Conns \ {c} PROVE AbstractMode(d) \notin {"write", "done"}
    BY <1>3
  <2>1. store[d].lock # path
    BY LockExcludes DEF Inv, BeginWrite, Exclusive
  <2>2. path = 1 /\ StoreSide(d)
    BY DEF Inv, SerialInv, FileSide
  <2>3. btree[d].mode # "write" /\ job[d].step # "root"
    BY <2>1, <2>2 DEF StoreSide, Inv, LockInv, Committing
  <2> QED
    BY <2>3, ModeIs DEF InTransaction
<1>5. Head' = Head
  <2>1. ~WriteRoot(c)
    BY <1>2, Steps
  <2> QED
    BY <2>1, HeadKept
<1> QED
  BY <1>1, <1>3, <1>4, <1>5, OthersKeep, MapStep, MapHeld DEF Atomic!Write, AbstractView

LEMMA EditMaps ==
  ASSUME Inv, NEW c \in Conns, Transaction(c), Insert(c)
  PROVE  Atomic!Edit(c)
<1>1. /\ btree[c].mode = "write" /\ btree'[c].mode = "write" /\ btree'[c].auto = btree[c].auto
      /\ btree'[c].cat \in SUBSET Rows
  <2>1. btree'[c] \in Btree
    BY TypeStep DEF Inv, TypeOK, AllNext, SteadyNext
  <2> QED
    BY <2>1, Modes DEF Btree
<1>2. job[c].step # "root" /\ job'[c].step # "root"
  BY Steps
<1>3. /\ AbstractMode(c) = "write" /\ AbstractMode(c)' = "write"
      /\ AbstractView(c)' \in SUBSET Rows
  BY <1>1, <1>2, ModeIs DEF InTransaction, AbstractView
<1>4. Head' = Head
  <2>1. ~WriteRoot(c)
    BY <1>2, Steps
  <2> QED
    BY <2>1, HeadKept
<1> QED
  BY <1>1, <1>3, <1>4, OthersKeep, MapStep, MapHeld DEF Atomic!Edit

\* The root record is the instant of the commit
LEMMA InstallMaps ==
  ASSUME Inv, NEW c \in Conns, Transaction(c), WriteRoot(c)
  PROVE  Atomic!Install(c)
<1>1. btree[c].mode = "write" /\ btree' = btree
  BY Modes
<1>2. job[c].step # "root" /\ job'[c].step = "root"
  BY Steps
<1>3. Head'.work = btree[c].cat
  <2>1. Committing(c) /\ path = 1 /\ path' = path /\ 1 \in Inodes
    BY Modes, PathType DEF WriteRoot, Inv, SerialInv, FileSide
  <2>2. store[c].fd = 1 /\ store[c].refs = [truth EXCEPT !.work = btree[c].cat] /\ truth \in Refs
    BY <2>1 DEF Inv, SerialInv, Appender, TypeOK
  <2>3. file'[1].refs = store[c].refs
    BY <2>1, <2>2 DEF WriteRoot, Inv, TypeOK
  <2> QED
    BY <2>1, <2>2, <2>3 DEF Head, Refs
<1>4. /\ AbstractMode(c) = "write" /\ AbstractMode(c)' = "done"
      /\ AbstractView(c)' = AbstractView(c) /\ AbstractView(c) = Head'.work
  BY <1>1, <1>2, <1>3, ModeIs DEF InTransaction, AbstractView
<1> QED
  BY <1>1, <1>4, OthersKeep, MapStep, MapHeld DEF Atomic!Install, AbstractView

\* What the client does not see
LEMMA Unseen ==
  ASSUME Inv, NEW c \in Conns, Transaction(c),
         Reuse(c) \/ AskToWrite(c) \/ BeginBusy(c) \/ BeginStale(c) \/ Commit(c)
  PROVE  UNCHANGED Atomic!vars
<1>1. /\ btree'[c].mode = btree[c].mode /\ btree'[c].auto = btree[c].auto
      /\ InTransaction(c) => btree'[c].cat = btree[c].cat
  BY Modes, AskShows DEF AskToWrite, InTransaction
<1>2. job'[c].step = "root" <=> job[c].step = "root"
  BY Steps
<1>3. /\ AbstractMode(c)' = AbstractMode(c) /\ AbstractView(c)' = AbstractView(c)
  BY <1>1, <1>2, ModeIs DEF InTransaction, AbstractView
<1>4. Head' = Head
  <2>1. ~WriteRoot(c)
    BY Steps DEF Reuse, WriteRoot
  <2> QED
    BY <2>1, HeadKept
<1> QED
  BY <1>1, <1>3, <1>4, OthersKeep, MapStep, MapHeld DEF Atomic!vars

\* For any connections, what SQL transactions over the shared file do, with
\* connections that come, go and crash, is what transactions do on one catalog
\* that is read and replaced at single instants: the write of the root record
\* is that instant for a commit (csCommitToFile).
THEOREM TransactionsAreAtomic == Spec => ImplementsAtomicStore
<1>1. Inv /\ [Next]_vars => [Atomic!Next]_(Atomic!vars)
  <2> SUFFICES ASSUME Inv, [Next]_vars PROVE [Atomic!Next]_(Atomic!vars)
    OBVIOUS
  <2>1. CASE UNCHANGED vars
    BY <2>1 DEF vars, Atomic!vars, Head, AbstractMode, InTransaction
  <2>2. CASE Next
    <3>1. PICK c \in Conns : Transaction(c)
      BY <2>2 DEF Next
    <3> QED
      BY <3>1, EndMaps, HoldMaps, ReadMaps, WriteMaps, EditMaps, InstallMaps, Unseen
         DEF Transaction, Session, Atomic!Next
  <2> QED
    BY <2>1, <2>2
<1> QED
  BY <1>1, AtomicInit, Serial, PTL DEF Spec, ImplementsAtomicStore, Atomic!Spec, Inv

=============================================================================
