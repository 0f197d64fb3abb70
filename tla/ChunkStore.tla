----------------------------- MODULE ChunkStore -----------------------------
(***************************************************************************)
(* Several SQLite connections of one or more processes share a DoltLite    *)
(* database file.  Each connection owns a ChunkStore (chunk_store.c) and a *)
(* Btree (prolly_btree.c).  The file is an append-only log that dolt_gc    *)
(* replaces by rename; flock on the path serialises writers, and a         *)
(* connection notices the others only by an inode that changed or a file   *)
(* that grew.  This module is that protocol.                               *)
(*                                                                         *)
(* Data.  The refs blob is a record of the branch's working catalog (the   *)
(* set of rows it holds; equal sets have equal hashes, as in a content     *)
(* addressed tree) and of the other refs (a set of tags).  The empty       *)
(* catalog stands for the empty hash, so the last row, which stands for    *)
(* the schema, is never deleted.  A file is its size, the refs of its last *)
(* root record and the refs blobs it holds, the latest and older ones: a   *)
(* blob is stored once, however often the database returns to it.  What    *)
(* the bytes are is module ChunkLog.                                       *)
(***************************************************************************)
EXTENDS Integers, FiniteSets

CONSTANTS Conns,      \* connections
          Rows,       \* rows a client may write
          Tags,       \* what refs hold besides the working catalog: tags,
                      \* branches, the staged catalog
          MaxFiles,   \* bound: inodes the database path may go through
          MaxSize,    \* bound: size of a file
          MaxAppend   \* bound: size of the chunk records of one commit

ASSUME BoundsAssumption == /\ MaxFiles \in Nat \ {0}
                           /\ MaxSize \in Nat
                           /\ MaxAppend \in Nat \ {0}

VARIABLES path,    \* inode the database path names
          files,   \* inodes used so far
          file,    \* inode -> size, refs of its last root record, refs blobs
          store,   \* connection -> its ChunkStore
          btree,   \* connection -> its Btree
          job,     \* connection -> how far it is in locking or committing
          truth,   \* history: refs after every acknowledged commit, in order
          dirty    \* history: rows the open transaction has written

disk == <<path, files, file>>
ghost == <<truth, dirty>>
vars == <<path, files, file, store, btree, job, truth, dirty>>

NoRefs == [work |-> {}, tags |-> {}]
Refs == [work : SUBSET Rows, tags : SUBSET Tags]
File == [size : Nat, refs : Refs, blobs : SUBSET Refs]
Inodes == 1..MaxFiles

\* lock is the inode flocked through graphLockFd, 0 when it is not held; moved
\* is hasMovedChecked; blobs are the refs blobs in the chunk index.  zPath is
\* the name the open file goes by in unixFile: its own string, a string that
\* has been freed, or what the allocator made of that memory since
Store == [fd : Inodes \cup {0}, seen : Nat, moved : BOOLEAN, refs : Refs,
          committed : Refs, pinned : BOOLEAN, lock : Inodes \cup {0},
          zPath : {"own", "freed", "reused"}, blobs : SUBSET Refs]

Btree == [mode : {"closed", "none", "read", "write"}, auto : BOOLEAN,
          cat : SUBSET Rows, base : SUBSET Rows]

\* inode is the file csFileLockNB has opened and not yet flocked
Job == [step : {"idle", "begin", "lock", "append", "root"}, inode : Inodes \cup {0},
        kind : {"txn", "refs", "rollback"}, undo : File,
        adds : SUBSET Tags, drops : SUBSET Tags]

EmptyFile == [size |-> 0, refs |-> NoRefs, blobs |-> {}]
ClosedStore == [fd |-> 0, seen |-> 0, moved |-> FALSE, refs |-> NoRefs,
                committed |-> NoRefs, pinned |-> FALSE, lock |-> 0,
                zPath |-> "own", blobs |-> {}]
ClosedBtree == [mode |-> "closed", auto |-> TRUE, cat |-> {}, base |-> {}]
IdleJob == [step |-> "idle", inode |-> 0, kind |-> "txn", undo |-> EmptyFile,
            adds |-> {}, drops |-> {}]

TypeOK == /\ path \in Inodes
          /\ files \in Inodes
          /\ file \in [Inodes -> File]
          /\ store \in [Conns -> Store]
          /\ btree \in [Conns -> Btree]
          /\ job \in [Conns -> Job]
          /\ truth \in Refs
          /\ dirty \in [Conns -> SUBSET Rows]

Init == /\ path = 1
        /\ files = 1
        /\ file = [i \in Inodes |-> EmptyFile]
        /\ store = [c \in Conns |-> ClosedStore]
        /\ btree = [c \in Conns |-> ClosedBtree]
        /\ job = [c \in Conns |-> IdleJob]
        /\ truth = NoRefs
        /\ dirty = [c \in Conns |-> {}]

-----------------------------------------------------------------------------
(* The ChunkStore's view of the file.  s is a store[c].                    *)

\* mutant: iFileSize one byte short
ReloadShort(s) ==
  [s EXCEPT !.fd = IF file[path].size = 0 THEN 0 ELSE path,
            !.seen = file[path].size - 1,
            !.refs = file[path].refs,
            !.committed = file[path].refs,
            !.blobs = file[path].blobs,
            !.zPath = "freed",
            !.moved = FALSE]

\* csReloadFromDisk: reopen the path; a file of size 0 counts as absent.  The
\* open file is taken over from a temporary ChunkStore, whose name for the file
\* is freed although unixFile still points to it
Reload(s) ==
  [s EXCEPT !.fd = IF file[path].size = 0 THEN 0 ELSE path,
            !.seen = file[path].size,
            !.refs = file[path].refs,
            !.committed = file[path].refs,
            !.blobs = file[path].blobs,
            !.zPath = "freed",
            !.moved = FALSE]

\* chunkStoreOpen by a connection that opens the database
Opened == [Reload(ClosedStore) EXCEPT !.zPath = "own"]

\* csReloadFromDiskPreservingLocalRefs: refs that are about to be committed
\* survive if n, the size of the staged chunks, is not 0
ReloadKeepingRefs(s, n) ==
  IF s.refs = s.committed \/ n = 0 THEN Reload(s) ELSE [Reload(s) EXCEPT !.refs = s.refs]

\* fileHasMoved: the name does not lead to the file that is open
HasMoved(s) == path # s.fd \/ s.zPath = "reused"
Moved(s) == s.fd # 0 /\ ~s.moved /\ HasMoved(s)

\* csDetectExternalChanges: its answer, and the flag it leaves behind
Changed(s) == IF s.fd = 0 THEN file[path].size > 0
                          ELSE Moved(s) \/ file[s.fd].size > s.seen
Checked(s) == [s EXCEPT !.moved = (s.fd # 0 /\ ~Moved(s))]

\* mutants: only a replaced file is noticed; the snapshot pin is ignored
RefreshIfMoved(s) == IF s.pinned THEN s ELSE IF Moved(s) THEN Reload(s) ELSE Checked(s)
RefreshUnderPin(s) == IF Changed(s) THEN Reload(s) ELSE Checked(s)

\* chunkStoreRefreshIfChanged
Refresh(s) == IF s.pinned THEN s
              ELSE IF Changed(s) THEN Reload(s) ELSE Checked(s)

\* mutant: a shared flock
LockShared(c) == TRUE

\* csFileLockNB opens the path and flocks what it opened, which dolt_gc may
\* have replaced in between
LockFree(c) == \A d \in Conns \ {c} : store[d].lock # job[c].inode

\* mutant: the catalog of the Btree is never loaded again
LoadNothing(b, work) == IF b.cat = {} THEN [b EXCEPT !.cat = work] ELSE b

\* btreeReloadBranchWorkingState: a catalog is loaded when its hash is not
\* the one this Btree last committed or began a write transaction from
LoadCatalog(b, work) ==
  IF work = {} \/ work = b.base THEN b ELSE [b EXCEPT !.cat = work]

\* btreeRefreshFromDisk, the Btree's part
Reloaded(b, s) ==
  IF ~s.pinned /\ Changed(s) THEN LoadCatalog(b, file[path].refs.work) ELSE b

\* mutant: the snapshot outlives its transaction
StillPinned(s) == s

Unpinned(s) == [s EXCEPT !.pinned = FALSE]
Idle(c) == btree[c].mode # "closed" /\ job[c].step = "idle"
Committing(c) == job[c].step \in {"append", "root"}
Asking(step) == [IdleJob EXCEPT !.step = step, !.inode = path]

-----------------------------------------------------------------------------
(* Connections and transactions.                                           *)

Open(c) ==
  /\ btree[c].mode = "closed"
  /\ store' = [store EXCEPT ![c] = Opened]
  /\ btree' = [btree EXCEPT ![c] =
                 LoadCatalog([ClosedBtree EXCEPT !.mode = "none"], file[path].refs.work)]
  /\ UNCHANGED <<path, files, file, job, truth, dirty>>

\* malloc hands out the memory of the freed name.  Left out once the flag is
\* set, when nothing reads the name before the next reload
Reuse(c) ==
  /\ store[c].zPath = "freed"
  /\ ~store[c].moved
  /\ store' = [store EXCEPT ![c].zPath = "reused"]
  /\ UNCHANGED <<path, files, file, btree, job, truth, dirty>>

\* sqlite3_close, or the end of the process outside a commit: flock goes with it
Close(c) ==
  /\ btree[c].mode # "closed"
  /\ ~Committing(c)
  /\ store' = [store EXCEPT ![c] = ClosedStore]
  /\ btree' = [btree EXCEPT ![c] = ClosedBtree]
  /\ job' = [job EXCEPT ![c] = IdleJob]
  /\ dirty' = [dirty EXCEPT ![c] = {}]
  /\ UNCHANGED <<path, files, file, truth>>

\* BEGIN only clears autocommit
Begin(c) ==
  /\ Idle(c)
  /\ btree[c].mode \in {"none", "read"}
  /\ btree[c].auto
  /\ btree' = [btree EXCEPT ![c].auto = FALSE]
  /\ UNCHANGED <<path, files, file, store, job, truth, dirty>>

\* A statement starts reading, or, in autocommit, opens one more cursor
Read(c) ==
  LET s == store[c] IN
  /\ Idle(c)
  /\ \/ btree[c].mode = "none"
     \/ btree[c].mode = "read" /\ btree[c].auto
  /\ store' = [store EXCEPT ![c] = [Refresh(Unpinned(s)) EXCEPT !.pinned = TRUE]]
  /\ btree' = [btree EXCEPT ![c] = [Reloaded(@, Unpinned(s)) EXCEPT !.mode = "read"]]
  /\ UNCHANGED <<path, files, file, job, truth, dirty>>

\* COMMIT or ROLLBACK without a write transaction, and the end of an
\* autocommit read
EndRead(c) ==
  /\ Idle(c)
  /\ btree[c].mode = "read" \/ (btree[c].mode = "none" /\ ~btree[c].auto)
  /\ store' = [store EXCEPT ![c] = [Unpinned(@) EXCEPT !.lock = 0]]
  /\ btree' = [btree EXCEPT ![c] = [@ EXCEPT !.mode = "none", !.auto = TRUE]]
  /\ dirty' = [dirty EXCEPT ![c] = {}]
  /\ UNCHANGED <<path, files, file, job, truth>>

\* SQLITE_BUSY_SNAPSHOT unless the snapshot is the latest; mutant: never
AnySnapshot(c, s) == TRUE
IsLatest(c, s) == btree[c].mode = "read" => ~Changed(s)
Compared(c, s) == IF btree[c].mode = "read" THEN Checked(s) ELSE s

\* sqlite3BtreeBeginTrans(p, 1) refreshes, then asks for the lock
AskToWrite(c) ==
  /\ Idle(c)
  /\ btree[c].mode \in {"none", "read"}
  /\ store' = [store EXCEPT ![c] = Refresh(@)]
  /\ btree' = [btree EXCEPT ![c] = Reloaded(@, store[c])]
  /\ job' = [job EXCEPT ![c] = Asking("begin")]
  /\ UNCHANGED <<path, files, file, truth, dirty>>

\* ... and under the lock refreshes again and takes the latest refs
BeginWrite(c) ==
  LET s == Refresh(store[c])
      b == Reloaded(btree[c], store[c]) IN
  /\ job[c].step = "begin"
  /\ LockFree(c)
  /\ IsLatest(c, s)
  /\ store' = [store EXCEPT ![c] =
                 [Compared(c, s) EXCEPT !.lock = job[c].inode, !.pinned = TRUE]]
  /\ btree' = [btree EXCEPT ![c] =
                 [LoadCatalog(b, s.refs.work) EXCEPT !.mode = "write",
                                                     !.base = s.refs.work]]
  /\ job' = [job EXCEPT ![c] = IdleJob]
  /\ UNCHANGED <<path, files, file, truth, dirty>>

\* SQLITE_BUSY: another connection holds the lock
BeginBusy(c) ==
  /\ job[c].step = "begin"
  /\ ~LockFree(c)
  /\ job' = [job EXCEPT ![c] = IdleJob]
  /\ UNCHANGED <<path, files, file, store, btree, truth, dirty>>

\* SQLITE_BUSY_SNAPSHOT: the read snapshot is not the latest
BeginStale(c) ==
  /\ job[c].step = "begin"
  /\ btree[c].mode = "read"
  /\ LockFree(c)
  /\ Changed(store[c])
  /\ store' = [store EXCEPT ![c] = Checked(@)]
  /\ job' = [job EXCEPT ![c] = IdleJob]
  /\ UNCHANGED <<path, files, file, btree, truth, dirty>>

Insert(c) ==
  /\ Idle(c)
  /\ btree[c].mode = "write"
  /\ \E r \in Rows \ btree[c].cat :
       /\ btree' = [btree EXCEPT ![c].cat = @ \cup {r}]
       /\ dirty' = [dirty EXCEPT ![c] = @ \cup {r}]
  /\ UNCHANGED <<path, files, file, store, job, truth>>

Delete(c) ==
  /\ Idle(c)
  /\ btree[c].mode = "write"
  /\ \E r \in btree[c].cat :
       /\ btree[c].cat # {r}
       /\ btree' = [btree EXCEPT ![c].cat = @ \ {r}]
       /\ dirty' = [dirty EXCEPT ![c] = @ \cup {r}]
  /\ UNCHANGED <<path, files, file, store, job, truth>>

-----------------------------------------------------------------------------
(* chunkStoreCommit: append the chunks, append the root record, sync.      *)

\* csCommitToFile before it appends: open a missing file, or notice that the
\* file was replaced (asked once per reload) or has grown
Landed(s, n) ==
  LET m == IF s.moved THEN s
           ELSE [(IF HasMoved(s) THEN ReloadKeepingRefs(s, n) ELSE s) EXCEPT !.moved = TRUE]
  IN IF s.fd = 0 THEN [s EXCEPT !.fd = path, !.zPath = "own"]
     ELSE IF m.fd # 0 /\ file[m.fd].size > m.seen THEN ReloadKeepingRefs(m, n) ELSE m

\* The sizes the chunks staged for a commit may have: the refs blob is one of
\* them if it changed and the store does not hold it already
Staged(s) == CASE s.refs = s.committed -> {0}
               [] s.refs # s.committed /\ s.refs \in s.blobs -> 0..MaxAppend
               [] OTHER -> 1..MaxAppend

\* s is the store with the refs to commit; the lock is taken if it is not held.
\* A reload that finds the path empty leaves no file to append to (pFile is
\* null) and ends the process, which Close is
Append(c, s, kind, adds, drops) ==
  \E n \in Staged(s) :
    LET t == [Landed(s, n) EXCEPT !.lock = IF s.lock = 0 THEN job[c].inode ELSE s.lock] IN
    /\ t.fd # 0
    /\ file[t.fd].size + n < MaxSize
    /\ file' = [file EXCEPT ![t.fd].size = @ + n]
    /\ store' = [store EXCEPT ![c] = t]
    /\ job' = [job EXCEPT ![c] = [step |-> "append", kind |-> kind,
                                  inode |-> 0, undo |-> file[t.fd],
                                  adds |-> adds, drops |-> drops]]

\* mutant: whoever has the lock
NeedsNoLock(c) == Idle(c) \/ job[c].step = "lock"

\* An operation that needs the lock and has it, or has asked for it and gets it
HasOrGetsLock(c) == \/ Idle(c) /\ store[c].lock # 0
                    \/ job[c].step = "lock" /\ LockFree(c)

\* COMMIT of a write transaction: prollyBtreeCommitPhaseTwo up to the append
Commit(c) ==
  /\ btree[c].mode = "write"
  /\ HasOrGetsLock(c)
  /\ Append(c, [store[c] EXCEPT !.refs.work = btree[c].cat], "txn", {}, {})
  /\ UNCHANGED <<path, files, btree, truth, dirty>>

WriteRoot(c) ==
  LET s == store[c] IN
  /\ job[c].step = "append"
  /\ file' = [file EXCEPT ![s.fd] = [size |-> @.size + 1, refs |-> s.refs,
                                     blobs |-> @.blobs \cup {s.refs}]]
  /\ job' = [job EXCEPT ![c].step = "root"]
  /\ UNCHANGED <<path, files, store, btree, truth, dirty>>

\* What has been acknowledged once the commit of c is: its rows on top of all
\* earlier ones, or the ref it added or deleted
Acknowledged(c) ==
  [work |-> IF job[c].kind = "refs" THEN truth.work
            ELSE (truth.work \ dirty[c]) \cup (btree[c].cat \cap dirty[c]),
   tags |-> (truth.tags \cup job[c].adds) \ job[c].drops]

Sync(c) ==
  LET s == store[c]
      ended == job[c].kind # "refs" IN
  /\ job[c].step = "root"
  /\ store' = [store EXCEPT ![c] =
                 [s EXCEPT !.seen = file[s.fd].size, !.committed = s.refs,
                           !.blobs = @ \cup {s.refs}, !.lock = 0, !.pinned = s.pinned /\ ~ended]]
  /\ btree' = [btree EXCEPT ![c] =
                 IF ended THEN [@ EXCEPT !.mode = "none", !.auto = TRUE, !.base = s.refs.work]
                          ELSE @]
  /\ job' = [job EXCEPT ![c] = IdleJob]
  /\ dirty' = [dirty EXCEPT ![c] = IF ended THEN {} ELSE @]
  /\ truth' = Acknowledged(c)
  /\ UNCHANGED disk

\* The lock was lost and another connection has it: COMMIT fails and the Btree
\* rolls back in memory (restoreFromCommitted), but SQLite takes a COMMIT that
\* is busy for one that can be tried again: an explicit transaction stays open
CommitBusy(c) ==
  /\ btree[c].mode = "write"
  /\ job[c].step = "lock"
  /\ ~LockFree(c)
  /\ store' = [store EXCEPT ![c] = [Unpinned(@) EXCEPT !.refs = store[c].committed]]
  /\ btree' = [btree EXCEPT ![c] = [@ EXCEPT !.mode = "none", !.cat = btree[c].base]]
  /\ dirty' = [dirty EXCEPT ![c] = IF btree[c].auto THEN {} ELSE @]
  /\ job' = [job EXCEPT ![c] = IdleJob]
  /\ UNCHANGED <<path, files, file, truth>>

\* prollyBtreeRollback: nothing is written when the restored catalog is the
\* one the committed refs name
Rollback(c) ==
  /\ Idle(c)
  /\ btree[c].mode = "write"
  /\ btree[c].base = store[c].committed.work
  /\ store' = [store EXCEPT ![c] = [Unpinned(@) EXCEPT !.refs = store[c].committed, !.lock = 0]]
  /\ btree' = [btree EXCEPT ![c] = [@ EXCEPT !.mode = "none", !.auto = TRUE, !.cat = btree[c].base]]
  /\ dirty' = [dirty EXCEPT ![c] = {}]
  /\ UNCHANGED <<path, files, file, job, truth>>

\* ... and the catalog the transaction began from is committed when it is not
RollbackRewrites(c) ==
  /\ btree[c].mode = "write"
  /\ btree[c].base # store[c].committed.work
  /\ HasOrGetsLock(c)
  /\ Append(c, [store[c] EXCEPT !.refs = [store[c].committed EXCEPT !.work = btree[c].base]],
            "rollback", {}, {})
  /\ btree' = [btree EXCEPT ![c].cat = btree[c].base]
  /\ dirty' = [dirty EXCEPT ![c] = {}]
  /\ UNCHANGED <<path, files, truth>>

\* csRollbackFailedAppend and csRestoreCommittedRefsState; mutant: not the latter
Truncated(c) == [file EXCEPT ![store[c].fd] = job[c].undo]
KeptRefs(s) == s
RestoredRefs(s) == [s EXCEPT !.refs = s.committed]

\* A write or the sync failed
CommitFails(c) ==
  LET s == store[c]
      ended == job[c].kind # "refs" IN
  /\ Committing(c)
  /\ file' = Truncated(c)
  /\ store' = [store EXCEPT ![c] = [RestoredRefs(s) EXCEPT !.lock = 0, !.pinned = s.pinned /\ ~ended]]
  /\ btree' = [btree EXCEPT ![c] =
                 CASE job[c].kind = "txn" ->
                        [@ EXCEPT !.mode = "none", !.auto = TRUE, !.cat = btree[c].base]
                   [] OTHER -> @]
  /\ job' = [job EXCEPT ![c] = IdleJob]
  /\ dirty' = [dirty EXCEPT ![c] = IF ended THEN {} ELSE @]
  /\ UNCHANGED <<path, files, truth>>

\* The process dies inside a commit: what it wrote stays.  A root record that
\* is in the file is a commit, whoever knows of it
Crash(c) ==
  /\ Committing(c)
  /\ store' = [store EXCEPT ![c] = ClosedStore]
  /\ btree' = [btree EXCEPT ![c] = ClosedBtree]
  /\ job' = [job EXCEPT ![c] = IdleJob]
  /\ dirty' = [dirty EXCEPT ![c] = {}]
  /\ truth' = IF job[c].step = "root" THEN Acknowledged(c) ELSE truth
  /\ UNCHANGED disk

-----------------------------------------------------------------------------
(* Operations that change the refs or the file outside a SQL transaction.  *)

\* chunkStoreLockAndRefresh asks for a lock the connection does not hold
AskForLock(c) ==
  /\ Idle(c)
  /\ store[c].lock = 0
  /\ job' = [job EXCEPT ![c] = Asking("lock")]
  /\ UNCHANGED <<path, files, file, store, btree, truth, dirty>>

\* SQLITE_BUSY for a ref mutation or dolt_gc
LockBusy(c) ==
  /\ job[c].step = "lock"
  /\ ~LockFree(c)
  /\ job' = [job EXCEPT ![c] = IdleJob]
  /\ UNCHANGED <<path, files, file, store, btree, truth, dirty>>

\* The refs a ref mutation or dolt_gc starts from: chunkStoreLockAndRefresh,
\* and for a ref mutation a refresh even under a pinned snapshot
Current(s) == [Refresh(Unpinned(s)) EXCEPT !.pinned = s.pinned]

\* doltliteMutateRefs: dolt_tag, dolt_branch; a ref that exists is deleted (-d)
MutateRefs(c) ==
  LET s == Current(store[c]) IN
  /\ HasOrGetsLock(c)
  /\ \E t \in Tags :
       LET adds == {t} \ s.refs.tags
           drops == {t} \cap s.refs.tags IN
       Append(c, [s EXCEPT !.refs.tags = (@ \cup adds) \ drops], "refs", adds, drops)
  /\ UNCHANGED <<path, files, btree, truth, dirty>>

\* the same when xMutate refuses (the tag exists): the lock is released all the same
MutateRefused(c) ==
  /\ HasOrGetsLock(c)
  /\ store' = [store EXCEPT ![c] = [Current(@) EXCEPT !.lock = 0]]
  /\ job' = [job EXCEPT ![c] = IdleJob]
  /\ UNCHANGED <<path, files, file, btree, truth, dirty>>

\* doltlitePersistWorkingSet in a read transaction (dolt_add, dolt_reset, a
\* merge): the refs of its snapshot, edited, are committed under a lock that
\* chunkStoreCommit takes only then
Stage(c) ==
  /\ btree[c].mode = "read"
  /\ job[c].step = "lock"
  /\ LockFree(c)
  /\ \E t \in Tags \ store[c].refs.tags :
       Append(c, [store[c] EXCEPT !.refs = [work |-> btree[c].cat, tags |-> @.tags \cup {t}]],
              "refs", {t}, {})
  /\ UNCHANGED <<path, files, btree, truth, dirty>>

\* dolt_gc: the chunks its refs reach go to a new file that takes the path.
\* iFileSize and hasMovedChecked keep their values
Gc(c) ==
  LET s == Refresh(store[c]) IN
  /\ job[c].step = "lock"
  /\ btree[c].mode \in {"none", "read"}
  /\ LockFree(c)
  /\ s.fd # 0
  /\ files < MaxFiles
  /\ files' = files + 1
  /\ path' = files + 1
  /\ \E n \in 1..MaxSize :
       file' = [file EXCEPT ![files + 1] =
                  [size |-> n, refs |-> s.refs, blobs |-> {s.refs}]]
  /\ store' = [store EXCEPT ![c] =
                 [s EXCEPT !.fd = files + 1, !.zPath = "own", !.blobs = {s.refs}]]
  /\ job' = [job EXCEPT ![c] = IdleJob]
  /\ UNCHANGED <<btree, truth, dirty>>

\* ... or finds nothing to do
GcNothing(c) ==
  /\ job[c].step = "lock"
  /\ btree[c].mode \in {"none", "read"}
  /\ LockFree(c)
  /\ store' = [store EXCEPT ![c] = Refresh(@)]
  /\ job' = [job EXCEPT ![c] = IdleJob]
  /\ UNCHANGED <<path, files, file, btree, truth, dirty>>

-----------------------------------------------------------------------------
(* Specifications.  Spec is SQL transactions that insert, of any number of *)
(* connections that come, go and crash.  The others add what clients may   *)
(* also do; AllSpec is everything.                                         *)

Session(c) ==
  \/ Open(c) \/ Close(c) \/ Reuse(c)
  \/ Begin(c) \/ Read(c) \/ EndRead(c)
  \/ AskToWrite(c) \/ BeginWrite(c) \/ BeginBusy(c) \/ BeginStale(c)
  \/ Insert(c) \/ Commit(c) \/ WriteRoot(c) \/ Sync(c) \/ Rollback(c)

Transaction(c) == Session(c) \/ Crash(c)

Next == \E c \in Conns : Transaction(c)
Spec == Init /\ [][Next]_vars

\* clients delete rows as well, and no process dies
DeleteSpec == Init /\ [][\E c \in Conns : Session(c) \/ Delete(c)]_vars

\* clients run dolt_gc
Collect(c) == AskForLock(c) \/ LockBusy(c) \/ Gc(c) \/ GcNothing(c)
GcSpec == Init /\ [][Next \/ \E c \in Conns : Collect(c)]_vars

\* clients edit refs, in a transaction or not
EditRefs(c) == \/ AskForLock(c) \/ LockBusy(c) \/ MutateRefs(c) \/ MutateRefused(c)
               \/ Stage(c) \/ CommitBusy(c) \/ RollbackRewrites(c)
RefsSpec == Init /\ [][Next \/ \E c \in Conns : EditRefs(c)]_vars

\* clients run dolt_add and its like
AddSpec ==
  Init /\ [][Next \/ \E c \in Conns : \/ AskForLock(c) \/ LockBusy(c)
                                        \/ Stage(c) \/ MutateRefused(c)]_vars

\* everything but dolt_gc, with I/O errors
SteadyNext == \E c \in Conns : Transaction(c) \/ EditRefs(c) \/ Delete(c) \/ CommitFails(c)
SteadySpec == Init /\ [][SteadyNext]_vars

\* everything
AllNext == SteadyNext \/ \E c \in Conns : Gc(c) \/ GcNothing(c)
AllSpec == Init /\ [][AllNext]_vars

-----------------------------------------------------------------------------
(* Properties.                                                             *)

Head == file[path].refs

\* No acknowledged commit is lost or reordered: unless a root record is about
\* to be acknowledged, the refs in the file the path names are the outcome of
\* the acknowledged commits, run one after the other (csCommitToFile).
HeadIsSerial == (\A c \in Conns : job[c].step # "root") => Head = truth

\* Two connections are never in a write transaction at the same time
\* (chunkStoreLockAndRefresh in prollyBtreeBeginTrans).
OneWriter == \A c, d \in Conns : btree[c].mode = "write" /\ btree[d].mode = "write" => c = d

\* Two connections are never between the append of csCommitToFile and its end
\* at the same time: the one that is holds the lock on the inode the path
\* names, also when a ref mutation has dropped the lock before.  dolt_gc is
\* left out: it renames the file between another's open and its flock.
OneAppender ==
  \A c \in Conns : Committing(c) =>
    /\ store[c].lock = path
    /\ \A d \in Conns \ {c} : store[d].lock # path

\* As long as a write transaction holds its lock and has not reached its
\* commit, it works on the latest refs: nothing was committed behind its back
\* since prollyBtreeBeginTrans, and nothing older was taken for the latest.
WriterHasHead ==
  \A c \in Conns :
    btree[c].mode = "write" /\ ~Committing(c) /\ store[c].lock # 0 =>
      /\ store[c].refs = Head
      /\ btree[c].base = Head.work

\* A client that inserts sees its own rows until its transaction ends: one
\* that lost them is rolled back for the client as well (prollyBtreeCommitPhaseTwo
\* and sqlite3_get_autocommit).
OwnRowsSeen == \A c \in Conns : dirty[c] \subseteq btree[c].cat

\* The first read of a transaction sees every commit that is in the file
\* (btreeRefreshFromDisk at the start of prollyBtreeBeginTrans).
FirstReadIsFresh ==
  [][\A c \in Conns : btree[c].mode = "none" /\ btree'[c].mode = "read"
        => btree'[c].cat = Head.work]_vars

\* After BEGIN and a first read, what the transaction sees is changed by no
\* one, not even by its own upgrade to a write transaction (snapshotPinned).
SnapshotIsStable ==
  [][\A c \in Conns : /\ btree[c].mode = "read" /\ ~btree[c].auto
                      /\ btree'[c].mode \in {"read", "write"}
        => btree'[c].cat = btree[c].cat /\ store'[c].refs = store[c].refs]_vars

-----------------------------------------------------------------------------
(* Refinement: the root record in the file is the instant of a commit.     *)

InTransaction(c) == btree[c].mode \in {"read", "write"}

AbstractMode(c) == CASE job[c].step = "root" -> "done"
                     [] InTransaction(c) /\ job[c].step # "root" -> btree[c].mode
                     [] OTHER -> "none"

Atomic == INSTANCE AtomicStore WITH
            db <- Head.work,
            mode <- [c \in Conns |-> AbstractMode(c)],
            held <- [c \in Conns |-> ~btree[c].auto],
            view <- [c \in Conns |-> IF InTransaction(c) THEN btree[c].cat ELSE {}]

\* SQL transactions over the shared file behave as transactions over one
\* catalog that is read and replaced atomically.
ImplementsAtomicStore == Atomic!Spec

=============================================================================
