------------------------------ MODULE ChunkLog ------------------------------
(***************************************************************************)
(* The bytes of a DoltLite database file, between dolt_gc runs, and the    *)
(* one ChunkStore that appends to it (chunk_store.c, chunk_wal.c): what a  *)
(* commit writes and in which writes, what is left when a write fails or   *)
(* the process dies, and what csReplayWal makes of it.  Who may append at  *)
(* all is module ChunkStore.                                               *)
(*                                                                         *)
(* Data.  A record is two cells, so that it can be torn: a chunk record is *)
(* its header (tag, hash, length) and its body, a root record its tag and  *)
(* its manifest, and the manifest a file starts with is two cells as well. *)
(* A chunk is its content; equal chunks have equal hashes and names are    *)
(* collision free.  Reading a cell of one kind where another is expected   *)
(* gives a bad magic, an unknown tag or a body that fails its hash.        *)
(***************************************************************************)
EXTENDS Integers, SequencesExt

CONSTANTS Chunks,   \* contents a chunk can have
          Blobs,    \* the chunks that are refs blobs
          Kids,     \* chunk -> the chunks it names
          NoChunk,  \* the empty hash
          MaxLen    \* bound: cells in the file

ASSUME ChunksAssumption == /\ Blobs \subseteq Chunks
                           /\ Kids \in [Chunks -> SUBSET Chunks]
                           /\ NoChunk \notin Chunks
                           /\ MaxLen \in Nat

VARIABLES disk,    \* cells of the file
          cs,      \* the ChunkStore of the process, if one is running
          job,     \* the commit under way
          acked,   \* history: refs of the last acknowledged commit
          safe,    \* history: size of the file when it was acknowledged
          soiled   \* history: a commit was appended after a torn record

vars == <<disk, cs, job, acked, safe, soiled>>

Hashes == Chunks \cup {NoChunk}
Cell == [kind : {"first", "manifest", "root", "chunk", "body"}, of : Hashes]
C(kind, of) == [kind |-> kind, of |-> of]

\* index also stands for aRecent; seen is iFileSize
Store == [open : BOOLEAN, seen : Nat, index : [Chunks -> Nat],
          pend : Seq(Chunks), refs : Hashes, committed : Hashes]

\* todo is the writes to come, off and orig are writeOff and origFileSize
Job == [busy : BOOLEAN, todo : Seq(Seq(Cell)), off : Nat, orig : Nat]

NoIndex == [h \in Chunks |-> 0]
ClosedStore == [open |-> FALSE, seen |-> 0, index |-> NoIndex, pend |-> <<>>,
                refs |-> NoChunk, committed |-> NoChunk]
IdleJob == [busy |-> FALSE, todo |-> <<>>, off |-> 0, orig |-> 0]

TypeOK == /\ disk \in Seq(Cell)
          /\ cs \in Store
          /\ job \in Job
          /\ acked \in Hashes
          /\ safe \in 0..Len(disk)
          /\ soiled \in BOOLEAN

Init == /\ disk = <<>>
        /\ cs = ClosedStore
        /\ job = IdleJob
        /\ acked = NoChunk
        /\ safe = 0
        /\ soiled = FALSE

-----------------------------------------------------------------------------
(* Replay.                                                                 *)

\* of several records of a chunk the first one counts
Noted(found, h, at) == [found EXCEPT ![h] = IF @ = 0 THEN at ELSE @]

\* csReplayWal at one record: s.pos is the last cell read, s.found are the
\* chunk records so far and s.index those before the last root record
ReplayStep(d, s) ==
  LET p == s.pos + 1
      stopped == [s EXCEPT !.state = "stopped"]
      corrupt == [s EXCEPT !.state = "corrupt"] IN
  CASE s.state # "run" -> s
    [] s.state = "run" /\ p >= Len(d) ->
         IF p = Len(d) /\ d[p].kind \notin {"chunk", "root"} THEN corrupt ELSE stopped
    [] s.state = "run" /\ p < Len(d) /\ d[p].kind = "chunk" ->
         [s EXCEPT !.pos = p + 1, !.found = Noted(@, d[p].of, p + 1)]
    [] s.state = "run" /\ p < Len(d) /\ d[p].kind = "root" ->
         IF d[p + 1].kind = "manifest"
         THEN [s EXCEPT !.pos = p + 1, !.index = s.found, !.refs = d[p + 1].of, !.roots = TRUE]
         ELSE IF p + 1 < Len(d) THEN corrupt ELSE stopped
    [] OTHER -> corrupt

\* chunkStoreGet of an indexed chunk: the hash of what is there is verified
Readable(d, index, h) == /\ index[h] \in DOMAIN d
                         /\ d[index[h]] = C("body", h)

\* The state of csReplayWal after each number of records
Scan(d) ==
  LET start == [state |-> "run", pos |-> 2, found |-> NoIndex, index |-> NoIndex,
                refs |-> d[2].of, roots |-> FALSE]
      after[n \in 0..Len(d)] == IF n = 0 THEN start ELSE ReplayStep(d, after[n - 1])
  IN after

\* csReadManifest and csReplayWal of a file that is not empty
Replay(d) ==
  LET s == Scan(d)[Len(d)]
      refs == IF s.roots THEN s.refs ELSE NoChunk
  IN IF Len(d) < 2 THEN [ok |-> FALSE, index |-> NoIndex, refs |-> NoChunk]
     ELSE [ok |-> s.state # "corrupt" /\ (refs # NoChunk => Readable(d, s.index, refs)),
           index |-> s.index, refs |-> refs]

\* A file of size 0 counts as absent
Opened(d) == IF d = <<>> THEN [ok |-> TRUE, index |-> NoIndex, refs |-> NoChunk]
                         ELSE Replay(d)

\* chunkStoreOpen fails, or sets iFileSize to the whole file, torn tail included
Open ==
  /\ ~cs.open
  /\ Opened(disk).ok
  /\ cs' = [ClosedStore EXCEPT !.open = TRUE, !.seen = Len(disk),
                               !.index = Opened(disk).index,
                               !.refs = Opened(disk).refs, !.committed = Opened(disk).refs]
  /\ UNCHANGED <<disk, job, acked, safe, soiled>>

-----------------------------------------------------------------------------
(* Staging and committing.                                                 *)

Pending == ToSet(cs.pend)
Known == Pending \cup {h \in Chunks : cs.index[h] # 0}

\* chunkStorePut of a chunk that is neither indexed nor staged; trees are
\* written from the leaves up, so what it names was put before
Put(h) ==
  /\ cs.open /\ ~job.busy
  /\ h \notin Known
  /\ Kids[h] \subseteq Known
  /\ cs' = [cs EXCEPT !.pend = Append(@, h)]
  /\ UNCHANGED <<disk, job, acked, safe, soiled>>

\* chunkStoreRollback
Rollback ==
  /\ cs.open /\ ~job.busy
  /\ cs.pend # <<>>
  /\ cs' = [cs EXCEPT !.pend = <<>>, !.refs = cs.committed]
  /\ UNCHANGED <<disk, job, acked, safe, soiled>>

\* mutant: the root record goes first
RootThenChunks(refs, batch) ==
  <<<<C("root", NoChunk), C("manifest", refs)>>>> \o
  [i \in 1..Len(cs.pend) |-> <<C("chunk", cs.pend[i]), C("body", cs.pend[i])>>]

\* The writes of csCommitToFile: the manifest of a new file; the chunk records,
\* up to 64 KB in one write and else header and body apart; the root record
Writes(refs, batch) ==
  LET n == Len(cs.pend)
      cell(i) == C(IF i % 2 = 1 THEN "chunk" ELSE "body", cs.pend[(i + 1) \div 2])
      cells == [i \in 1..2 * n |-> cell(i)]
      chunks == IF n = 0 THEN <<>>
                ELSE IF batch THEN <<cells>> ELSE [i \in 1..2 * n |-> <<cells[i]>>]
  IN chunks \o <<<<C("root", NoChunk), C("manifest", refs)>>>>

FirstWrite(refs) == IF disk = <<>> THEN <<<<C("first", refs), C("manifest", refs)>>>>
                                   ELSE <<>>

\* A log that a crash or a failed write left a torn record at the end of
TornAtEnd(d) == Len(d) % 2 = 1

Reloaded(r) == [cs EXCEPT !.seen = Len(disk), !.index = r.index,
                          !.refs = r.refs, !.committed = r.refs]

\* chunkStoreRefreshIfChanged, as operations begin: nothing changes if the
\* file has not grown, or cannot be read
Refresh ==
  /\ cs.open /\ ~job.busy
  /\ Len(disk) > cs.seen
  /\ Opened(disk).ok
  /\ cs' = Reloaded(Opened(disk))
  /\ UNCHANGED <<disk, job, acked, safe, soiled>>

\* chunkStoreCommit of changed refs.  A file that has grown since the last
\* refresh is reloaded under the lock, and the commit fails if that fails; the
\* change survives the reload if something is staged for it, else the refs of
\* the file are committed once more (csReloadFromDiskPreservingLocalRefs)
Commit(refs) ==
  LET grown == Len(disk) > cs.seen
      kept == IF grown /\ cs.pend = <<>> THEN Opened(disk).refs ELSE refs IN
  /\ cs.open /\ ~job.busy
  /\ refs # cs.refs
  /\ refs \in Known
  /\ grown => Opened(disk).ok
  /\ \E batch \in BOOLEAN :
       LET todo == FirstWrite(kept) \o Writes(kept, batch) IN
       /\ Len(disk) + Len(FlattenSeq(todo)) <= MaxLen
       /\ job' = [busy |-> TRUE, todo |-> todo, off |-> Len(disk), orig |-> Len(disk)]
  /\ cs' = [(IF grown THEN Reloaded(Opened(disk)) ELSE cs) EXCEPT !.refs = kept]
  /\ soiled' = (soiled \/ TornAtEnd(disk))
  /\ UNCHANGED <<disk, acked, safe>>

Write ==
  /\ job.busy /\ job.todo # <<>>
  /\ disk' = disk \o Head(job.todo)
  /\ job' = [job EXCEPT !.todo = Tail(@), !.off = Len(disk')]
  /\ UNCHANGED <<cs, acked, safe, soiled>>

\* mutant: the manifest of a new file is not counted
LandedAtStart(h) ==
  LET at == {i \in 1..Len(cs.pend) : cs.pend[i] = h}
  IN IF at = {} THEN cs.index[h] ELSE job.orig + 2 * (CHOOSE i \in at : TRUE)

\* The chunk that is staged i-th is the 2i-th cell after the first write
Landed(h) ==
  LET first == IF job.orig = 0 THEN 2 ELSE job.orig
      at == {i \in 1..Len(cs.pend) : cs.pend[i] = h}
  IN IF at = {} THEN cs.index[h] ELSE first + 2 * (CHOOSE i \in at : TRUE)

Sync ==
  /\ job.busy /\ job.todo = <<>>
  /\ cs' = [cs EXCEPT !.seen = job.off, !.index = [h \in Chunks |-> Landed(h)],
                      !.pend = <<>>, !.committed = cs.refs]
  /\ job' = IdleJob
  /\ acked' = cs.refs
  /\ safe' = job.off
  /\ UNCHANGED <<disk, soiled>>

\* What is in the file after a write of which n cells were written
Partly(n) == IF job.todo = <<>> THEN disk ELSE disk \o SubSeq(Head(job.todo), 1, n)
CellsWritten == IF job.todo = <<>> THEN {0} ELSE 0..Len(Head(job.todo)) - 1

\* mutant: everything goes
Emptied(d) == IF job.off > job.orig THEN <<>> ELSE d

\* csRollbackFailedAppend, called when an earlier write of the commit succeeded
CutBack(d) == IF job.off > job.orig THEN SubSeq(d, 1, job.orig) ELSE d

\* A write or the sync fails: the staged chunks stay staged
CommitFails ==
  /\ job.busy
  /\ \E n \in CellsWritten : disk' = CutBack(Partly(n))
  /\ cs' = [cs EXCEPT !.refs = cs.committed]
  /\ job' = IdleJob
  /\ UNCHANGED <<acked, safe, soiled>>

\* The process ends, also within a write.  A root record that is in the file
\* is a commit, whoever knows of it
Crash ==
  /\ cs.open
  /\ cs' = ClosedStore
  /\ job' = IdleJob
  /\ \E n \in CellsWritten : disk' = Partly(n)
  /\ acked' = IF job.busy /\ job.todo = <<>> THEN cs.refs ELSE acked
  /\ safe' = IF job.busy /\ job.todo = <<>> THEN job.off ELSE safe
  /\ UNCHANGED soiled

Next == \/ Open \/ Refresh \/ Rollback \/ Write \/ Sync \/ CommitFails \/ Crash
        \/ \E h \in Chunks : Put(h)
        \/ \E refs \in Blobs : Commit(refs)

Spec == Init /\ [][Next]_vars

-----------------------------------------------------------------------------
(* Properties.                                                             *)

\* Everything a chunk names, itself included, is readable through an index
Whole(d, index, h) ==
  h # NoChunk => \E S \in SUBSET Chunks :
                   h \in S /\ \A k \in S : Kids[k] \subseteq S /\ Readable(d, index, k)

\* the commit under way has its root record in the file
RootWritten == job.busy /\ job.todo = <<>>

Recovered == /\ Opened(disk).ok
             /\ Opened(disk).refs = acked
             /\ Whole(disk, Opened(disk).index, acked)

\* Whoever opens the file finds the last acknowledged commit and everything it
\* names, whatever a crash or a failed write has left behind it, as long as no
\* commit was appended to a torn record (csReplayWal, csRollbackFailedAppend).
RecoversLast == ~soiled /\ acked # NoChunk /\ ~RootWritten => Recovered

\* The same without the exception: recovery ignores appended data until a
\* later valid root record (the comment in csCommitToFile).
Durable == acked # NoChunk /\ ~RootWritten => Recovered

\* A running store can read everything its refs and its staged chunks name:
\* from the file through its index, or from the staging buffer; so the next
\* commit leaves nothing out (chunkStorePut skips what is indexed or staged).
NothingLeftOut ==
  cs.open /\ ~job.busy /\ ~soiled =>
    /\ Whole(disk, cs.index, cs.committed)
    /\ \A h \in Known : /\ Kids[h] \subseteq Known
                        /\ h \notin Pending => Readable(disk, cs.index, h)

\* The bytes of an acknowledged commit are never cut off or overwritten, not
\* even by the truncation after a commit that failed (csRollbackFailedAppend).
AckedBytesStay ==
  [][safe <= Len(disk') /\ SubSeq(disk', 1, safe) = SubSeq(disk, 1, safe)]_vars

=============================================================================
