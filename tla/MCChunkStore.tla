---------------------------- MODULE MCChunkStore ----------------------------
(* Small instances of ChunkStore.  The runs differ in the specification     *)
(* they check and in the bounds their .cfg gives.                           *)
EXTENDS ChunkStore, TLC

Interchangeable == Permutations(Conns) \cup Permutations(Rows)

\* No step reads the history variables except to extend them.  Once
\* hasMovedChecked is set nothing reads the name of the open file before the next
\* reload gives it a new one: states that differ in these alone are one
WhatIsRead ==
  <<disk, [c \in Conns |-> IF store[c].moved THEN [store[c] EXCEPT !.zPath = "own"]
                                             ELSE store[c]], btree, job>>

=============================================================================
