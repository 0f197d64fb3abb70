----------------------------- MODULE AtomicStore -----------------------------
(***************************************************************************)
(* What the SQL transactions of ChunkStore promise a client, with no file, *)
(* lock or cache in sight: one catalog that every transaction reads as it  *)
(* was at one instant, one writer at a time, and a commit that installs    *)
(* the writer's whole catalog at one instant.                              *)
(***************************************************************************)
CONSTANTS Conns, Rows

VARIABLES db,    \* the committed catalog
          mode,  \* connection -> what its transaction is doing
          held,  \* connection -> is the transaction an explicit one
          view   \* connection -> the catalog its transaction works on

vars == <<db, mode, held, view>>

\* "done" is a write transaction that is installed and not yet acknowledged
Modes == {"none", "read", "write", "done"}

Init == /\ db = {}
        /\ mode = [c \in Conns |-> "none"]
        /\ held = [c \in Conns |-> FALSE]
        /\ view = [c \in Conns |-> {}]

Hold(c) == /\ mode[c] \in {"none", "read"}
           /\ held' = [held EXCEPT ![c] = TRUE]
           /\ UNCHANGED <<db, mode, view>>

\* A read of an implicit transaction may start over on a newer catalog
Read(c) == /\ mode[c] = "none" \/ (mode[c] = "read" /\ ~held[c])
           /\ mode' = [mode EXCEPT ![c] = "read"]
           /\ view' = [view EXCEPT ![c] = db]
           /\ UNCHANGED <<db, held>>

\* A transaction that has read may write only if what it read is the latest
Write(c) == /\ mode[c] = "none" \/ (mode[c] = "read" /\ view[c] = db)
            /\ \A d \in Conns : mode[d] \notin {"write", "done"}
            /\ mode' = [mode EXCEPT ![c] = "write"]
            /\ view' = [view EXCEPT ![c] = db]
            /\ UNCHANGED <<db, held>>

Edit(c) == /\ mode[c] = "write"
           /\ \E rows \in SUBSET Rows : view' = [view EXCEPT ![c] = rows]
           /\ UNCHANGED <<db, mode, held>>

Install(c) == /\ mode[c] = "write"
              /\ db' = view[c]
              /\ mode' = [mode EXCEPT ![c] = "done"]
              /\ UNCHANGED <<held, view>>

\* Acknowledged, rolled back, or the client is gone
End(c) == /\ mode' = [mode EXCEPT ![c] = "none"]
          /\ held' = [held EXCEPT ![c] = FALSE]
          /\ view' = [view EXCEPT ![c] = {}]
          /\ UNCHANGED db

Next == \E c \in Conns : \/ Hold(c) \/ Read(c) \/ Write(c)
                         \/ Edit(c) \/ Install(c) \/ End(c)

Spec == Init /\ [][Next]_vars

=============================================================================
