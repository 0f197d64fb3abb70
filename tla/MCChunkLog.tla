----------------------------- MODULE MCChunkLog -----------------------------
(* Two refs blobs that share a leaf, so that it is stored once.             *)
EXTENDS ChunkLog

CONSTANTS leaf, blob1, blob2

MCKids == [h \in Chunks |-> IF h \in Blobs THEN {leaf} ELSE {}]

=============================================================================
