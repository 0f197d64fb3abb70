---------------------------- MODULE MCProllyTree ----------------------------
(* Small instances of ProllyTree.  Six rows make trees of three levels, or  *)
(* of four when every key ends a node as soon as it may; ours can split,    *)
(* join or empty two neighbouring leaves, and theirs any one row of them.   *)
EXTENDS ProllyTree

Rest(S) == [k \in Keys |-> IF k \in S THEN 1 ELSE Absent]
SomeBases == {Rest({}), Rest({2, 5}), Rest(Keys)}

\* the keys of S[l + 1] end a node of level l as soon as they may
EndsAt(S) == [l \in Levels |-> [k \in Keys |->
  IF l < Len(S) /\ k \in S[l + 1] THEN MinSize ELSE MaxSize]]
SomeHashes == {EndsAt(<<{1, 3, 4, 6}, {4}>>), EndsAt(<<Keys, Keys, Keys>>)}

\* one key is long enough for an inner node that has no other child, where
\* its hash allows it; or long enough for one at every level
OneLong == [k \in Keys |-> IF k = 3 THEN MinSize - 1 ELSE 0]
OneHuge == [k \in Keys |-> IF k = 3 THEN MaxSize ELSE 0]

\* how many keys a batch may have
Batches == [v \in Versions |-> IF v = "ours" THEN 2 ELSE 1]
=============================================================================
