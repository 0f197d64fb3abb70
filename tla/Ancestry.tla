------------------------------ MODULE Ancestry ------------------------------
(***************************************************************************)
(* The history of commits: parents is a function from commits to the sets  *)
(* of their parents, which were made before them.                          *)
(***************************************************************************)
EXTENDS Naturals

\* a commit and its ancestors, for every commit
Histories(parents) ==
  LET past[x \in DOMAIN parents] == {x} \cup UNION {past[p] : p \in parents[x]}
  IN past

\* commits are numbered in the order they are made
Numbered(parents, n) ==
  DOMAIN parents = 1..n /\ \A x \in 1..n : parents[x] \subseteq 1..(x - 1)
=============================================================================
