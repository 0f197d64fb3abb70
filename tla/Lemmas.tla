------------------------------- MODULE Lemmas -------------------------------
(***************************************************************************)
(* Induction over numbers, stated of sets rather than of operators, and    *)
(* what it proves about the histories of Ancestry.                         *)
(***************************************************************************)
EXTENDS Ancestry, WellFoundedInduction, TLAPS

\* A set of numbers has a least one
LEMMA LeastNumber ==
  ASSUME NEW T \in SUBSET Nat, T # {}
  PROVE  \E x \in T : \A y \in T : x <= y
<1> DEFINE R == OpToRel(<, Nat)
<1>1. IsWellFoundedOn(R, Nat)
  BY NatLessThanWellFounded
<1>2. \A x, y \in Nat : x < y => <<x, y>> \in R
  BY DEF OpToRel
<1> HIDE DEF R
<1>3. PICK x \in T : \A y \in T : ~(<<y, x>> \in R)
  BY <1>1, WFMin
<1>4. \A y \in T : x <= y
  <2> TAKE y \in T
  <2>1. x \in Nat /\ y \in Nat
    OBVIOUS
  <2>2. ~(y < x)
    BY <1>2, <1>3, <2>1
  <2> QED BY <2>1, <2>2
<1> QED BY <1>4

\* and one that is bounded has a greatest one
LEMMA GreatestNumber ==
  ASSUME NEW n \in Nat, NEW T \in SUBSET (1..n), T # {}
  PROVE  \E x \in T : \A y \in T : y <= x
<1> DEFINE S == {n - y : y \in T}
<1>1. S \in SUBSET Nat /\ S # {}
  <2>1. \A y \in T : n - y \in Nat
    OBVIOUS
  <2>2. S \subseteq Nat
    BY <2>1
  <2>3. S # {}
    OBVIOUS
  <2> QED BY <2>2, <2>3
<1>2. PICK s \in S : \A u \in S : s <= u
  BY <1>1, LeastNumber
<1>3. PICK x \in T : s = n - x
  BY <1>2
<1>4. \A y \in T : n - x <= n - y
  BY <1>2, <1>3
<1>5. \A y \in T : y <= x
  BY <1>4
<1> QED BY <1>5

\* A set that has 0 and with a number the next one has all numbers
LEMMA NumberInduction ==
  ASSUME NEW S, 0 \in S, \A n \in Nat : n \in S => n + 1 \in S
  PROVE  Nat \subseteq S
<1> SUFFICES ASSUME NEW n \in Nat, n \notin S PROVE FALSE
  OBVIOUS
<1>1. PICK x \in Nat \ S : \A y \in Nat \ S : x <= y
  BY LeastNumber
<1>2. x \in Nat /\ x \notin S /\ x # 0
  OBVIOUS
<1>3. x - 1 \in Nat /\ x - 1 \in S
  BY <1>1, <1>2
<1> QED BY <1>2, <1>3

-----------------------------------------------------------------------------
(* Histories.                                                              *)

IsHistory(past, parents) ==
  past = [x \in DOMAIN parents |-> {x} \cup UNION {past[p] : p \in parents[x]}]

LEMMA HistoriesAre ==
  ASSUME NEW parents, NEW n \in Nat, Numbered(parents, n)
  PROVE  IsHistory(Histories(parents), parents)
<1> DEFINE First(m) == [x \in 1..m |-> parents[x]]
           S == {m \in Nat : m <= n => \E f : IsHistory(f, First(m))}
<1>1. 0 \in S
  <2> DEFINE f == [x \in 1..0 |-> {}]
  <2>1. f = [x \in 1..0 |-> {x} \cup UNION {f[p] : p \in First(0)[x]}]
    OBVIOUS
  <2>2. DOMAIN First(0) = 1..0
    OBVIOUS
  <2>3. IsHistory(f, First(0))
    BY <2>1, <2>2 DEF IsHistory
  <2> QED BY <2>3
<1>2. ASSUME NEW m \in Nat, m \in S PROVE m + 1 \in S
  <2> SUFFICES ASSUME m + 1 <= n PROVE \E g : IsHistory(g, First(m + 1))
    OBVIOUS
  <2>0. m <= n
    OBVIOUS
  <2>1. PICK f : IsHistory(f, First(m))
    BY <1>2, <2>0
  <2> DEFINE g == [x \in 1..(m + 1) |->
                     IF x = m + 1 THEN {x} \cup UNION {f[p] : p \in parents[x]} ELSE f[x]]
  <2>2. \A x \in 1..m : f[x] = {x} \cup UNION {f[p] : p \in parents[x]}
    BY <2>1 DEF IsHistory
  <2>3. \A x \in 1..(m + 1) : g[x] = {x} \cup UNION {g[p] : p \in parents[x]}
    <3> TAKE x \in 1..(m + 1)
    <3>1. parents[x] \subseteq 1..m /\ \A p \in parents[x] : g[p] = f[p]
      BY DEF Numbered
    <3>2. {g[p] : p \in parents[x]} = {f[p] : p \in parents[x]}
      BY <3>1
    <3>3. g[x] = {x} \cup UNION {f[p] : p \in parents[x]}
      BY <2>2
    <3> HIDE DEF g
    <3> QED BY <3>2, <3>3
  <2>4. g = [x \in 1..(m + 1) |-> g[x]]
    OBVIOUS
  <2>5. DOMAIN First(m + 1) = 1..(m + 1) /\ \A x \in 1..(m + 1) : First(m + 1)[x] = parents[x]
    OBVIOUS
  <2> HIDE DEF g
  <2>6. g = [x \in 1..(m + 1) |-> {x} \cup UNION {g[p] : p \in First(m + 1)[x]}]
    BY <2>3, <2>4, <2>5
  <2>7. IsHistory(g, First(m + 1))
    BY <2>5, <2>6 DEF IsHistory
  <2> QED BY <2>7
<1> HIDE DEF S
<1>3. n \in S
  BY <1>1, <1>2, NumberInduction
<1> USE DEF S
<1>4. PICK f : IsHistory(f, First(n))
  BY <1>3
<1>5. IsHistory(f, parents)
  BY <1>4 DEF IsHistory, Numbered
<1> QED
  BY <1>5 DEF IsHistory, Histories

\* What is true of a commit when it is of the ones before it is true of all:
\* S is the set of commits it is true of
LEMMA CommitInduction ==
  ASSUME NEW n \in Nat, NEW S, \A x \in 1..n : 1..(x - 1) \subseteq S => x \in S
  PROVE  1..n \subseteq S
<1> DEFINE T == {m \in Nat : m <= n => 1..m \subseteq S}
<1>1. 0 \in T
  OBVIOUS
<1>2. ASSUME NEW m \in Nat, m \in T PROVE m + 1 \in T
  <2> SUFFICES ASSUME m + 1 <= n PROVE 1..(m + 1) \subseteq S
    OBVIOUS
  <2>1. m <= n
    OBVIOUS
  <2>2. 1..m \subseteq S
    BY <1>2, <2>1
  <2>3. m + 1 \in S
    BY <2>2
  <2> QED BY <2>2, <2>3
<1> HIDE DEF T
<1>3. n \in T
  BY <1>1, <1>2, NumberInduction
<1> QED BY <1>3 DEF T

\* A commit is in its history, with the histories of its parents
LEMMA HistoryOf ==
  ASSUME NEW parents, NEW n \in Nat, Numbered(parents, n), NEW x \in 1..n
  PROVE  Histories(parents)[x] = {x} \cup UNION {Histories(parents)[p] : p \in parents[x]}
<1> DEFINE past == Histories(parents)
<1>1. past = [y \in DOMAIN parents |-> {y} \cup UNION {past[p] : p \in parents[y]}]
  BY HistoriesAre DEF IsHistory
<1>2. x \in DOMAIN parents
  BY DEF Numbered
<1> HIDE DEF past
<1>3. past[x] = {x} \cup UNION {past[p] : p \in parents[x]}
  BY <1>1, <1>2
<1> QED BY <1>3 DEF past

\* and nothing that came after it
LEMMA HistoryBelow ==
  ASSUME NEW parents, NEW n \in Nat, Numbered(parents, n)
  PROVE  \A x \in 1..n : x \in Histories(parents)[x] /\ Histories(parents)[x] \subseteq 1..x
<1> DEFINE past == Histories(parents)
           S == {x \in 1..n : x \in past[x] /\ past[x] \subseteq 1..x}
<1>1. ASSUME NEW x \in 1..n, 1..(x - 1) \subseteq S PROVE x \in S
  <2>1. past[x] = {x} \cup UNION {past[p] : p \in parents[x]}
    BY HistoryOf
  <2> HIDE DEF past
  <2>2. ASSUME NEW p \in parents[x] PROVE past[p] \subseteq 1..x
    <3>1. p \in 1..(x - 1)
      BY DEF Numbered
    <3>2. past[p] \subseteq 1..p
      BY <1>1, <3>1
    <3> QED BY <3>1, <3>2
  <2> QED BY <2>1, <2>2
<1> HIDE DEF S
<1>2. 1..n \subseteq S
  BY <1>1, CommitInduction
<1> QED BY <1>2 DEF S

\* A set that has with a commit its parents has with a commit its history
LEMMA HistoryIn ==
  ASSUME NEW parents, NEW n \in Nat, Numbered(parents, n),
         NEW H, \A x \in H : x \in 1..n /\ parents[x] \subseteq H
  PROVE  \A x \in H : Histories(parents)[x] \subseteq H
<1> DEFINE past == Histories(parents)
           S == {x \in 1..n : x \in H => past[x] \subseteq H}
<1>1. ASSUME NEW x \in 1..n, 1..(x - 1) \subseteq S PROVE x \in S
  <2> SUFFICES ASSUME x \in H PROVE past[x] \subseteq H
    OBVIOUS
  <2>1. past[x] = {x} \cup UNION {past[p] : p \in parents[x]}
    BY HistoryOf
  <2> HIDE DEF past
  <2>2. ASSUME NEW p \in parents[x] PROVE past[p] \subseteq H
    <3>1. p \in 1..(x - 1) /\ p \in H
      BY DEF Numbered
    <3> QED BY <1>1, <3>1
  <2> QED BY <2>1, <2>2
<1> HIDE DEF S
<1>2. 1..n \subseteq S
  BY <1>1, CommitInduction
<1> QED BY <1>2 DEF S

\* An ancestor's ancestors are ancestors
LEMMA HistoryClosed ==
  ASSUME NEW parents, NEW n \in Nat, Numbered(parents, n)
  PROVE  \A x \in 1..n : \A y \in Histories(parents)[x] :
           y \in 1..n /\ parents[y] \subseteq Histories(parents)[x]
                     /\ Histories(parents)[y] \subseteq Histories(parents)[x]
<1> DEFINE past == Histories(parents)
           S == {x \in 1..n : \A y \in past[x] : parents[y] \subseteq past[x]}
<1>0. \A x \in 1..n : x \in past[x] /\ past[x] \subseteq 1..x
  BY HistoryBelow
<1>1. ASSUME NEW x \in 1..n, 1..(x - 1) \subseteq S PROVE x \in S
  <2> SUFFICES ASSUME NEW y \in past[x] PROVE parents[y] \subseteq past[x]
    OBVIOUS
  <2>1. past[x] = {x} \cup UNION {past[p] : p \in parents[x]}
    BY HistoryOf
  <2> HIDE DEF past
  <2>2. parents[x] \subseteq 1..(x - 1) /\ 1..(x - 1) \subseteq 1..n
    BY DEF Numbered
  <2>3. CASE y = x
    <3>1. \A p \in parents[x] : p \in past[p]
      BY <1>0, <2>2
    <3> QED BY <2>1, <2>3, <3>1
  <2>4. CASE y # x
    <3>1. PICK p \in parents[x] : y \in past[p]
      BY <2>1, <2>4
    <3>2. p \in S
      BY <1>1, <2>2
    <3> QED BY <2>1, <3>1, <3>2
  <2> QED BY <2>3, <2>4
<1> HIDE DEF S
<1>2. 1..n \subseteq S
  BY <1>1, CommitInduction
<1> SUFFICES ASSUME NEW x \in 1..n
             PROVE  \A y \in past[x] : y \in 1..n /\ parents[y] \subseteq past[x]
                                                  /\ past[y] \subseteq past[x]
  OBVIOUS
<1>3. \A y \in past[x] : y \in 1..n /\ parents[y] \subseteq past[x]
  <2>1. x \in S /\ past[x] \subseteq 1..x
    BY <1>0, <1>2
  <2> HIDE DEF past
  <2> QED BY <2>1 DEF S
<1>4. \A y \in past[x] : past[y] \subseteq past[x]
  BY <1>3, HistoryIn
<1> QED BY <1>3, <1>4

\* New commits leave the histories of the old ones alone
LEMMA HistoriesKeep ==
  ASSUME NEW before, NEW n \in Nat, Numbered(before, n),
         NEW after, NEW m \in Nat, Numbered(after, m),
         n <= m, \A x \in 1..n : after[x] = before[x]
  PROVE  \A x \in 1..n : Histories(after)[x] = Histories(before)[x]
<1> DEFINE past == Histories(before)
           now == Histories(after)
           S == {x \in 1..n : now[x] = past[x]}
<1>1. ASSUME NEW x \in 1..n, 1..(x - 1) \subseteq S PROVE x \in S
  <2>1. past[x] = {x} \cup UNION {past[p] : p \in before[x]}
    BY HistoryOf
  <2>2. now[x] = {x} \cup UNION {now[p] : p \in after[x]}
    <3>1. x \in 1..m
      OBVIOUS
    <3> QED BY <3>1, HistoryOf
  <2> HIDE DEF past, now
  <2>3. \A p \in before[x] : now[p] = past[p]
    BY <1>1 DEF Numbered
  <2>4. {now[p] : p \in after[x]} = {past[p] : p \in before[x]}
    BY <2>3
  <2> QED BY <2>1, <2>2, <2>4
<1> HIDE DEF S
<1>2. 1..n \subseteq S
  BY <1>1, CommitInduction
<1> QED BY <1>2 DEF S
=============================================================================
