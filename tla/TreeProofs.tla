---------------------------- MODULE TreeProofs -----------------------------
(***************************************************************************)
(* Proofs about ProllyTree, for any keys, values, sizes, hash functions,   *)
(* batches and ancestors.  The tree of each version is whole and sorted,   *)
(* is cut where the hash of a key says and holds the rows that were        *)
(* written; a comparison tells what differs; a merge is the merge of the   *)
(* rows, whichever way it took; and the rows alone say where a tree is     *)
(* cut, but for nodes with one child at the top.                           *)
(*                                                                         *)
(* The induction is over keys, levels and nodes: the walks of the model    *)
(* are recursive functions, and what they have done is said of each step.  *)
(***************************************************************************)
EXTENDS ProllyTree, Lemmas

-----------------------------------------------------------------------------
(* What is below a node.                                                   *)

IsDown(f, n, h) ==
  f = [d \in 0..h |-> IF d = 0 THEN {n} ELSE UNION {Children(m) : m \in f[d - 1]}]

LEMMA DownExists == ASSUME NEW n PROVE \A h \in Nat : \E f : IsDown(f, n, h)
<1> DEFINE T == {h \in Nat : \E f : IsDown(f, n, h)}
<1>1. 0 \in T
  <2> DEFINE f == [d \in 0..0 |-> {n}]
  <2>1. IsDown(f, n, 0)
    BY DEF IsDown
  <2> QED BY <2>1
<1>2. ASSUME NEW h \in Nat, h \in T PROVE h + 1 \in T
  <2>1. PICK f : IsDown(f, n, h)
    BY <1>2
  <2> DEFINE g == [d \in 0..(h + 1) |-> IF d = h + 1 THEN UNION {Children(m) : m \in f[h]} ELSE f[d]]
  <2>2. \A d \in 0..(h + 1) : g[d] = IF d = 0 THEN {n} ELSE UNION {Children(m) : m \in g[d - 1]}
    <3> TAKE d \in 0..(h + 1)
    <3>1. CASE d = h + 1
      <4>1. g[d] = UNION {Children(m) : m \in f[h]} /\ g[d - 1] = f[h] /\ d # 0
        BY <3>1
      <4> QED BY <4>1
    <3>2. CASE d # h + 1 /\ d # 0
      <4>1. g[d] = f[d] /\ g[d - 1] = f[d - 1] /\ d \in 0..h
        BY <3>2
      <4> QED BY <2>1, <4>1, <3>2 DEF IsDown
    <3>3. CASE d = 0
      <4>1. g[d] = f[d] /\ d \in 0..h
        BY <3>3
      <4> QED BY <2>1, <4>1, <3>3 DEF IsDown
    <3> QED BY <3>1, <3>2, <3>3
  <2>3. g = [d \in 0..(h + 1) |-> g[d]]
    OBVIOUS
  <2> HIDE DEF g
  <2>4. IsDown(g, n, h + 1)
    BY <2>2, <2>3 DEF IsDown
  <2> QED BY <2>4
<1> HIDE DEF T
<1>3. Nat \subseteq T
  BY <1>1, <1>2, NumberInduction
<1> QED BY <1>3 DEF T

\* the nodes of a tree, by their distance from the root
Down(n) == CHOOSE f : IsDown(f, n, n.level)

LEMMA DownIs ==
  ASSUME NEW n, n.level \in Nat
  PROVE  /\ Down(n)[0] = {n}
         /\ \A d \in 1..n.level : Down(n)[d] = UNION {Children(m) : m \in Down(n)[d - 1]}
         /\ NodesOf(n) = UNION {Down(n)[d] : d \in 0..n.level}
<1>1. IsDown(Down(n), n, n.level)
  BY DownExists DEF Down
<1>2. NodesOf(n) = UNION {Down(n)[d] : d \in 0..n.level}
  BY DEF NodesOf, Down, IsDown
<1> QED BY <1>1, <1>2 DEF IsDown

LEMMA LeafNodes ==
  ASSUME NEW n, n.level = 0
  PROVE  NodesOf(n) = {n}
<1>1. NodesOf(n) = UNION {Down(n)[d] : d \in 0..0} /\ Down(n)[0] = {n}
  BY DownIs
<1> QED BY <1>1

LEMMA InnerNodes ==
  ASSUME NEW n, n.level \in Nat \ {0}, \A c \in Children(n) : c.level = n.level - 1
  PROVE  NodesOf(n) = {n} \cup UNION {NodesOf(c) : c \in Children(n)}
<1> DEFINE L == n.level - 1
           T == {d \in Nat : d <= L => Down(n)[d + 1] = UNION {Down(c)[d] : c \in Children(n)}}
<1>0. L \in Nat /\ n.level = L + 1
  OBVIOUS
<1>1. \A c \in Children(n) :
        /\ Down(c)[0] = {c}
        /\ \A d \in 1..L : Down(c)[d] = UNION {Children(m) : m \in Down(c)[d - 1]}
        /\ NodesOf(c) = UNION {Down(c)[d] : d \in 0..L}
  BY <1>0, DownIs
<1>2. /\ Down(n)[0] = {n}
      /\ \A d \in 1..(L + 1) : Down(n)[d] = UNION {Children(m) : m \in Down(n)[d - 1]}
      /\ NodesOf(n) = UNION {Down(n)[d] : d \in 0..(L + 1)}
  BY <1>0, DownIs
<1> HIDE DEF L
<1>3. 0 \in T
  <2>1. Down(n)[1] = UNION {Children(m) : m \in Down(n)[0]}
    BY <1>0, <1>2
  <2>2. Down(n)[1] = Children(n)
    BY <2>1, <1>2
  <2> QED BY <2>2, <1>1
<1>4. ASSUME NEW d \in Nat, d \in T PROVE d + 1 \in T
  <2> SUFFICES ASSUME d + 1 <= L PROVE Down(n)[d + 1 + 1] = UNION {Down(c)[d + 1] : c \in Children(n)}
    OBVIOUS
  <2>1. Down(n)[d + 1 + 1] = UNION {Children(m) : m \in Down(n)[d + 1]}
    <3>1. d + 1 + 1 \in 1..(L + 1) /\ d + 1 + 1 - 1 = d + 1
      BY <1>0
    <3> QED BY <1>2, <3>1
  <2>2. Down(n)[d + 1] = UNION {Down(c)[d] : c \in Children(n)}
    BY <1>4, <1>0
  <2>3. \A c \in Children(n) : Down(c)[d + 1] = UNION {Children(m) : m \in Down(c)[d]}
    <3>1. d + 1 \in 1..L /\ d + 1 - 1 = d
      BY <1>0
    <3> QED BY <1>1, <3>1
  <2> QED BY <2>1, <2>2, <2>3
<1> HIDE DEF T
<1>5. Nat \subseteq T
  BY <1>3, <1>4, NumberInduction
<1>6. \A d \in 0..L : Down(n)[d + 1] = UNION {Down(c)[d] : c \in Children(n)}
  BY <1>5, <1>0 DEF T
<1>7. ASSUME NEW m \in NodesOf(n) PROVE m = n \/ \E c \in Children(n) : m \in NodesOf(c)
  <2>1. PICK d \in 0..(L + 1) : m \in Down(n)[d]
    BY <1>2
  <2>2. CASE d = 0
    BY <2>1, <2>2, <1>2
  <2>3. CASE d # 0
    <3>1. d - 1 \in 0..L /\ d - 1 + 1 = d
      BY <2>3, <1>0
    <3>2. PICK c \in Children(n) : m \in Down(c)[d - 1]
      BY <3>1, <1>6, <2>1
    <3> QED BY <3>1, <3>2, <1>1
  <2> QED BY <2>2, <2>3
<1>8. n \in NodesOf(n)
  <2>1. 0 \in 0..(L + 1)
    BY <1>0
  <2> QED BY <2>1, <1>2
<1>9. ASSUME NEW c \in Children(n), NEW m \in NodesOf(c) PROVE m \in NodesOf(n)
  <2>1. PICK d \in 0..L : m \in Down(c)[d]
    BY <1>1
  <2>2. m \in Down(n)[d + 1] /\ d + 1 \in 0..(L + 1)
    BY <2>1, <1>6, <1>0
  <2> QED BY <2>2, <1>2
<1> QED BY <1>7, <1>8, <1>9

\* What the nodes of a tree look like: the items of a leaf are rows, those of
\* any other node have a key and a child.
Shaped(n) ==
  /\ n = Node(n.level, n.items) /\ n.level \in Levels
  /\ n.items \in Seq(Range(n.items))
  /\ n.level = 0 => \A it \in Range(n.items) : it \in [key : Keys, val : Vals]
  /\ n.level > 0 => \A it \in Range(n.items) : it = [key |-> it.key, child |-> it.child] /\ it.key \in Keys

Whole(n) == \A m \in NodesOf(n) : Shaped(m) /\ Sorted(m)

LEMMA RootIn == ASSUME NEW n, n.level \in Nat PROVE n \in NodesOf(n)
<1>1. /\ Down(n)[0] = {n}
      /\ NodesOf(n) = UNION {Down(n)[d] : d \in 0..n.level}
  BY DownIs
<1>2. 0 \in 0..n.level
  OBVIOUS
<1> QED BY <1>1, <1>2

\* the items of a node
LEMMA ItemsAre ==
  ASSUME NEW n, Shaped(n), Sorted(n)
  PROVE  /\ n.level \in Levels /\ n.level \in Nat
         /\ Len(n.items) \in Nat \ {0} /\ DOMAIN n.items = 1..Len(n.items)
         /\ \A i \in 1..Len(n.items) : n.items[i].key \in Keys /\ n.items[i].key \in Nat \ {0}
         /\ \A i, j \in 1..Len(n.items) : i < j => n.items[i].key < n.items[j].key
         /\ LastKey(n) = n.items[Len(n.items)].key
<1>1. n.level \in Levels /\ n.level \in Nat
  BY ProllyTreeAssumption DEF Shaped, Levels
<1>2. n.items \in Seq(Range(n.items)) /\ n.items # <<>>
  BY DEF Shaped, Sorted
<1>3. Len(n.items) \in Nat \ {0} /\ DOMAIN n.items = 1..Len(n.items)
  BY <1>2
<1>4. \A i \in 1..Len(n.items) : n.items[i] \in Range(n.items)
  BY <1>3 DEF Range
<1>5. \A i \in 1..Len(n.items) : n.items[i].key \in Keys
  BY <1>1, <1>4 DEF Shaped
<1>6. Keys \subseteq Nat \ {0}
  BY ProllyTreeAssumption DEF Keys
<1>7. \A i, j \in 1..Len(n.items) : i < j => n.items[i].key < n.items[j].key
  BY <1>3 DEF Sorted
<1> QED BY <1>1, <1>3, <1>5, <1>6, <1>7 DEF LastKey, Last

LEMMA ChildrenAre ==
  ASSUME NEW n, Shaped(n), Sorted(n), n.level > 0
  PROVE  /\ n.level - 1 \in Nat
         /\ Children(n) = {n.items[i].child : i \in 1..Len(n.items)}
         /\ \A i \in 1..Len(n.items) :
              /\ n.items[i].child.level = n.level - 1 /\ n.items[i].child.items # <<>>
              /\ n.items[i].key = LastKey(n.items[i].child)
              /\ n.items[i] = Up(n.items[i].child)
              /\ \A k \in KeysOf(Rows(n.items[i].child)) :
                   k <= n.items[i].key /\ (i > 1 => k > n.items[i - 1].key)
<1>1. n.level \in Nat /\ DOMAIN n.items = 1..Len(n.items)
  BY ItemsAre
<1>2. Children(n) = {n.items[i].child : i \in 1..Len(n.items)}
  BY <1>1 DEF Children
<1>3. \A i \in 1..Len(n.items) :
              /\ n.items[i].child.level = n.level - 1 /\ n.items[i].child.items # <<>>
              /\ n.items[i].key = LastKey(n.items[i].child)
              /\ \A k \in KeysOf(Rows(n.items[i].child)) :
                   k <= n.items[i].key /\ (i > 1 => k > n.items[i - 1].key)
  BY <1>1 DEF Sorted
<1>4. \A i \in 1..Len(n.items) : n.items[i] = [key |-> n.items[i].key, child |-> n.items[i].child]
  BY <1>1 DEF Shaped, Range
<1>5. \A i \in 1..Len(n.items) : n.items[i] = Up(n.items[i].child)
  BY <1>3, <1>4 DEF Up
<1> QED BY <1>1, <1>2, <1>3, <1>5

\* what is below the root of a tree is a tree
LEMMA WholeRoot == ASSUME NEW n, n.level \in Nat, Whole(n) PROVE Shaped(n) /\ Sorted(n)
BY RootIn DEF Whole

LEMMA NodesUnfold ==
  ASSUME NEW n, Shaped(n), Sorted(n)
  PROVE  /\ n.level = 0 => NodesOf(n) = {n}
         /\ n.level > 0 => NodesOf(n) = {n} \cup UNION {NodesOf(c) : c \in Children(n)}
         /\ n \in NodesOf(n)
<1>1. n.level \in Nat
  BY ItemsAre
<1>2. n.level = 0 => NodesOf(n) = {n}
  BY LeafNodes
<1>3. ASSUME n.level > 0 PROVE NodesOf(n) = {n} \cup UNION {NodesOf(c) : c \in Children(n)}
  <2>1. \A c \in Children(n) : c.level = n.level - 1
    BY <1>3, ChildrenAre
  <2>2. n.level \in Nat \ {0}
    BY <1>1, <1>3
  <2> QED BY <2>1, <2>2, InnerNodes
<1> QED BY <1>1, <1>2, <1>3, RootIn

LEMMA WholeChild ==
  ASSUME NEW n, n.level \in Nat, Whole(n), NEW c \in Children(n)
  PROVE  Whole(c) /\ c.level \in Nat /\ c.level = n.level - 1 /\ c \in NodesOf(n)
         /\ NodesOf(c) \subseteq NodesOf(n) /\ n.level > 0
<1>1. Shaped(n) /\ Sorted(n)
  BY WholeRoot
<1>2. n.level > 0
  BY DEF Children
<1>3. c.level = n.level - 1 /\ c.level \in Nat
  BY <1>1, <1>2, ChildrenAre
<1>4. NodesOf(n) = {n} \cup UNION {NodesOf(m) : m \in Children(n)}
  BY <1>1, <1>2, NodesUnfold
<1>5. NodesOf(c) \subseteq NodesOf(n)
  BY <1>4
<1>6. c \in NodesOf(c)
  BY <1>3, RootIn
<1> QED BY <1>2, <1>3, <1>5, <1>6 DEF Whole

LEMMA WholeFromChildren ==
  ASSUME NEW n, Shaped(n), Sorted(n), n.level > 0 => \A c \in Children(n) : Whole(c)
  PROVE  Whole(n)
<1>1. CASE n.level = 0
  BY <1>1, NodesUnfold DEF Whole
<1>2. CASE n.level > 0
  BY <1>2, NodesUnfold DEF Whole
<1>3. n.level \in Nat
  BY ItemsAre
<1> QED BY <1>1, <1>2, <1>3

\* Induction over the nodes of a tree, from the leaves up
LEMMA NodeInduction ==
  ASSUME NEW root, root.level \in Nat, Whole(root), NEW S,
         \A n \in NodesOf(root) : Whole(n) /\ n.level \in Nat /\ Children(n) \subseteq S => n \in S
  PROVE  NodesOf(root) \subseteq S
<1> DEFINE T == {l \in Nat : \A n : Whole(n) /\ n.level = l /\ NodesOf(n) \subseteq NodesOf(root)
                                    => NodesOf(n) \subseteq S}
<1>1. ASSUME NEW l \in Nat, \A n : Whole(n) /\ n.level \in Nat /\ n.level + 1 = l /\ NodesOf(n) \subseteq NodesOf(root)
                                 => NodesOf(n) \subseteq S,
             NEW n, Whole(n), n.level = l, NodesOf(n) \subseteq NodesOf(root)
      PROVE  NodesOf(n) \subseteq S
  <2>1. Shaped(n) /\ Sorted(n)
    BY <1>1, WholeRoot
  <2>2. \A c \in Children(n) : /\ Whole(c) /\ c.level \in Nat /\ c.level + 1 = l
                               /\ NodesOf(c) \subseteq NodesOf(n) /\ c \in NodesOf(c)
    <3> TAKE c \in Children(n)
    <3>1. Whole(c) /\ c.level \in Nat /\ c.level = n.level - 1 /\ NodesOf(c) \subseteq NodesOf(n)
      BY <1>1, WholeChild
    <3>2. c \in NodesOf(c)
      BY <3>1, RootIn
    <3> QED BY <3>1, <3>2, <1>1
  <2>3. \A c \in Children(n) : NodesOf(c) \subseteq S /\ c \in S
    BY <1>1, <2>2
  <2>4. n \in NodesOf(n)
    BY <1>1, RootIn
  <2>5. n \in S
    BY <1>1, <2>3, <2>4
  <2>6. NodesOf(n) \subseteq {n} \cup UNION {NodesOf(c) : c \in Children(n)}
    BY <2>1, NodesUnfold, ItemsAre
  <2> QED BY <2>3, <2>5, <2>6
<1>2. 0 \in T
  <2>1. ~ \E n : n.level \in Nat /\ n.level + 1 = 0
    OBVIOUS
  <2> QED BY <1>1, <2>1
<1>3. ASSUME NEW l \in Nat, l \in T PROVE l + 1 \in T
  <2>1. \A n : Whole(n) /\ n.level \in Nat /\ n.level + 1 = l + 1 /\ NodesOf(n) \subseteq NodesOf(root)
               => NodesOf(n) \subseteq S
    BY <1>3
  <2> QED BY <1>1, <2>1
<1> HIDE DEF T
<1>4. Nat \subseteq T
  BY <1>2, <1>3, NumberInduction
<1> QED BY <1>4 DEF T

-----------------------------------------------------------------------------
(* The rows of a tree.                                                     *)

LEMMA RowsUnfold ==
  ASSUME NEW n, Shaped(n), Sorted(n)
  PROVE  /\ n.level = 0 => Rows(n) = {n.items[i] : i \in 1..Len(n.items)}
         /\ n.level > 0 => Rows(n) = UNION {Rows(n.items[i].child) : i \in 1..Len(n.items)}
<1>1. n.level \in Nat /\ DOMAIN n.items = 1..Len(n.items)
  BY ItemsAre
<1>2. ASSUME n.level = 0 PROVE Rows(n) = {n.items[i] : i \in 1..Len(n.items)}
  <2>1. NodesOf(n) = {n}
    BY <1>2, NodesUnfold
  <2>2. {m \in NodesOf(n) : m.level = 0} = {n}
    BY <1>2, <2>1
  <2>3. Rows(n) = Range(n.items)
    BY <2>2 DEF Rows
  <2> QED BY <2>3, <1>1 DEF Range
<1>3. ASSUME n.level > 0 PROVE Rows(n) = UNION {Rows(n.items[i].child) : i \in 1..Len(n.items)}
  <2>1. NodesOf(n) = {n} \cup UNION {NodesOf(c) : c \in Children(n)}
    BY <1>3, NodesUnfold
  <2>2. Children(n) = {n.items[i].child : i \in 1..Len(n.items)}
    BY <1>3, ChildrenAre
  <2>3. {m \in NodesOf(n) : m.level = 0} = UNION {{m \in NodesOf(c) : m.level = 0} : c \in Children(n)}
    <3>1. n.level # 0
      BY <1>3
    <3> QED BY <2>1, <3>1
  <2>4. Rows(n) = UNION {Rows(c) : c \in Children(n)}
    BY <2>3 DEF Rows
  <2> QED BY <2>2, <2>4
<1> QED BY <1>2, <1>3

LEMMA NodesIn ==
  ASSUME NEW root, root.level \in Nat, Whole(root), NEW n \in NodesOf(root)
  PROVE  /\ Whole(n) /\ n.level \in Nat /\ Shaped(n) /\ Sorted(n)
         /\ NodesOf(n) \subseteq NodesOf(root) /\ Rows(n) \subseteq Rows(root)
<1> DEFINE S == {m \in NodesOf(root) : Whole(m) /\ m.level \in Nat /\ NodesOf(m) \subseteq NodesOf(root)}
<1>1. ASSUME NEW m \in NodesOf(root), Whole(m), m.level \in Nat, Children(m) \subseteq S PROVE m \in S
  <2>1. NodesOf(m) \subseteq {m} \cup UNION {NodesOf(c) : c \in Children(m)}
    BY <1>1, NodesUnfold, WholeRoot
  <2> QED BY <1>1, <2>1
<1> HIDE DEF S
<1>2. NodesOf(root) \subseteq S
  BY <1>1, NodeInduction
<1>3. Whole(n) /\ n.level \in Nat /\ NodesOf(n) \subseteq NodesOf(root)
  BY <1>2 DEF S
<1> QED BY <1>3, WholeRoot DEF Rows

\* The rows under an item, and the key they come after.
RowsAt(n, i) == IF n.level = 0 THEN {n.items[i]} ELSE Rows(n.items[i].child)
Start(n, i) == IF i = 1 THEN 0 ELSE n.items[i - 1].key

\* Rows with one value per key.
AreRows(R) ==
  /\ \A r \in R : r \in [key : Keys, val : Vals]
  /\ \A r, s \in R : r.key = s.key => r = s

LEMMA RowsByItem ==
  ASSUME NEW n, Shaped(n), Sorted(n)
  PROVE  /\ Rows(n) = UNION {RowsAt(n, i) : i \in 1..Len(n.items)}
         /\ \A i \in 1..Len(n.items) : Start(n, i) \in Nat /\ n.items[i].key \in Nat /\ Start(n, i) < n.items[i].key
         /\ \A i, j \in 1..Len(n.items) : i < j => n.items[i].key <= Start(n, j)
<1>1. /\ n.level \in Nat /\ Len(n.items) \in Nat
      /\ \A i \in 1..Len(n.items) : n.items[i].key \in Nat \ {0}
      /\ \A i, j \in 1..Len(n.items) : i < j => n.items[i].key < n.items[j].key
  BY ItemsAre
<1>2. CASE n.level = 0
  <2>1. Rows(n) = {n.items[i] : i \in 1..Len(n.items)}
    BY <1>2, RowsUnfold
  <2>2. UNION {RowsAt(n, i) : i \in 1..Len(n.items)} = {n.items[i] : i \in 1..Len(n.items)}
    BY <1>2 DEF RowsAt
  <2>3. Rows(n) = UNION {RowsAt(n, i) : i \in 1..Len(n.items)}
    BY <2>1, <2>2
  <2> QED BY <2>3, <1>1 DEF Start
<1>3. CASE n.level > 0
  <2>1. Rows(n) = UNION {Rows(n.items[i].child) : i \in 1..Len(n.items)}
    BY <1>3, RowsUnfold
  <2>2. n.level # 0
    BY <1>3
  <2>3. UNION {RowsAt(n, i) : i \in 1..Len(n.items)} = UNION {Rows(n.items[i].child) : i \in 1..Len(n.items)}
    BY <2>2 DEF RowsAt
  <2>4. Rows(n) = UNION {RowsAt(n, i) : i \in 1..Len(n.items)}
    BY <2>1, <2>3
  <2> QED BY <2>4, <1>1 DEF Start
<1> QED BY <1>1, <1>2, <1>3

\* what is known of the rows of a node once it is known of its children
RowsOk(n) ==
  /\ AreRows(Rows(n))
  /\ \A r \in Rows(n) : r.key <= LastKey(n)
  /\ LastKey(n) \in KeysOf(Rows(n))

LEMMA RowsAtAre ==
  ASSUME NEW n, Shaped(n), Sorted(n), n.level > 0 => \A c \in Children(n) : RowsOk(c)
  PROVE  \A i \in 1..Len(n.items) :
           /\ AreRows(RowsAt(n, i))
           /\ \A r \in RowsAt(n, i) : Start(n, i) < r.key /\ r.key <= n.items[i].key
           /\ n.items[i].key \in KeysOf(RowsAt(n, i))
<1> SUFFICES ASSUME NEW i \in 1..Len(n.items)
             PROVE  /\ AreRows(RowsAt(n, i))
                    /\ \A r \in RowsAt(n, i) : Start(n, i) < r.key /\ r.key <= n.items[i].key
                    /\ n.items[i].key \in KeysOf(RowsAt(n, i))
  OBVIOUS
<1>1. n.level \in Nat /\ n.items[i].key \in Nat /\ Start(n, i) < n.items[i].key /\ DOMAIN n.items = 1..Len(n.items)
  BY RowsByItem, ItemsAre
<1>2. CASE n.level = 0
  <2>1. RowsAt(n, i) = {n.items[i]}
    BY <1>2 DEF RowsAt
  <2>2. n.items[i] \in [key : Keys, val : Vals]
    BY <1>1, <1>2 DEF Shaped, Range
  <2>3. AreRows(RowsAt(n, i))
    BY <2>1, <2>2 DEF AreRows
  <2>4. n.items[i].key \in KeysOf(RowsAt(n, i))
    BY <2>1 DEF KeysOf
  <2> QED BY <1>1, <2>1, <2>3, <2>4
<1>3. CASE n.level > 0
  <2> DEFINE c == n.items[i].child
  <2>1. c \in Children(n) /\ n.items[i].key = LastKey(c)
        /\ \A k \in KeysOf(Rows(c)) : k <= n.items[i].key /\ (i > 1 => k > n.items[i - 1].key)
    BY <1>3, ChildrenAre
  <2>2. RowsAt(n, i) = Rows(c)
    BY <1>3 DEF RowsAt
  <2>3. AreRows(Rows(c)) /\ LastKey(c) \in KeysOf(Rows(c))
    BY <1>3, <2>1 DEF RowsOk
  <2> HIDE DEF c
  <2>4. \A r \in Rows(c) : r.key \in KeysOf(Rows(c)) /\ r.key \in Keys
    BY <2>3 DEF AreRows, KeysOf
  <2>5. Keys \subseteq Nat \ {0}
    BY ProllyTreeAssumption DEF Keys
  <2>6. \A r \in Rows(c) : Start(n, i) < r.key /\ r.key <= n.items[i].key
    <3> TAKE r \in Rows(c)
    <3>1. r.key <= n.items[i].key /\ (i > 1 => r.key > n.items[i - 1].key) /\ r.key \in Nat \ {0}
      BY <2>1, <2>4, <2>5
    <3>2. CASE i = 1
      BY <3>1, <3>2 DEF Start
    <3>3. CASE i # 1
      <4>1. i > 1 /\ i - 1 \in 1..Len(n.items)
        BY <3>3, ItemsAre
      <4>2. n.items[i - 1].key \in Nat
        BY <4>1, RowsByItem
      <4> QED BY <3>1, <3>3, <4>1, <4>2 DEF Start
    <3> QED BY <3>2, <3>3
  <2> QED BY <2>1, <2>2, <2>3, <2>6
<1> QED BY <1>1, <1>2, <1>3

LEMMA RowsOkUp ==
  ASSUME NEW n, Shaped(n), Sorted(n), n.level > 0 => \A c \in Children(n) : RowsOk(c)
  PROVE  RowsOk(n)
<1> DEFINE m == Len(n.items)
<1>1. /\ m \in Nat \ {0} /\ LastKey(n) = n.items[m].key
      /\ \A i \in 1..m : n.items[i].key \in Nat
      /\ \A i, j \in 1..m : i < j => n.items[i].key < n.items[j].key
  BY ItemsAre
<1>2. /\ Rows(n) = UNION {RowsAt(n, i) : i \in 1..m}
      /\ \A i \in 1..m : Start(n, i) \in Nat
      /\ \A i, j \in 1..m : i < j => n.items[i].key <= Start(n, j)
  BY RowsByItem
<1>3. \A i \in 1..m :
           /\ AreRows(RowsAt(n, i))
           /\ \A r \in RowsAt(n, i) : Start(n, i) < r.key /\ r.key <= n.items[i].key
           /\ n.items[i].key \in KeysOf(RowsAt(n, i))
  BY RowsAtAre
<1> HIDE DEF m
<1>4. \A r \in Rows(n) : r \in [key : Keys, val : Vals]
  BY <1>2, <1>3 DEF AreRows
<1>5. \A r \in Rows(n) : r.key \in Nat
  BY <1>4, ProllyTreeAssumption DEF Keys
<1>6. ASSUME NEW r \in Rows(n), NEW s \in Rows(n), r.key = s.key PROVE r = s
  <2>1. PICK i \in 1..m : r \in RowsAt(n, i)
    BY <1>2
  <2>2. PICK j \in 1..m : s \in RowsAt(n, j)
    BY <1>2
  <2>3. Start(n, i) < r.key /\ r.key <= n.items[i].key /\ Start(n, j) < s.key /\ s.key <= n.items[j].key
    BY <1>3, <2>1, <2>2
  <2>4. r.key \in Nat /\ Start(n, i) \in Nat /\ Start(n, j) \in Nat /\ n.items[i].key \in Nat /\ n.items[j].key \in Nat
        /\ (i < j => n.items[i].key <= Start(n, j)) /\ (j < i => n.items[j].key <= Start(n, i))
    BY <1>1, <1>2, <1>5
  <2>5. ~(i < j) /\ ~(j < i)
    BY <1>6, <2>3, <2>4
  <2>6. i = j
    BY <2>5, <1>1
  <2> QED BY <2>1, <2>2, <2>6, <1>3, <1>6 DEF AreRows
<1>7. ASSUME NEW r \in Rows(n) PROVE r.key <= LastKey(n)
  <2>1. PICK i \in 1..m : r \in RowsAt(n, i)
    BY <1>2
  <2>2. r.key <= n.items[i].key /\ (i < m => n.items[i].key < n.items[m].key) /\ m \in 1..m
    BY <1>1, <1>3, <2>1
  <2> QED BY <1>1, <1>5, <2>2
<1>8. LastKey(n) \in KeysOf(Rows(n))
  <2>1. m \in 1..m
    BY <1>1
  <2>2. PICK r \in RowsAt(n, m) : n.items[m].key = r.key
    BY <2>1, <1>3 DEF KeysOf
  <2> QED BY <2>1, <2>2, <1>1, <1>2 DEF KeysOf
<1> QED BY <1>4, <1>6, <1>7, <1>8 DEF RowsOk, AreRows

LEMMA RowsAre ==
  ASSUME NEW n, n.level \in Nat, Whole(n)
  PROVE  RowsOk(n)
<1> DEFINE S == {m \in NodesOf(n) : RowsOk(m)}
<1>1. ASSUME NEW m \in NodesOf(n), Whole(m), m.level \in Nat, Children(m) \subseteq S PROVE m \in S
  BY <1>1, RowsOkUp, WholeRoot
<1> HIDE DEF S
<1>2. NodesOf(n) \subseteq S
  BY <1>1, NodeInduction
<1> QED BY <1>2, RootIn DEF S

-----------------------------------------------------------------------------
(* Tables: the rows of a tree by key.                                      *)

Has(T) == {k \in Keys : T[k] # Absent}
Within(T, lo, hi) == [k \in Keys |-> IF lo < k /\ k <= hi THEN T[k] ELSE Absent]

LEMMA KeysAre == Keys \subseteq Nat \ {0} /\ MaxKey \in Nat /\ \A k \in Keys : k <= MaxKey
BY ProllyTreeAssumption DEF Keys

LEMMA AsTableIs ==
  ASSUME NEW R, AreRows(R)
  PROVE  /\ AsTable(R) \in Table
         /\ \A r \in R : r.key \in Keys /\ AsTable(R)[r.key] = r.val /\ r.val # Absent
         /\ KeysOf(R) = Has(AsTable(R))
<1>1. \A r \in R : r.key \in Keys /\ r.val \in Vals /\ r.val # Absent
  BY ProllyTreeAssumption DEF AreRows, Absent
<1>2. ASSUME NEW r \in R PROVE AsTable(R)[r.key] = r.val
  <2>1. r.key \in Keys /\ r.key \in KeysOf(R)
    BY <1>1 DEF KeysOf
  <2>2. \A s \in R : s.key = r.key => s = r
    BY DEF AreRows
  <2>3. (CHOOSE s \in R : s.key = r.key) = r
    BY <2>2
  <2> QED BY <2>1, <2>3 DEF AsTable
<1>3. \A k \in Keys : k \notin KeysOf(R) => AsTable(R)[k] = Absent
  BY DEF AsTable
<1>4. \A k \in KeysOf(R) : k \in Keys /\ AsTable(R)[k] \in Vals /\ AsTable(R)[k] # Absent
  BY <1>1, <1>2 DEF KeysOf
<1>5. KeysOf(R) = Has(AsTable(R))
  BY <1>3, <1>4 DEF Has
<1>6. AsTable(R) = [k \in Keys |-> AsTable(R)[k]]
  BY DEF AsTable
<1>7. \A k \in Keys : AsTable(R)[k] \in Vals \cup {Absent}
  BY <1>3, <1>4
<1>8. AsTable(R) \in Table
  BY <1>6, <1>7 DEF Table
<1> QED BY <1>1, <1>2, <1>5, <1>8

LEMMA TableIs ==
  ASSUME NEW n, n.level \in Nat, Whole(n)
  PROVE  /\ TableOf(n) \in Table
         /\ KeysOf(Rows(n)) = Has(TableOf(n))
         /\ LastKey(n) \in Has(TableOf(n)) /\ LastKey(n) \in Keys
         /\ \A k \in Has(TableOf(n)) : k <= LastKey(n)
<1>1. RowsOk(n)
  BY RowsAre
<1>2. KeysOf(Rows(n)) = Has(TableOf(n)) /\ TableOf(n) \in Table
  BY <1>1, AsTableIs DEF RowsOk, TableOf
<1>3. \A k \in KeysOf(Rows(n)) : k <= LastKey(n)
  BY <1>1 DEF RowsOk, KeysOf
<1> QED BY <1>1, <1>2, <1>3 DEF RowsOk, Has

\* some of the rows are a part of the table
LEMMA PartTable ==
  ASSUME NEW R, AreRows(R), NEW lo \in Nat, NEW hi \in Nat, NEW Q,
         Q = {r \in R : lo < r.key /\ r.key <= hi}
  PROVE  AsTable(Q) = Within(AsTable(R), lo, hi) /\ AreRows(Q)
<1>1. AreRows(Q)
  BY DEF AreRows
<1>2. ASSUME NEW k \in Keys PROVE AsTable(Q)[k] = Within(AsTable(R), lo, hi)[k]
  <2>1. Within(AsTable(R), lo, hi)[k] = IF lo < k /\ k <= hi THEN AsTable(R)[k] ELSE Absent
    BY DEF Within
  <2>2. CASE k \in KeysOf(Q)
    <3>1. PICK r \in Q : r.key = k
      BY <2>2 DEF KeysOf
    <3>2. AsTable(Q)[k] = r.val /\ AsTable(R)[k] = r.val
      BY <3>1, <1>1, AsTableIs
    <3> QED BY <3>1, <3>2, <2>1
  <2>3. CASE k \notin KeysOf(Q)
    <3>1. AsTable(Q)[k] = Absent
      BY <2>3 DEF AsTable
    <3>2. ASSUME lo < k, k <= hi PROVE AsTable(R)[k] = Absent
      <4>1. k \notin KeysOf(R)
        BY <2>3, <3>2 DEF KeysOf
      <4> QED BY <4>1 DEF AsTable
    <3> QED BY <2>1, <3>1, <3>2
  <2> QED BY <2>2, <2>3
<1>3. AsTable(Q) = [k \in Keys |-> AsTable(Q)[k]] /\ Within(AsTable(R), lo, hi) = [k \in Keys |-> Within(AsTable(R), lo, hi)[k]]
  BY DEF AsTable, Within
<1> QED BY <1>1, <1>2, <1>3

LEMMA RowsAtPart ==
  ASSUME NEW n, n.level \in Nat, Whole(n), NEW i \in 1..Len(n.items)
  PROVE  /\ AreRows(RowsAt(n, i))
         /\ RowsAt(n, i) = {r \in Rows(n) : Start(n, i) < r.key /\ r.key <= n.items[i].key}
         /\ AsTable(RowsAt(n, i)) = Within(TableOf(n), Start(n, i), n.items[i].key)
<1>0. Shaped(n) /\ Sorted(n)
  BY WholeRoot
<1>1. n.level > 0 => \A c \in Children(n) : RowsOk(c)
  BY WholeChild, RowsAre
<1>2. \A j \in 1..Len(n.items) :
           /\ AreRows(RowsAt(n, j))
           /\ \A r \in RowsAt(n, j) : Start(n, j) < r.key /\ r.key <= n.items[j].key
  BY <1>0, <1>1, RowsAtAre
<1>3. /\ Rows(n) = UNION {RowsAt(n, j) : j \in 1..Len(n.items)}
      /\ \A j \in 1..Len(n.items) : Start(n, j) \in Nat /\ n.items[j].key \in Nat
      /\ \A j, k \in 1..Len(n.items) : j < k => n.items[j].key <= Start(n, k)
  BY <1>0, RowsByItem
<1>4. AreRows(Rows(n))
  BY RowsAre DEF RowsOk
<1>5. \A r \in Rows(n) : r.key \in Nat
  BY <1>4, KeysAre DEF AreRows
<1>6. ASSUME NEW r \in Rows(n), Start(n, i) < r.key, r.key <= n.items[i].key PROVE r \in RowsAt(n, i)
  <2>1. PICK j \in 1..Len(n.items) : r \in RowsAt(n, j)
    BY <1>3
  <2>2. Start(n, j) < r.key /\ r.key <= n.items[j].key
    BY <1>2, <2>1
  <2>3. r.key \in Nat /\ Start(n, i) \in Nat /\ Start(n, j) \in Nat /\ n.items[i].key \in Nat /\ n.items[j].key \in Nat
        /\ (i < j => n.items[i].key <= Start(n, j)) /\ (j < i => n.items[j].key <= Start(n, i))
    BY <1>3, <1>5
  <2>4. ~(i < j) /\ ~(j < i)
    BY <1>6, <2>2, <2>3
  <2>5. i = j
    BY <2>4, <1>0, ItemsAre
  <2> QED BY <2>1, <2>5
<1>7. RowsAt(n, i) = {r \in Rows(n) : Start(n, i) < r.key /\ r.key <= n.items[i].key}
  BY <1>2, <1>3, <1>6
<1> QED BY <1>2, <1>3, <1>4, <1>7, PartTable DEF TableOf

LEMMA ChildTable ==
  ASSUME NEW n, n.level \in Nat, Whole(n), n.level > 0, NEW i \in 1..Len(n.items)
  PROVE  TableOf(n.items[i].child) = Within(TableOf(n), Start(n, i), n.items[i].key)
<1>1. RowsAt(n, i) = Rows(n.items[i].child)
  BY DEF RowsAt
<1> QED BY <1>1, RowsAtPart DEF TableOf

LEMMA LeafTable ==
  ASSUME NEW n, Whole(n), n.level = 0, NEW i \in 1..Len(n.items)
  PROVE  /\ n.items[i] = Row(n.items[i].key, TableOf(n)[n.items[i].key]) /\ TableOf(n)[n.items[i].key] # Absent
         /\ \A k \in Keys : Start(n, i) < k /\ k < n.items[i].key => TableOf(n)[k] = Absent
<1>0. n.level \in Nat /\ Shaped(n) /\ Sorted(n)
  BY WholeRoot
<1>1. RowsAt(n, i) = {n.items[i]}
  BY DEF RowsAt
<1>2. n.items[i] \in Rows(n) /\ AreRows(Rows(n))
  BY <1>0, <1>1, RowsAtPart, RowsAre DEF RowsOk
<1>3. n.items[i] \in [key : Keys, val : Vals]
  BY <1>2 DEF AreRows
<1>4. TableOf(n)[n.items[i].key] = n.items[i].val /\ TableOf(n)[n.items[i].key] # Absent
  BY <1>2, AsTableIs DEF TableOf
<1>5. n.items[i] = Row(n.items[i].key, n.items[i].val)
  BY <1>3 DEF Row
<1>6. ASSUME NEW k \in Keys, Start(n, i) < k, k < n.items[i].key PROVE TableOf(n)[k] = Absent
  <2> SUFFICES ASSUME TableOf(n)[k] # Absent PROVE FALSE
    OBVIOUS
  <2>1. k \in KeysOf(Rows(n))
    BY <1>0, TableIs DEF Has
  <2>2. PICK r \in Rows(n) : r.key = k
    BY <2>1 DEF KeysOf
  <2>3. n.items[i].key \in Nat /\ k \in Nat
    BY <1>0, ItemsAre, KeysAre
  <2>4. r \in RowsAt(n, i)
    BY <1>0, <1>6, <2>2, <2>3, RowsAtPart
  <2> QED BY <1>1, <1>6, <2>2, <2>3, <2>4
<1> QED BY <1>4, <1>5, <1>6

-----------------------------------------------------------------------------
(* The chunker, one item at a time.                                        *)

IsChunker(ch) == ch = [at |-> [l \in Levels |-> ch.at[l]], up |-> ch.up]

\* a chunker with other items at one level
Put(ch, l, items) == [ch EXCEPT !.at[l] = items]

LEMMA LevelsAre == Depth \in Nat \ {0} /\ Levels = 0..(Depth - 1) /\ 0 \in Levels
                   /\ \A l \in Levels : l \in Nat /\ l # Depth /\ l < Depth /\ l + 1 \in 0..Depth
BY ProllyTreeAssumption DEF Levels

LEMMA PutIs ==
  ASSUME NEW ch, IsChunker(ch), NEW l \in Levels, NEW items
  PROVE  /\ IsChunker(Put(ch, l, items)) /\ Put(ch, l, items).up = ch.up
         /\ Put(ch, l, items).at[l] = items
         /\ \A m \in Levels : m # l => Put(ch, l, items).at[m] = ch.at[m]
         /\ Put(ch, l, items) = [at |-> [ch.at EXCEPT ![l] = items], up |-> ch.up]
<1>1. Put(ch, l, items) = [at |-> [ch.at EXCEPT ![l] = items], up |-> ch.up]
  BY DEF Put, IsChunker
<1>2. [ch.at EXCEPT ![l] = items] = [m \in Levels |-> IF m = l THEN items ELSE ch.at[m]]
  BY DEF IsChunker
<1>3. Put(ch, l, items).at = [m \in Levels |-> IF m = l THEN items ELSE ch.at[m]]
      /\ Put(ch, l, items).up = ch.up
  BY <1>1, <1>2
<1>4. Put(ch, l, items) = [at |-> Put(ch, l, items).at, up |-> Put(ch, l, items).up]
  BY <1>1
<1>5. Put(ch, l, items).at = [m \in Levels |-> Put(ch, l, items).at[m]]
  BY <1>3
<1> QED BY <1>1, <1>3, <1>4, <1>5 DEF IsChunker

\* two chunkers are the same when the same waits at every level
LEMMA SameChunker ==
  ASSUME NEW c, NEW d, IsChunker(c), IsChunker(d), c.up = d.up, \A l \in Levels : c.at[l] = d.at[l]
  PROVE  c = d
BY DEF IsChunker

LEMMA NoItemsIs == IsChunker(NoItems) /\ ~Full(NoItems) /\ \A l \in Levels : NoItems.at[l] = <<>>
BY DEF IsChunker, NoItems, Full

RisesTo(f, c, l, top) == f = [m \in l..top |-> IF m = l THEN c ELSE Take(f[m - 1], m - 1)]
IsRise(f, c, l) == RisesTo(f, c, l, Depth)

LEMMA RiseExists ==
  ASSUME NEW c, NEW l \in Nat
  PROVE  \A d \in Nat : \E f : RisesTo(f, c, l, l + d)
<1> DEFINE T == {d \in Nat : \E f : RisesTo(f, c, l, l + d)}
<1>1. 0 \in T
  <2> DEFINE f == [m \in l..(l + 0) |-> c]
  <2>1. RisesTo(f, c, l, l + 0)
    BY DEF RisesTo
  <2> QED BY <2>1
<1>2. ASSUME NEW d \in Nat, d \in T PROVE d + 1 \in T
  <2>1. PICK f : RisesTo(f, c, l, l + d)
    BY <1>2
  <2> DEFINE e == l + (d + 1)
             g == [m \in l..e |-> IF m = e THEN Take(f[l + d], l + d) ELSE f[m]]
  <2>2. \A m \in l..e : g[m] = IF m = l THEN c ELSE Take(g[m - 1], m - 1)
    <3> TAKE m \in l..e
    <3>1. CASE m = e
      <4>1. m # l /\ m - 1 = l + d /\ m - 1 \in l..e /\ m - 1 # e
        BY <3>1
      <4>2. g[m] = Take(f[l + d], l + d) /\ g[m - 1] = f[l + d]
        BY <3>1, <4>1
      <4> QED BY <4>1, <4>2
    <3>2. CASE m # e /\ m # l
      <4>1. m \in l..(l + d) /\ m - 1 \in l..e /\ m - 1 # e
        BY <3>2
      <4>2. g[m] = f[m] /\ g[m - 1] = f[m - 1]
        BY <3>2, <4>1
      <4>3. f[m] = Take(f[m - 1], m - 1)
        BY <2>1, <3>2, <4>1 DEF RisesTo
      <4> QED BY <3>2, <4>2, <4>3
    <3>3. CASE m = l
      <4>1. m \in l..(l + d) /\ m # e
        BY <3>3
      <4>2. f[m] = c
        BY <2>1, <3>3, <4>1 DEF RisesTo
      <4> QED BY <3>3, <4>1, <4>2
    <3> QED BY <3>1, <3>2, <3>3
  <2>3. g = [m \in l..e |-> g[m]]
    OBVIOUS
  <2> HIDE DEF g
  <2>4. RisesTo(g, c, l, l + (d + 1))
    BY <2>2, <2>3 DEF RisesTo
  <2> QED BY <2>4
<1> HIDE DEF T
<1>3. Nat \subseteq T
  BY <1>1, <1>2, NumberInduction
<1> QED BY <1>3 DEF T

Rise(c, l) == (CHOOSE f : IsRise(f, c, l))[Depth]

\* one step up
LEMMA RiseStep ==
  ASSUME NEW c, NEW l \in 0..Depth
  PROVE  /\ l = Depth => Rise(c, l) = c
         /\ l < Depth => Rise(c, l) = Rise(Take(c, l), l + 1)
<1>0. Depth \in Nat /\ l \in Nat
  BY LevelsAre
<1>1. \A x, k : k \in 0..Depth => \E f : IsRise(f, x, k)
  <2> SUFFICES ASSUME NEW x, NEW k \in 0..Depth PROVE \E f : IsRise(f, x, k)
    OBVIOUS
  <2>1. k \in Nat /\ Depth - k \in Nat /\ k + (Depth - k) = Depth
    BY <1>0
  <2>2. \A d \in Nat : \E f : RisesTo(f, x, k, k + d)
    BY <2>1, RiseExists
  <2>3. \E f : RisesTo(f, x, k, k + (Depth - k))
    BY <2>1, <2>2
  <2> QED BY <2>1, <2>3 DEF IsRise
<1>2. PICK f : f = (CHOOSE h : IsRise(h, c, l)) /\ IsRise(f, c, l)
  BY <1>1
<1>3. CASE l = Depth
  <2>1. f[Depth] = c
    BY <1>0, <1>2, <1>3 DEF IsRise, RisesTo
  <2> QED BY <1>2, <1>3, <2>1 DEF Rise
<1>4. CASE l < Depth
  <2>0. l + 1 \in 0..Depth
    BY <1>0, <1>4
  <2>1. PICK g : g = (CHOOSE h : IsRise(h, Take(c, l), l + 1)) /\ IsRise(g, Take(c, l), l + 1)
    BY <1>1, <2>0
  <2> DEFINE T == {d \in Nat : l + 1 + d <= Depth => f[l + 1 + d] = g[l + 1 + d]}
  <2>2. 0 \in T
    <3>1. f[l + 1] = Take(f[l], l) /\ f[l] = c
      <4>1. l \in l..Depth /\ l + 1 \in l..Depth /\ l + 1 - 1 = l /\ l + 1 # l
        BY <1>0, <1>4
      <4>2. \A m \in l..Depth : f[m] = IF m = l THEN c ELSE Take(f[m - 1], m - 1)
        BY <1>2 DEF IsRise, RisesTo
      <4>3. f[l] = c
        BY <4>1, <4>2
      <4>4. f[l + 1] = Take(f[l + 1 - 1], l + 1 - 1)
        BY <4>1, <4>2
      <4> QED BY <4>1, <4>3, <4>4
    <3>2. g[l + 1] = Take(c, l)
      <4>1. l + 1 \in (l + 1)..Depth
        BY <1>0, <1>4
      <4> QED BY <2>1, <4>1 DEF IsRise, RisesTo
    <3>3. l + 1 + 0 = l + 1
      BY <1>0
    <3> QED BY <3>1, <3>2, <3>3
  <2>3. ASSUME NEW d \in Nat, d \in T PROVE d + 1 \in T
    <3> SUFFICES ASSUME l + 1 + (d + 1) <= Depth PROVE f[l + 1 + (d + 1)] = g[l + 1 + (d + 1)]
      OBVIOUS
    <3> DEFINE m == l + 1 + (d + 1)
    <3>1. m \in l..Depth /\ m \in (l + 1)..Depth /\ m # l /\ m # l + 1 /\ m - 1 = l + 1 + d /\ l + 1 + d <= Depth
      BY <1>0
    <3>2. f[m - 1] = g[m - 1]
      BY <2>3, <3>1
    <3> HIDE DEF m
    <3>3. f[m] = Take(f[m - 1], m - 1) /\ g[m] = Take(g[m - 1], m - 1)
      BY <1>2, <2>1, <3>1 DEF IsRise, RisesTo
    <3> QED BY <3>2, <3>3 DEF m
  <2> HIDE DEF T
  <2>4. Nat \subseteq T
    BY <2>2, <2>3, NumberInduction
  <2>5. Depth - (l + 1) \in Nat /\ l + 1 + (Depth - (l + 1)) = Depth
    BY <1>0, <1>4
  <2>6. f[Depth] = g[Depth]
    BY <2>4, <2>5 DEF T
  <2> QED BY <1>2, <2>1, <2>6, <1>4 DEF Rise
<1> QED BY <1>3, <1>4, <1>0

\* without an item on its way nothing changes
LEMMA RiseIdle ==
  ASSUME NEW c, c.up = <<>>, NEW l \in 0..Depth
  PROVE  Rise(c, l) = c
<1>0. Depth \in Nat
  BY LevelsAre
<1> DEFINE T == {d \in Nat : d <= Depth => Rise(c, Depth - d) = c}
<1>1. 0 \in T
  <2>1. Depth - 0 = Depth /\ Depth \in 0..Depth
    BY <1>0
  <2> QED BY <2>1, RiseStep
<1>2. ASSUME NEW d \in Nat, d \in T PROVE d + 1 \in T
  <2> SUFFICES ASSUME d + 1 <= Depth PROVE Rise(c, Depth - (d + 1)) = c
    OBVIOUS
  <2>1. Depth - (d + 1) \in 0..Depth /\ Depth - (d + 1) < Depth /\ Depth - (d + 1) + 1 = Depth - d /\ d <= Depth
    BY <1>0
  <2>2. Take(c, Depth - (d + 1)) = c
    BY DEF Take
  <2>3. Rise(c, Depth - (d + 1)) = Rise(c, Depth - d)
    BY <2>1, <2>2, RiseStep
  <2> QED BY <1>2, <2>1, <2>3
<1> HIDE DEF T
<1>3. Nat \subseteq T
  BY <1>1, <1>2, NumberInduction
<1>4. Depth - l \in Nat /\ Depth - (Depth - l) = l /\ Depth - l <= Depth
  BY <1>0
<1> QED BY <1>3, <1>4 DEF T

LEMMA AddToIs ==
  ASSUME NEW ch, IsChunker(ch), ~Full(ch), NEW l \in 0..Depth, NEW it
  PROVE  AddTo(ch, l, it) = Rise([at |-> ch.at, up |-> <<it>>], l)
<1>1. [ch EXCEPT !.up = <<it>>] = [at |-> ch.at, up |-> <<it>>]
  BY DEF IsChunker
<1>2. AddTo(ch, l, it) = Rise([ch EXCEPT !.up = <<it>>], l)
  BY DEF AddTo, Rise, IsRise, RisesTo
<1> QED BY <1>1, <1>2

\* An item added to a level waits there, unless it ends a node, which goes on.
LEMMA AddToStep ==
  ASSUME NEW ch, IsChunker(ch), ~Full(ch), NEW l \in Levels, NEW it
  PROVE  LET items == Append(ch.at[l], it)
         IN AddTo(ch, l, it) = IF Splits(l, items)
                               THEN AddTo(Put(ch, l, <<>>), l + 1, Up(Node(l, items)))
                               ELSE Put(ch, l, items)
<1> DEFINE items == Append(ch.at[l], it)
           c == [at |-> ch.at, up |-> <<it>>]
<1>0. Depth \in Nat /\ l \in 0..Depth /\ l < Depth /\ l + 1 \in 0..Depth /\ l \in Nat
  BY LevelsAre
<1>1. AddTo(ch, l, it) = Rise(Take(c, l), l + 1)
  BY <1>0, AddToIs, RiseStep
<1>2. c.up # <<>> /\ c.up[1] = it /\ c.at = ch.at
  OBVIOUS
<1>3. ch.up = <<>>
  BY DEF Full
<1> HIDE DEF c
<1>4. CASE Splits(l, items)
  <2> DEFINE e == Put(ch, l, <<>>)
             n == Up(Node(l, items))
  <2>1. Take(c, l) = [at |-> [ch.at EXCEPT ![l] = <<>>], up |-> <<n>>]
    BY <1>2, <1>4 DEF Take
  <2>2. IsChunker(e) /\ ~Full(e) /\ e.at = [ch.at EXCEPT ![l] = <<>>]
    BY <1>3, PutIs DEF Full
  <2> HIDE DEF e, n
  <2>3. AddTo(e, l + 1, n) = Rise([at |-> e.at, up |-> <<n>>], l + 1)
    BY <1>0, <2>2, AddToIs
  <2>4. AddTo(ch, l, it) = AddTo(e, l + 1, n)
    BY <1>1, <2>1, <2>2, <2>3
  <2> QED BY <1>4, <2>4 DEF e, n
<1>5. CASE ~Splits(l, items)
  <2>1. Take(c, l) = [at |-> [ch.at EXCEPT ![l] = items], up |-> <<>>]
    BY <1>2, <1>5 DEF Take
  <2> HIDE DEF items
  <2>5. Put(ch, l, items) = [at |-> [ch.at EXCEPT ![l] = items], up |-> ch.up]
    BY PutIs
  <2>2. Take(c, l) = Put(ch, l, items)
    BY <1>3, <2>1, <2>5
  <2>3. Take(c, l).up = <<>>
    BY <2>1
  <2>4. Rise(Take(c, l), l + 1) = Take(c, l)
    BY <1>0, <2>3, RiseIdle
  <2> QED BY <1>1, <1>5, <2>2, <2>4 DEF items
<1> QED BY <1>4, <1>5

LEMMA AddToTop ==
  ASSUME NEW ch, IsChunker(ch), ~Full(ch), NEW it
  PROVE  IsChunker(AddTo(ch, Depth, it)) /\ Full(AddTo(ch, Depth, it)) /\ AddTo(ch, Depth, it).at = ch.at
<1>1. Depth \in 0..Depth
  BY LevelsAre
<1> DEFINE c == [at |-> ch.at, up |-> <<it>>]
<1>2. AddTo(ch, Depth, it) = Rise(c, Depth)
  BY <1>1, AddToIs
<1>3. c.at = ch.at /\ c.up # <<>> /\ IsChunker(c)
  BY DEF IsChunker
<1> HIDE DEF c
<1>4. Rise(c, Depth) = c
  BY <1>1, RiseStep
<1> QED BY <1>2, <1>3, <1>4 DEF Full

LEMMA AddToFull == ASSUME NEW ch, Full(ch), NEW l, NEW it PROVE AddTo(ch, l, it) = ch
BY DEF AddTo

-----------------------------------------------------------------------------
(* Where nodes are cut.                                                    *)

Prefix(s, i) == [j \in 1..i |-> s[j]]

\* no item but the last ends the node, and that one does if its key is not in E
Cut(n, E) == /\ \A i \in 1..Len(n.items) : i # Len(n.items) => ~Splits(n.level, Prefix(n.items, i))
             /\ LastKey(n) \notin E => Splits(n.level, n.items)

\* a tree that is cut where it should be, but for the nodes that end with a key of E
Tidy(n, E) == n.level \in Levels /\ Whole(n) /\ \A m \in NodesOf(n) : Cut(m, E)

Good(root) == Tidy(root, {LastKey(root)})

\* a node that waits for more
Open(n, E) ==
  /\ Shaped(n) /\ Sorted(n)
  /\ \A c \in Children(n) : Tidy(c, E)
  /\ \A i \in 1..Len(n.items) : ~Splits(n.level, Prefix(n.items, i))

\* an item that may be added at a level, and its rows
Fits(l, it, E) ==
  /\ l = 0 => it \in [key : Keys, val : Vals]
  /\ l > 0 => it = Up(it.child) /\ it.child.level = l - 1 /\ Tidy(it.child, E)
ItemRows(l, it) == IF l = 0 THEN {it} ELSE Rows(it.child)

WaitRows(l, items) == IF items = <<>> THEN {} ELSE Rows(Node(l, items))

LEMMA NodeIs == ASSUME NEW l, NEW items
                PROVE Node(l, items).level = l /\ Node(l, items).items = items
                      /\ Node(l, items) = Node(Node(l, items).level, Node(l, items).items)
BY DEF Node

IsAppend(t, s, x) ==
  /\ t # <<>> /\ Len(t) = Len(s) + 1 /\ Len(s) \in Nat
  /\ \A i \in 1..Len(s) : Prefix(t, i) = Prefix(s, i)
  /\ Prefix(t, Len(s) + 1) = t

LEMMA AppendIs ==
  ASSUME NEW s, s \in Seq(Range(s)), NEW x
  PROVE  /\ Append(s, x) \in Seq(Range(s) \cup {x}) /\ Append(s, x) # <<>>
         /\ Len(Append(s, x)) = Len(s) + 1 /\ Len(s) \in Nat
         /\ \A i \in 1..Len(s) : Append(s, x)[i] = s[i] /\ Prefix(Append(s, x), i) = Prefix(s, i)
         /\ Append(s, x)[Len(s) + 1] = x
         /\ Prefix(Append(s, x), Len(s) + 1) = Append(s, x)
         /\ Range(Append(s, x)) = Range(s) \cup {x}
<1> DEFINE S == Range(s)
<1>1. s \in Seq(S \cup {x}) /\ x \in S \cup {x} /\ Len(s) \in Nat
  <2>1. S \subseteq S \cup {x}
    OBVIOUS
  <2> QED BY <2>1
<1>2. /\ Append(s, x) \in Seq(Range(s) \cup {x}) /\ Append(s, x) # <<>>
      /\ Len(Append(s, x)) = Len(s) + 1
      /\ \A i \in 1..Len(s) : Append(s, x)[i] = s[i]
      /\ Append(s, x)[Len(s) + 1] = x
  BY <1>1
<1> DEFINE t == Append(s, x)
<1>3. DOMAIN t = 1..(Len(s) + 1) /\ DOMAIN s = 1..Len(s)
  BY <1>1, <1>2
<1>4. t = [j \in 1..(Len(s) + 1) |-> t[j]]
  <2>1. t \in Seq(S \cup {x}) /\ Len(t) = Len(s) + 1
    BY <1>2
  <2> HIDE DEF t
  <2> QED BY <2>1
<1> HIDE DEF t
<1>5. Prefix(t, Len(s) + 1) = t
  BY <1>4 DEF Prefix
<1>6. ASSUME NEW i \in 1..Len(s) PROVE Prefix(t, i) = Prefix(s, i)
  <2>1. \A j \in 1..i : t[j] = s[j]
    BY <1>1, <1>2 DEF t
  <2> QED BY <2>1 DEF Prefix
<1>7. Range(t) = Range(s) \cup {x}
  <2>1. \A j \in 1..(Len(s) + 1) : j \in 1..Len(s) \/ j = Len(s) + 1
    BY <1>1
  <2>2. \A j \in 1..Len(s) : j \in 1..(Len(s) + 1)
    BY <1>1
  <2>3. Len(s) + 1 \in 1..(Len(s) + 1)
    BY <1>1
  <2>4. (\A i \in 1..Len(s) : t[i] = s[i]) /\ t[Len(s) + 1] = x
    BY <1>2 DEF t
  <2> QED BY <1>3, <2>1, <2>2, <2>3, <2>4 DEF Range
<1> QED BY <1>1, <1>2, <1>5, <1>6, <1>7 DEF t

LEMMA AppendPrefix == ASSUME NEW s, s \in Seq(Range(s)), NEW x PROVE IsAppend(Append(s, x), s, x)
<1> DEFINE t == Append(s, x)
<1>1. t # <<>> /\ Len(s) \in Nat /\ Len(t) = Len(s) + 1
  OBVIOUS
<1>2. \A i \in 1..Len(s) : Prefix(t, i) = Prefix(s, i)
  <2>1. \A i \in 1..Len(s) : Append(s, x)[i] = s[i] /\ Prefix(Append(s, x), i) = Prefix(s, i)
    BY AppendIs
  <2> QED BY <2>1
<1>3. Prefix(t, Len(s) + 1) = t
  BY AppendIs
<1> HIDE DEF t
<1>4. IsAppend(t, s, x)
  BY <1>1, <1>2, <1>3 DEF IsAppend
<1> QED BY <1>4 DEF t

LEMMA TidyIs ==
  ASSUME NEW n, NEW E, Tidy(n, E)
  PROVE  n.level \in Levels /\ n.level \in Nat /\ Whole(n) /\ Shaped(n) /\ Sorted(n) /\ RowsOk(n)
<1>1. n.level \in Levels /\ n.level \in Nat /\ Whole(n)
  BY LevelsAre DEF Tidy
<1> QED BY <1>1, WholeRoot, RowsAre

LEMMA FitsIs ==
  ASSUME NEW l \in Levels, NEW it, NEW E, Fits(l, it, E)
  PROVE  /\ AreRows(ItemRows(l, it)) /\ it.key \in Keys
         /\ it.key \in KeysOf(ItemRows(l, it))
         /\ \A r \in ItemRows(l, it) : r.key <= it.key /\ r.key \in Keys
         /\ l = 0 => it \in [key : Keys, val : Vals]
         /\ l > 0 => it = [key |-> it.key, child |-> it.child]
<1>0. l \in Nat
  BY LevelsAre
<1>1. CASE l = 0
  <2>1. ItemRows(l, it) = {it} /\ it \in [key : Keys, val : Vals]
    BY <1>1 DEF ItemRows, Fits
  <2>2. it.key \in Keys /\ it.key \in Nat
    BY <2>1, KeysAre
  <2> QED BY <1>1, <2>1, <2>2 DEF AreRows, KeysOf
<1>2. CASE l > 0
  <2>1. ItemRows(l, it) = Rows(it.child) /\ it = Up(it.child) /\ RowsOk(it.child)
    BY <1>2, TidyIs DEF ItemRows, Fits
  <2>2. it.key = LastKey(it.child) /\ it = [key |-> it.key, child |-> it.child]
    BY <2>1 DEF Up
  <2>3. \A r \in Rows(it.child) : r.key \in Keys /\ r.key <= it.key
    BY <2>1, <2>2 DEF RowsOk, AreRows
  <2>4. it.key \in KeysOf(Rows(it.child))
    BY <2>1, <2>2 DEF RowsOk
  <2> QED BY <1>2, <2>1, <2>2, <2>3, <2>4 DEF RowsOk, KeysOf
<1> QED BY <1>0, <1>1, <1>2

LEMMA OpenIs ==
  ASSUME NEW n, NEW E, Open(n, E)
  PROVE  n.level \in Nat /\ Whole(n) /\ RowsOk(n)
<1>1. Shaped(n) /\ Sorted(n) /\ n.level \in Nat
  BY ItemsAre DEF Open
<1>2. \A c \in Children(n) : Whole(c)
  BY TidyIs DEF Open
<1>3. Whole(n)
  BY <1>1, <1>2, WholeFromChildren
<1> QED BY <1>1, <1>3, RowsAre

\* a node cut after an item is a tree again
LEMMA TidyNode ==
  ASSUME NEW n, NEW E, Shaped(n), Sorted(n), Cut(n, E), \A c \in Children(n) : Tidy(c, E)
  PROVE  Tidy(n, E)
<1>1. n.level \in Levels /\ n.level \in Nat
  BY ItemsAre
<1>2. Whole(n)
  BY TidyIs, WholeFromChildren
<1>3. NodesOf(n) \subseteq {n} \cup UNION {NodesOf(c) : c \in Children(n)}
  BY <1>1, NodesUnfold
<1>4. \A m \in NodesOf(n) : Cut(m, E)
  BY <1>3 DEF Tidy
<1> QED BY <1>1, <1>2, <1>4 DEF Tidy

-----------------------------------------------------------------------------
(* One more item for a node.                                               *)

LEMMA GrowFirst ==
  ASSUME NEW l \in Levels, NEW it, NEW E, Fits(l, it, E), NEW n, n = Node(l, Append(<<>>, it))
  PROVE  /\ Shaped(n) /\ Sorted(n) /\ LastKey(n) = it.key
         /\ \A c \in Children(n) : Tidy(c, E)
         /\ Rows(n) = ItemRows(l, it)
<1>0. l \in Nat
  BY LevelsAre
<1>1. n.items = <<it>> /\ n.level = l /\ n = Node(n.level, n.items)
  BY NodeIs
<1>2. Len(n.items) = 1 /\ n.items[1] = it /\ DOMAIN n.items = 1..1 /\ n.items # <<>>
  BY <1>1
<1>3. Range(n.items) = {it}
  BY <1>2 DEF Range
<1>4. n.items \in Seq(Range(n.items))
  <2>1. <<>> \in Seq(Range(<<>>)) /\ Range(<<>>) \cup {it} = {it}
    BY DEF Range
  <2>2. Append(<<>>, it) \in Seq({it})
    BY <2>1, AppendIs
  <2>3. Append(<<>>, it) = n.items
    BY NodeIs
  <2> QED BY <1>3, <2>2, <2>3
<1>5. it.key \in Keys /\ (l = 0 => it \in [key : Keys, val : Vals]) /\ (l > 0 => it = [key |-> it.key, child |-> it.child])
  BY FitsIs
<1>6. Shaped(n)
  BY <1>1, <1>3, <1>4, <1>5 DEF Shaped
<1>7. l > 0 => /\ it.child.level = l - 1 /\ it.child.items # <<>> /\ it.key = LastKey(it.child)
               /\ Tidy(it.child, E) /\ \A k \in KeysOf(Rows(it.child)) : k <= it.key
  <2> SUFFICES ASSUME l > 0 PROVE /\ it.child.level = l - 1 /\ it.child.items # <<>> /\ it.key = LastKey(it.child)
               /\ Tidy(it.child, E) /\ \A k \in KeysOf(Rows(it.child)) : k <= it.key
    OBVIOUS
  <2>1. it = Up(it.child) /\ it.child.level = l - 1 /\ Tidy(it.child, E)
    BY DEF Fits
  <2>2. it.key = LastKey(it.child)
    BY <2>1 DEF Up
  <2>3. it.child.items # <<>> /\ RowsOk(it.child)
    BY <2>1, TidyIs DEF Sorted
  <2> QED BY <2>1, <2>2, <2>3 DEF RowsOk, KeysOf
<1>8. Sorted(n)
  <2>1. \A i, j \in DOMAIN n.items : ~(i < j) /\ ~(i > 1) /\ i = 1
    BY <1>2
  <2> QED BY <1>1, <1>2, <1>7, <2>1 DEF Sorted
<1>9. LastKey(n) = it.key
  BY <1>2, <1>6, <1>8, ItemsAre
<1>10. \A c \in Children(n) : Tidy(c, E)
  <2>1. l = 0 => Children(n) = {}
    BY <1>1 DEF Children
  <2>2. l > 0 => Children(n) = {it.child}
    BY <1>1, <1>2 DEF Children
  <2> QED BY <1>0, <1>7, <2>1, <2>2
<1>11. Rows(n) = ItemRows(l, it)
  <2>1. Rows(n) = UNION {RowsAt(n, i) : i \in 1..1}
    BY <1>2, <1>6, <1>8, RowsByItem
  <2>2. RowsAt(n, 1) = ItemRows(l, it)
    BY <1>1, <1>2 DEF RowsAt, ItemRows
  <2> QED BY <2>1, <2>2
<1> QED BY <1>6, <1>8, <1>9, <1>10, <1>11

LEMMA GrowNext ==
  ASSUME NEW l \in Levels, NEW it, NEW E, Fits(l, it, E),
         NEW old, old.level = l, Open(old, E),
         \A r \in Rows(old), s \in ItemRows(l, it) : r.key < s.key,
         NEW n, n = Node(l, Append(old.items, it))
  PROVE  /\ Shaped(n) /\ Sorted(n) /\ LastKey(n) = it.key
         /\ \A c \in Children(n) : Tidy(c, E)
         /\ Rows(n) = Rows(old) \cup ItemRows(l, it)
<1> DEFINE L == Len(old.items)
<1>0. l \in Nat
  BY LevelsAre
<1>1. n.items = Append(old.items, it) /\ n.level = l /\ n = Node(n.level, n.items)
  BY NodeIs
<1>2. Shaped(old) /\ Sorted(old) /\ Whole(old) /\ RowsOk(old)
  BY OpenIs DEF Open
<1>3. /\ L \in Nat \ {0} /\ LastKey(old) = old.items[L].key
      /\ \A i \in 1..L : old.items[i].key \in Keys /\ old.items[i].key \in Nat \ {0}
      /\ \A i, j \in 1..L : i < j => old.items[i].key < old.items[j].key
  BY <1>2, ItemsAre
<1>4. old.items \in Seq(Range(old.items))
  BY <1>2 DEF Shaped
<1>5. /\ n.items \in Seq(Range(old.items) \cup {it}) /\ n.items # <<>>
      /\ Len(n.items) = L + 1
      /\ \A i \in 1..L : n.items[i] = old.items[i]
      /\ n.items[L + 1] = it
      /\ Range(n.items) = Range(old.items) \cup {it}
  <2> DEFINE t == Append(old.items, it)
  <2>1. /\ t \in Seq(Range(old.items) \cup {it}) /\ t # <<>> /\ Len(t) = L + 1
        /\ \A i \in 1..L : t[i] = old.items[i]
        /\ t[L + 1] = it /\ Range(t) = Range(old.items) \cup {it}
    BY <1>4, AppendIs
  <2>2. n.items = t
    BY <1>1
  <2> HIDE DEF t
  <2> QED BY <2>1, <2>2
<1> HIDE DEF L
<1>6. DOMAIN n.items = 1..(L + 1)
  BY <1>5
<1>7. it.key \in Keys /\ (l = 0 => it \in [key : Keys, val : Vals]) /\ (l > 0 => it = [key |-> it.key, child |-> it.child])
      /\ it.key \in KeysOf(ItemRows(l, it))
  BY FitsIs
<1>8. Shaped(n)
  <2>1. n.level = 0 => \A x \in Range(n.items) : x \in [key : Keys, val : Vals]
    BY <1>1, <1>2, <1>5, <1>7 DEF Shaped
  <2>2. n.level > 0 => \A x \in Range(n.items) : x = [key |-> x.key, child |-> x.child] /\ x.key \in Keys
    BY <1>1, <1>2, <1>5, <1>7 DEF Shaped
  <2>3. n.items \in Seq(Range(n.items))
    BY <1>5
  <2> QED BY <1>1, <2>1, <2>2, <2>3 DEF Shaped
<1>9. it.key \in Nat \ {0}
  BY <1>7, KeysAre
\* the last key so far is less than any row of the item
<1>10. \A k \in KeysOf(ItemRows(l, it)) : old.items[L].key < k
  <2>1. PICK r \in Rows(old) : r.key = old.items[L].key
    BY <1>2, <1>3 DEF RowsOk, KeysOf
  <2> QED BY <2>1 DEF KeysOf
<1>11. \A i \in 1..L : n.items[i].key < n.items[L + 1].key
  <2> TAKE i \in 1..L
  <2>1. L \in 1..L /\ (i = L \/ i < L)
    BY <1>3
  <2>2. old.items[i].key = old.items[L].key \/ old.items[i].key < old.items[L].key
    BY <1>3, <2>1
  <2>3. old.items[i].key \in Nat /\ old.items[L].key \in Nat /\ old.items[L].key < it.key
    BY <1>3, <1>7, <1>10, <2>1
  <2> QED BY <1>5, <1>9, <2>2, <2>3
<1>12. \A i, j \in DOMAIN n.items : i < j => n.items[i].key < n.items[j].key
  <2> SUFFICES ASSUME NEW i \in 1..(L + 1), NEW j \in 1..(L + 1), i < j PROVE n.items[i].key < n.items[j].key
    BY <1>6
  <2>1. CASE j = L + 1
    <3>1. i \in 1..L
      BY <1>3, <2>1
    <3> QED BY <2>1, <3>1, <1>11
  <2>2. CASE j # L + 1
    <3>1. i \in 1..L /\ j \in 1..L
      BY <1>3, <2>2
    <3> QED BY <1>3, <1>5, <3>1
  <2> QED BY <2>1, <2>2
<1>13. ASSUME l > 0, NEW i \in 1..(L + 1)
       PROVE  /\ n.items[i].child.level = l - 1 /\ n.items[i].child.items # <<>>
              /\ n.items[i].key = LastKey(n.items[i].child) /\ Tidy(n.items[i].child, E)
              /\ \A k \in KeysOf(Rows(n.items[i].child)) :
                   k <= n.items[i].key /\ (i > 1 => k > n.items[i - 1].key)
  <2>1. CASE i = L + 1
    <3>1. it = Up(it.child) /\ it.child.level = l - 1 /\ Tidy(it.child, E)
      BY <1>13 DEF Fits
    <3>2. it.key = LastKey(it.child)
      BY <3>1 DEF Up
    <3>3. it.child.items # <<>> /\ RowsOk(it.child)
      BY <3>1, TidyIs DEF Sorted
    <3>4. ItemRows(l, it) = Rows(it.child)
      BY <1>13 DEF ItemRows
    <3>5. \A k \in KeysOf(Rows(it.child)) : k <= it.key /\ k > old.items[L].key
      <4>1. \A k \in KeysOf(Rows(it.child)) : k <= it.key /\ k \in Nat
        BY <3>2, <3>3, KeysAre DEF RowsOk, KeysOf, AreRows
      <4> QED BY <1>3, <1>10, <3>4, <4>1
    <3>6. n.items[i] = it /\ i - 1 = L /\ L \in 1..L /\ n.items[i - 1] = old.items[L]
      BY <1>3, <1>5, <2>1
    <3> QED BY <3>1, <3>2, <3>3, <3>5, <3>6
  <2>2. CASE i # L + 1
    <3>1. i \in 1..L
      BY <1>3, <2>2
    <3>2. /\ old.items[i].child.level = l - 1 /\ old.items[i].child.items # <<>>
          /\ old.items[i].key = LastKey(old.items[i].child)
          /\ \A k \in KeysOf(Rows(old.items[i].child)) :
                   k <= old.items[i].key /\ (i > 1 => k > old.items[i - 1].key)
          /\ old.items[i].child \in Children(old)
      BY <1>2, <1>13, <3>1, ChildrenAre DEF L
    <3>3. Tidy(old.items[i].child, E)
      BY <3>2 DEF Open
    <3>4. n.items[i] = old.items[i] /\ (i > 1 => n.items[i - 1] = old.items[i - 1])
      <4>1. i > 1 => i - 1 \in 1..L
        BY <3>1, <1>3
      <4> QED BY <1>5, <3>1, <4>1
    <3> QED BY <3>2, <3>3, <3>4
  <2> QED BY <2>1, <2>2
<1>14. Sorted(n)
  <2>1. ASSUME n.level > 0, NEW i \in DOMAIN n.items
        PROVE  LET x == n.items[i]
               IN /\ x.child.level = n.level - 1 /\ x.child.items # <<>>
                  /\ x.key = LastKey(x.child)
                  /\ \A k \in KeysOf(Rows(x.child)) :
                       k <= x.key /\ (i > 1 => k > n.items[i - 1].key)
    <3>1. i \in 1..(L + 1) /\ l > 0
      BY <1>1, <1>6, <2>1
    <3> QED BY <1>1, <1>13, <3>1
  <2> QED BY <1>5, <1>12, <2>1 DEF Sorted
<1>15. LastKey(n) = it.key
  BY <1>5, <1>8, <1>14, ItemsAre
<1>16. \A c \in Children(n) : Tidy(c, E)
  <2>1. l = 0 => Children(n) = {}
    BY <1>1 DEF Children
  <2>2. l > 0 => Children(n) = {n.items[i].child : i \in 1..(L + 1)}
    <3>1. n.level > 0 => Children(n) = {n.items[i].child : i \in 1..Len(n.items)}
      BY <1>8, <1>14, ChildrenAre
    <3>2. Len(n.items) = L + 1 /\ n.level = l
      BY <1>1, <1>5
    <3> QED BY <3>1, <3>2
  <2> QED BY <1>0, <1>13, <2>1, <2>2
<1>17. Rows(n) = Rows(old) \cup ItemRows(l, it)
  <2>1. Rows(n) = UNION {RowsAt(n, i) : i \in 1..(L + 1)}
    BY <1>5, <1>8, <1>14, RowsByItem
  <2>2. Rows(old) = UNION {RowsAt(old, i) : i \in 1..L}
    BY <1>2, RowsByItem DEF L
  <2>3. RowsAt(n, L + 1) = ItemRows(l, it)
    BY <1>1, <1>5 DEF RowsAt, ItemRows
  <2>4. \A i \in 1..L : RowsAt(n, i) = RowsAt(old, i)
    BY <1>1, <1>5 DEF RowsAt
  <2>5. \A i \in 1..(L + 1) : i \in 1..L \/ i = L + 1
    BY <1>3
  <2>6. (\A i \in 1..L : i \in 1..(L + 1)) /\ L + 1 \in 1..(L + 1)
    BY <1>3
  <2> QED BY <2>1, <2>2, <2>3, <2>4, <2>5, <2>6
<1> QED BY <1>8, <1>14, <1>15, <1>16, <1>17

-----------------------------------------------------------------------------
(* What a chunker holds.                                                   *)

Waits(ch, l) == WaitRows(l, ch.at[l])
Content(ch) == UNION {Waits(ch, l) : l \in Levels}

Orderly(ch, E) ==
  /\ IsChunker(ch)
  /\ \A l \in Levels : ch.at[l] = <<>> \/ Open(Node(l, ch.at[l]), E)
  /\ \A l, m \in Levels : l < m => \A r \in Waits(ch, l), s \in Waits(ch, m) : s.key < r.key

\* the rows are in the chunker, unless it is full
Holds(ch, R, E) == Full(ch) \/ (Orderly(ch, E) /\ Content(ch) = R)

LEMMA GrowWait ==
  ASSUME NEW l \in Levels, NEW it, NEW E, Fits(l, it, E),
         NEW old, old = <<>> \/ Open(Node(l, old), E),
         \A r \in WaitRows(l, old), s \in ItemRows(l, it) : r.key < s.key,
         NEW items, items = Append(old, it)
  PROVE  /\ items # <<>> /\ Rows(Node(l, items)) = WaitRows(l, old) \cup ItemRows(l, it)
         /\ Splits(l, items) => Tidy(Node(l, items), E)
         /\ ~Splits(l, items) => Open(Node(l, items), E)
<1> DEFINE n == Node(l, items)
<1>1. n.level = l /\ n.items = items
  BY NodeIs
<1>2. CASE old = <<>>
  <2>1. /\ Shaped(n) /\ Sorted(n)
        /\ \A c \in Children(n) : Tidy(c, E)
        /\ Rows(n) = ItemRows(l, it)
    BY <1>2, GrowFirst
  <2>2. items # <<>> /\ Len(items) = 1 /\ Prefix(items, 1) = items
    <3>1. <<>> \in Seq(Range(<<>>)) /\ Len(<<>>) = 0 /\ 0 + 1 = 1
      OBVIOUS
    <3>2. /\ Append(<<>>, it) # <<>> /\ Len(Append(<<>>, it)) = Len(<<>>) + 1
          /\ Prefix(Append(<<>>, it), Len(<<>>) + 1) = Append(<<>>, it)
      BY <3>1, AppendPrefix DEF IsAppend
    <3> QED BY <1>2, <3>1, <3>2
  <2>3. WaitRows(l, old) = {}
    BY <1>2 DEF WaitRows
  <2> HIDE DEF n
  <2>4. Splits(l, items) => Tidy(n, E)
    <3>1. Splits(l, items) => Cut(n, E)
      <4>1. \A i \in 1..1 : i = 1
        OBVIOUS
      <4> QED BY <1>1, <2>2, <4>1 DEF Cut
    <3> QED BY <2>1, <3>1, TidyNode
  <2>5. ~Splits(l, items) => Open(n, E)
    <3>1. \A i \in 1..1 : i = 1
      OBVIOUS
    <3> QED BY <1>1, <2>1, <2>2, <3>1 DEF Open
  <2> QED BY <2>1, <2>2, <2>3, <2>4, <2>5 DEF n
<1>3. CASE old # <<>>
  <2> DEFINE o == Node(l, old)
             L == Len(old)
  <2>1. o.level = l /\ o.items = old /\ Open(o, E) /\ WaitRows(l, old) = Rows(o)
    BY <1>3, NodeIs DEF WaitRows
  <2>2. Shaped(o) /\ Sorted(o) /\ \A i \in 1..L : ~Splits(l, Prefix(old, i))
    BY <2>1 DEF Open
  <2>3. old \in Seq(Range(old))
    BY <2>1, <2>2 DEF Shaped
  <2> HIDE DEF o
  <2>4. /\ Shaped(n) /\ Sorted(n)
        /\ \A c \in Children(n) : Tidy(c, E)
        /\ Rows(n) = Rows(o) \cup ItemRows(l, it)
    BY <2>1, GrowNext
  <2>5. /\ items # <<>> /\ Len(items) = L + 1 /\ L \in Nat
        /\ \A i \in 1..L : Prefix(items, i) = Prefix(old, i)
        /\ Prefix(items, L + 1) = items
    BY <2>3, AppendPrefix DEF IsAppend
  <2> HIDE DEF n, L
  <2>6. \A i \in 1..(L + 1) : i \in 1..L \/ i = L + 1
    BY <2>5
  <2>7. \A i \in 1..(L + 1) : i # L + 1 => ~Splits(l, Prefix(items, i))
    BY <2>2, <2>5, <2>6
  <2>8. Splits(l, items) => Tidy(n, E)
    <3>1. Splits(l, items) => Cut(n, E)
      BY <1>1, <2>5, <2>7 DEF Cut
    <3> QED BY <2>4, <3>1, TidyNode
  <2>9. ~Splits(l, items) => Open(n, E)
    <3>1. ~Splits(l, items) => \A i \in 1..(L + 1) : ~Splits(l, Prefix(items, i))
      BY <2>5, <2>7
    <3> QED BY <1>1, <2>4, <2>5, <3>1 DEF Open
  <2> QED BY <2>1, <2>4, <2>5, <2>8, <2>9 DEF n
<1> QED BY <1>2, <1>3

LEMMA NothingHeld == ASSUME NEW E PROVE Holds(NoItems, {}, E) /\ ~Full(NoItems)
<1>1. IsChunker(NoItems) /\ ~Full(NoItems) /\ \A l \in Levels : NoItems.at[l] = <<>>
  BY NoItemsIs
<1>2. \A l \in Levels : Waits(NoItems, l) = {}
  BY <1>1 DEF Waits, WaitRows
<1> QED BY <1>1, <1>2 DEF Holds, Orderly, Content

\* taking a level away, or giving it more at the end
LEMMA PutHolds ==
  ASSUME NEW ch, NEW E, Orderly(ch, E), ~Full(ch), NEW l \in Levels, NEW items,
         \A m \in Levels : m < l => ch.at[m] = <<>>,
         items = <<>> \/ Open(Node(l, items), E),
         \A m \in Levels : l < m => \A r \in WaitRows(l, items), s \in Waits(ch, m) : s.key < r.key
  PROVE  /\ Orderly(Put(ch, l, items), E) /\ ~Full(Put(ch, l, items))
         /\ Waits(Put(ch, l, items), l) = WaitRows(l, items)
         /\ \A m \in Levels : m # l => Waits(Put(ch, l, items), m) = Waits(ch, m)
         /\ \A m \in Levels : m # l => Put(ch, l, items).at[m] = ch.at[m]
         /\ Put(ch, l, items).at[l] = items
<1> DEFINE p == Put(ch, l, items)
<1>1. /\ IsChunker(p) /\ p.up = ch.up /\ p.at[l] = items
      /\ \A m \in Levels : m # l => p.at[m] = ch.at[m]
  BY PutIs DEF Orderly
<1> HIDE DEF p
<1>2. ~Full(p)
  BY <1>1 DEF Full
<1>3. Waits(p, l) = WaitRows(l, items) /\ \A m \in Levels : m # l => Waits(p, m) = Waits(ch, m)
  BY <1>1 DEF Waits
<1>4. \A m \in Levels : p.at[m] = <<>> \/ Open(Node(m, p.at[m]), E)
  BY <1>1 DEF Orderly
<1>5. ASSUME NEW k \in Levels, NEW m \in Levels, k < m,
             NEW r \in Waits(p, k), NEW s \in Waits(p, m) PROVE s.key < r.key
  <2>0. k \in Nat /\ m \in Nat /\ l \in Nat
    BY LevelsAre
  <2>1. CASE k = l
    <3>1. m # l
      BY <1>5, <2>0, <2>1
    <3> QED BY <1>3, <1>5, <2>1, <3>1
  <2>2. CASE m = l
    <3>1. k # l /\ ch.at[k] = <<>>
      BY <1>5, <2>0, <2>2
    <3>2. Waits(p, k) = {}
      BY <1>3, <3>1 DEF Waits, WaitRows
    <3> QED BY <3>2, <1>5
  <2>3. CASE k # l /\ m # l
    BY <1>3, <1>5, <2>3 DEF Orderly
  <2> QED BY <2>1, <2>2, <2>3
<1> QED BY <1>1, <1>2, <1>3, <1>4, <1>5 DEF p, Orderly

\* the item comes after all that is held, and nothing waits below its level
ReadyFor(ch, l, it, R, E) ==
  /\ Orderly(ch, E) /\ ~Full(ch) /\ Content(ch) = R
  /\ Fits(l, it, E)
  /\ \A r \in R, s \in ItemRows(l, it) : r.key < s.key
  /\ \A m \in Levels : m < l => ch.at[m] = <<>>

\* the item waits there, or the node it ends goes on to the next level
AddedTo(ch, l, it, R, E, items, n, e) ==
  /\ items # <<>> /\ n.level = l /\ n.items = items
  /\ ~Splits(l, items) =>
       /\ AddTo(ch, l, it) = Put(ch, l, items)
       /\ Orderly(Put(ch, l, items), E) /\ ~Full(Put(ch, l, items))
       /\ Content(Put(ch, l, items)) = R \cup ItemRows(l, it)
  /\ Splits(l, items) =>
       /\ AddTo(ch, l, it) = AddTo(e, l + 1, Up(n))
       /\ Tidy(n, E) /\ ReadyFor(e, l + 1, Up(n), Content(e), E)
       /\ Content(e) \cup ItemRows(l + 1, Up(n)) = R \cup ItemRows(l, it)

LEMMA AddToNext ==
  ASSUME NEW E, NEW c, NEW k \in Levels, NEW x, NEW Q, ReadyFor(c, k, x, Q, E),
         NEW items, items = Append(c.at[k], x), NEW n, n = Node(k, items), NEW e, e = Put(c, k, <<>>)
  PROVE  AddedTo(c, k, x, Q, E, items, n, e)
<1> DEFINE old == c.at[k]
<1>1. k \in Nat /\ k + 1 \in Nat /\ k + 1 > 0 /\ k + 1 - 1 = k
  BY LevelsAre
<1>2. IsChunker(c) /\ Fits(k, x, E) /\ (old = <<>> \/ Open(Node(k, old), E))
  BY DEF ReadyFor, Orderly
<1>3. WaitRows(k, old) \subseteq Q
  BY DEF ReadyFor, Content, Waits
<1>4. /\ items # <<>> /\ Rows(n) = WaitRows(k, old) \cup ItemRows(k, x)
      /\ Splits(k, items) => Tidy(n, E)
      /\ ~Splits(k, items) => Open(n, E)
  <2>1. \A r \in WaitRows(k, old), s \in ItemRows(k, x) : r.key < s.key
    BY <1>3 DEF ReadyFor
  <2>2. items = Append(old, x)
    OBVIOUS
  <2> HIDE DEF old
  <2> QED BY <1>2, <2>1, <2>2, GrowWait
<1>5. AddTo(c, k, x) = IF Splits(k, items) THEN AddTo(e, k + 1, Up(n)) ELSE Put(c, k, items)
  BY <1>2, AddToStep DEF ReadyFor
<1>6. \A m \in Levels : k < m => \A r \in Waits(c, k), s \in Waits(c, m) : s.key < r.key
  BY DEF ReadyFor, Orderly
<1>7. \A m \in Levels : k < m => \A r \in Rows(n), s \in Waits(c, m) : s.key < r.key
  <2>1. \A m \in Levels : Waits(c, m) \subseteq Q
    BY DEF ReadyFor, Content
  <2>2. \A r \in Q, s \in ItemRows(k, x) : r.key < s.key
    BY DEF ReadyFor
  <2> HIDE DEF old
  <2> QED BY <1>4, <1>6, <2>1, <2>2 DEF Waits, old
<1>8. \A m \in Levels : m < k => c.at[m] = <<>> /\ Waits(c, m) = {}
  BY DEF ReadyFor, Waits, WaitRows
<1>9. \A m \in Levels : m = k \/ m < k \/ k < m
  BY LevelsAre
<1>10. Q = UNION {Waits(c, m) : m \in Levels}
  BY DEF ReadyFor, Content
<1>11. n.level = k /\ n.items = items
  BY NodeIs
<1>12. Orderly(c, E) /\ ~Full(c)
  BY DEF ReadyFor
<1>13. CASE ~Splits(k, items)
  <2> DEFINE p == Put(c, k, items)
  <2>1. WaitRows(k, items) = Rows(n)
    BY <1>4 DEF WaitRows
  <2>2. Open(Node(k, items), E)
    BY <1>4, <1>13
  <2>3. /\ Orderly(p, E) /\ ~Full(p)
        /\ Waits(p, k) = WaitRows(k, items)
        /\ \A m \in Levels : m # k => Waits(p, m) = Waits(c, m)
    BY <1>7, <1>8, <1>12, <2>1, <2>2, PutHolds
  <2> HIDE DEF p
  <2>4. Content(p) = Q \cup ItemRows(k, x)
    <3>1. Content(p) = UNION {Waits(p, m) : m \in Levels}
      BY DEF Content
    <3>2. Waits(p, k) = Waits(c, k) \cup ItemRows(k, x)
      BY <1>4, <2>1, <2>3 DEF Waits
    <3> QED BY <1>10, <2>3, <3>1, <3>2
  <2> QED BY <1>4, <1>5, <1>11, <1>13, <2>3, <2>4 DEF AddedTo, p
<1>14. CASE Splits(k, items)
  <2>1. /\ Orderly(e, E) /\ ~Full(e)
        /\ Waits(e, k) = {}
        /\ \A m \in Levels : m # k => Waits(e, m) = Waits(c, m)
        /\ \A m \in Levels : m # k => e.at[m] = c.at[m]
        /\ e.at[k] = <<>>
    <3>1. WaitRows(k, <<>>) = {}
      BY DEF WaitRows
    <3> QED BY <1>8, <1>12, <3>1, PutHolds
  <2> DEFINE P == Content(e)
             u == Up(n)
  <2>2. P = UNION {Waits(e, m) : m \in Levels}
    BY DEF Content
  <2>3. Tidy(n, E) /\ u.child = n
    BY <1>4, <1>14 DEF Up
  <2>4. ItemRows(k + 1, u) = Rows(n) /\ Fits(k + 1, u, E)
    BY <1>1, <1>11, <2>3 DEF ItemRows, Fits
  <2>5. P \cup Rows(n) = Q \cup ItemRows(k, x)
    <3>1. Rows(n) = Waits(c, k) \cup ItemRows(k, x)
      BY <1>4 DEF Waits
    <3>2. Q = Waits(c, k) \cup P
      BY <1>10, <2>1, <2>2
    <3> QED BY <3>1, <3>2
  <2>6. \A r \in P, s \in Rows(n) : r.key < s.key
    <3> SUFFICES ASSUME NEW m \in Levels, NEW r \in Waits(e, m), NEW s \in Rows(n) PROVE r.key < s.key
      BY <2>2
    <3>1. m # k /\ r \in Waits(c, m)
      BY <2>1
    <3>2. k < m
      BY <1>8, <1>9, <3>1
    <3> QED BY <1>7, <3>1, <3>2
  <2>7. \A m \in Levels : m < k + 1 => e.at[m] = <<>>
    <3>1. \A m \in Levels : m < k + 1 => m = k \/ m < k
      BY LevelsAre
    <3> QED BY <1>8, <2>1, <3>1
  <2> HIDE DEF P, u
  <2>8. ReadyFor(e, k + 1, u, P, E)
    BY <2>1, <2>4, <2>6, <2>7 DEF P, ReadyFor
  <2>9. P \cup ItemRows(k + 1, u) = Q \cup ItemRows(k, x)
    BY <2>4, <2>5
  <2> QED BY <1>4, <1>5, <1>11, <1>14, <2>3, <2>8, <2>9 DEF AddedTo, P, u
<1> QED BY <1>13, <1>14

\* what comes of an item that is ready to be added
LEMMA ReadyHolds ==
  ASSUME NEW E, NEW ch, NEW l \in Levels, NEW it, NEW R, ReadyFor(ch, l, it, R, E)
  PROVE  Holds(AddTo(ch, l, it), R \cup ItemRows(l, it), E)
<1> DEFINE T == {d \in Nat : \A k \in Nat : k + d = Depth => \A c, x, Q :
                  ReadyFor(c, k, x, Q, E) => Holds(AddTo(c, k, x), Q \cup ItemRows(k, x), E)}
<1>1. 0 \in T
  <2> SUFFICES ASSUME NEW k \in Nat, k + 0 = Depth, NEW c, NEW x, NEW Q, ReadyFor(c, k, x, Q, E)
               PROVE  Holds(AddTo(c, k, x), Q \cup ItemRows(k, x), E)
    OBVIOUS
  <2>1. k = Depth /\ IsChunker(c) /\ ~Full(c)
    BY LevelsAre DEF ReadyFor, Orderly
  <2>2. Full(AddTo(c, k, x))
    BY <2>1, AddToTop
  <2> QED BY <2>2 DEF Holds
<1>2. ASSUME NEW d \in Nat, d \in T PROVE d + 1 \in T
  <2> SUFFICES ASSUME NEW k \in Nat, k + (d + 1) = Depth, NEW c, NEW x, NEW Q, ReadyFor(c, k, x, Q, E)
               PROVE  Holds(AddTo(c, k, x), Q \cup ItemRows(k, x), E)
    OBVIOUS
  <2>1. k \in Levels /\ k + 1 + d = Depth /\ k + 1 \in Nat
    BY LevelsAre
  <2> DEFINE items == Append(c.at[k], x)
             n == Node(k, items)
             e == Put(c, k, <<>>)
  <2>2. AddedTo(c, k, x, Q, E, items, n, e)
    BY <2>1, AddToNext
  <2> HIDE DEF n, items, e
  <2>3. CASE ~Splits(k, items)
    BY <2>2, <2>3 DEF AddedTo, Holds
  <2>4. CASE Splits(k, items)
    <3>1. Holds(AddTo(e, k + 1, Up(n)), Content(e) \cup ItemRows(k + 1, Up(n)), E)
      BY <1>2, <2>1, <2>2, <2>4 DEF AddedTo
    <3> QED BY <2>2, <2>4, <3>1 DEF AddedTo
  <2> QED BY <2>3, <2>4
<1> HIDE DEF T
<1>3. Nat \subseteq T
  BY <1>1, <1>2, NumberInduction
<1>4. l \in Nat /\ Depth - l \in Nat /\ l + (Depth - l) = Depth
  BY LevelsAre
<1>5. Depth - l \in T
  BY <1>3, <1>4
<1> QED BY <1>4, <1>5 DEF T

\* an item is added with its rows, when they come after all that is held and
\* nothing waits below
LEMMA AddToHolds ==
  ASSUME NEW E, NEW ch, NEW R, Holds(ch, R, E), NEW l \in Levels, NEW it, Fits(l, it, E),
         \A r \in R, s \in ItemRows(l, it) : r.key < s.key,
         Full(ch) \/ \A m \in Levels : m < l => ch.at[m] = <<>>
  PROVE  Holds(AddTo(ch, l, it), R \cup ItemRows(l, it), E)
<1>1. CASE Full(ch)
  BY <1>1, AddToFull DEF Holds
<1>2. CASE ~Full(ch)
  <2>1. ReadyFor(ch, l, it, R, E)
    BY <1>2 DEF Holds, ReadyFor
  <2> QED BY <2>1, ReadyHolds
<1> QED BY <1>1, <1>2

-----------------------------------------------------------------------------
(* Rows of a table, by key.                                                *)

Span(T, lo, hi) == {Row(k, T[k]) : k \in {j \in Has(T) : lo < j /\ j <= hi}}
RowOf(k, v) == IF v = Absent THEN {} ELSE {Row(k, v)}

LEMMA TableHas ==
  ASSUME NEW T \in Table
  PROVE  /\ Has(T) \subseteq Keys /\ Keys \subseteq Nat \ {0}
         /\ \A k \in Has(T) : T[k] \in Vals /\ T[k] # Absent
         /\ \A k \in Keys : k \notin Has(T) => T[k] = Absent
         /\ \A k \in Keys : k <= MaxKey /\ T[k] \in Vals \cup {Absent}
         /\ T = [k \in Keys |-> T[k]]
BY KeysAre DEF Has, Table

LEMMA SpanIs ==
  ASSUME NEW T \in Table, NEW lo, NEW hi
  PROVE  /\ AreRows(Span(T, lo, hi))
         /\ \A r \in Span(T, lo, hi) : /\ r.key \in Has(T) /\ lo < r.key /\ r.key <= hi /\ r.key \in Nat
                                        /\ r = Row(r.key, T[r.key]) /\ r.val = T[r.key]
         /\ \A k \in Has(T) : lo < k /\ k <= hi => Row(k, T[k]) \in Span(T, lo, hi)
<1>1. \A k \in Has(T) : k \in Keys /\ k \in Nat /\ T[k] \in Vals
  BY TableHas
<1>2. \A k, v : Row(k, v).key = k /\ Row(k, v).val = v
  BY DEF Row
<1>3. \A k \in Has(T) : Row(k, T[k]) \in [key : Keys, val : Vals]
  BY <1>1 DEF Row
<1>4. \A r \in Span(T, lo, hi) : /\ r.key \in Has(T) /\ lo < r.key /\ r.key <= hi
                                 /\ r = Row(r.key, T[r.key]) /\ r.val = T[r.key]
  BY <1>2 DEF Span
<1>5. AreRows(Span(T, lo, hi))
  BY <1>3, <1>4 DEF AreRows
<1> QED BY <1>1, <1>4, <1>5 DEF Span

LEMMA SpanJoin ==
  ASSUME NEW T \in Table, NEW a \in Nat, NEW b \in Nat, NEW c \in Nat, a <= b, b <= c
  PROVE  Span(T, a, c) = Span(T, a, b) \cup Span(T, b, c)
<1>1. \A k \in Has(T) : k \in Nat
  BY TableHas
<1>2. \A k \in Has(T) : (a < k /\ k <= c) <=> ((a < k /\ k <= b) \/ (b < k /\ k <= c))
  BY <1>1
<1> QED BY <1>2 DEF Span

LEMMA SpanSame ==
  ASSUME NEW T \in Table, NEW U \in Table, NEW lo, NEW hi,
         \A k \in Keys : lo < k /\ k <= hi => T[k] = U[k]
  PROVE  Span(T, lo, hi) = Span(U, lo, hi)
<1>1. \A k \in Has(T) : lo < k /\ k <= hi => k \in Has(U) /\ T[k] = U[k]
  BY DEF Has
<1>2. \A k \in Has(U) : lo < k /\ k <= hi => k \in Has(T) /\ T[k] = U[k]
  BY DEF Has
<1> QED BY <1>1, <1>2 DEF Span

LEMMA SpanNone ==
  ASSUME NEW T \in Table, NEW lo, NEW hi, \A k \in Has(T) : ~(lo < k /\ k <= hi)
  PROVE  Span(T, lo, hi) = {}
BY DEF Span

LEMMA SpanStep ==
  ASSUME NEW T \in Table, NEW k \in Keys
  PROVE  Span(T, 0, k) = Span(T, 0, k - 1) \cup RowOf(k, T[k])
<1>1. k \in Nat \ {0} /\ (k \in Has(T) <=> T[k] # Absent)
  BY KeysAre DEF Has
<1>2. \A j \in Has(T) : j \in Nat /\ j > 0
  BY TableHas
<1>3. \A j \in Has(T) : (0 < j /\ j <= k) <=> ((0 < j /\ j <= k - 1) \/ j = k)
  BY <1>1, <1>2
<1>4. Span(T, 0, k) = Span(T, 0, k - 1) \cup {Row(j, T[j]) : j \in {i \in Has(T) : i = k}}
  BY <1>3 DEF Span
<1>5. {Row(j, T[j]) : j \in {i \in Has(T) : i = k}} = RowOf(k, T[k])
  BY <1>1 DEF RowOf
<1> QED BY <1>4, <1>5

LEMMA AsTableSpan ==
  ASSUME NEW T \in Table
  PROVE  /\ \A lo, hi : AsTable(Span(T, lo, hi)) = Within(T, lo, hi)
         /\ AsTable(Span(T, 0, MaxKey)) = T
<1>1. ASSUME NEW lo, NEW hi PROVE AsTable(Span(T, lo, hi)) = Within(T, lo, hi)
  <2> DEFINE S == Span(T, lo, hi)
  <2>1. AreRows(S) /\ \A r \in S : r.key \in Has(T) /\ lo < r.key /\ r.key <= hi /\ r.val = T[r.key]
    BY SpanIs
  <2>2. \A k \in Has(T) : lo < k /\ k <= hi => Row(k, T[k]) \in S /\ Row(k, T[k]).key = k
    BY SpanIs DEF Row
  <2>3. AsTable(S) \in Table /\ KeysOf(S) = Has(AsTable(S))
        /\ \A r \in S : AsTable(S)[r.key] = r.val
    BY <2>1, AsTableIs
  <2> HIDE DEF S
  <2>4. ASSUME NEW k \in Keys PROVE AsTable(S)[k] = Within(T, lo, hi)[k]
    <3>1. Within(T, lo, hi)[k] = IF lo < k /\ k <= hi THEN T[k] ELSE Absent
      BY DEF Within
    <3>2. CASE k \in Has(T) /\ lo < k /\ k <= hi
      <4>1. PICK r \in S : r.key = k
        BY <2>2, <3>2
      <4> QED BY <2>1, <2>3, <3>1, <3>2, <4>1
    <3>3. CASE ~(k \in Has(T) /\ lo < k /\ k <= hi)
      <4>1. k \notin KeysOf(S)
        BY <2>1, <3>3 DEF KeysOf
      <4>2. AsTable(S)[k] = Absent
        BY <4>1 DEF AsTable
      <4>3. k \notin Has(T) => T[k] = Absent
        BY TableHas
      <4> QED BY <3>1, <3>3, <4>2, <4>3
    <3> QED BY <3>2, <3>3
  <2>5. AsTable(S) = [k \in Keys |-> AsTable(S)[k]] /\ Within(T, lo, hi) = [k \in Keys |-> Within(T, lo, hi)[k]]
    BY DEF AsTable, Within
  <2> QED BY <2>4, <2>5 DEF S
<1>2. \A k \in Keys : Within(T, 0, MaxKey)[k] = T[k]
  <2>1. \A k \in Keys : 0 < k /\ k <= MaxKey
    BY KeysAre
  <2> QED BY <2>1 DEF Within
<1>3. Within(T, 0, MaxKey) = T
  <2>1. Within(T, 0, MaxKey) = [k \in Keys |-> Within(T, 0, MaxKey)[k]] /\ T = [k \in Keys |-> T[k]]
    BY TableHas DEF Within
  <2> QED BY <1>2, <2>1
<1> QED BY <1>1, <1>3

LEMMA RowsSpan ==
  ASSUME NEW R, AreRows(R)
  PROVE  R = Span(AsTable(R), 0, MaxKey)
<1> DEFINE T == AsTable(R)
<1>1. T \in Table /\ KeysOf(R) = Has(T) /\ \A r \in R : r.key \in Keys /\ T[r.key] = r.val
  BY AsTableIs
<1>2. \A r \in R : r = Row(r.key, r.val)
  BY DEF AreRows, Row
<1> HIDE DEF T
<1>3. \A r \in R : r \in Span(T, 0, MaxKey)
  <2> TAKE r \in R
  <2>0. r.key \in Has(T) /\ r.key \in Keys
    BY <1>1 DEF KeysOf
  <2>3. r.key \in Nat \ {0} /\ r.key <= MaxKey
    BY <2>0, KeysAre
  <2>1. r.key \in Has(T) /\ 0 < r.key /\ r.key <= MaxKey
    <3> DEFINE k == r.key
    <3>1. k \in Nat \ {0} /\ k <= MaxKey
      BY <2>3
    <3> HIDE DEF k
    <3>2. 0 < k
      BY <3>1
    <3> QED BY <2>0, <3>1, <3>2 DEF k
  <2> QED BY <1>1, <1>2, <2>1 DEF Span
<1>4. \A s \in Span(T, 0, MaxKey) : s \in R
  <2> TAKE s \in Span(T, 0, MaxKey)
  <2>1. s.key \in KeysOf(R) /\ s = Row(s.key, T[s.key])
    BY <1>1, SpanIs
  <2>2. PICK r \in R : r.key = s.key
    BY <2>1 DEF KeysOf
  <2> QED BY <1>1, <1>2, <2>1, <2>2
<1> QED BY <1>3, <1>4 DEF T

-----------------------------------------------------------------------------
(* Rows are added one by one.                                              *)

LEMMA AddRowHolds ==
  ASSUME NEW E, NEW ch, NEW R, Holds(ch, R, E), NEW k \in Keys, NEW v \in Vals \cup {Absent},
         v # Absent => \A r \in R : r.key < k
  PROVE  Holds(AddRow(ch, k, v), R \cup RowOf(k, v), E)
<1>1. CASE v = Absent
  BY <1>1 DEF AddRow, RowOf
<1>2. CASE v # Absent
  <2>1. Row(k, v) \in [key : Keys, val : Vals] /\ Row(k, v).key = k
    BY <1>2 DEF Row
  <2>2. 0 \in Levels /\ \A m \in Levels : ~(m < 0)
    BY LevelsAre
  <2>3. Fits(0, Row(k, v), E) /\ ItemRows(0, Row(k, v)) = {Row(k, v)}
    BY <2>1 DEF Fits, ItemRows
  <2>4. \A r \in R, s \in ItemRows(0, Row(k, v)) : r.key < s.key
    BY <1>2, <2>1, <2>3
  <2>5. Holds(AddTo(ch, 0, Row(k, v)), R \cup ItemRows(0, Row(k, v)), E)
    BY <2>2, <2>3, <2>4, AddToHolds
  <2> QED BY <1>2, <2>3, <2>5 DEF AddRow, RowOf
<1> QED BY <1>1, <1>2

\* the rows of a table, one by one
IsAdd(f, ch, rows, n) == f = [k \in 0..n |-> IF k = 0 THEN ch ELSE AddRow(f[k - 1], k, rows[k])]

LEMMA AddExists == ASSUME NEW ch, NEW rows PROVE \A n \in Nat : \E f : IsAdd(f, ch, rows, n)
<1> DEFINE T == {n \in Nat : \E f : IsAdd(f, ch, rows, n)}
<1>1. 0 \in T
  <2> DEFINE f == [k \in 0..0 |-> ch]
  <2>1. IsAdd(f, ch, rows, 0)
    BY DEF IsAdd
  <2> QED BY <2>1
<1>2. ASSUME NEW n \in Nat, n \in T PROVE n + 1 \in T
  <2>1. PICK f : IsAdd(f, ch, rows, n)
    BY <1>2
  <2> DEFINE g == [k \in 0..(n + 1) |-> IF k = n + 1 THEN AddRow(f[n], (n + 1), rows[(n + 1)]) ELSE f[k]]
  <2>2. \A k \in 0..(n + 1) : g[k] = IF k = 0 THEN ch ELSE AddRow(g[k - 1], k, rows[k])
    <3> TAKE k \in 0..(n + 1)
    <3>1. CASE k = n + 1
      <4>1. k # 0 /\ k - 1 = n /\ k - 1 \in 0..(n + 1) /\ k - 1 # n + 1
        BY <3>1
      <4>2. g[k] = AddRow(f[n], k, rows[k]) /\ g[k - 1] = f[n]
        BY <3>1, <4>1
      <4> QED BY <4>1, <4>2
    <3>2. CASE k # n + 1 /\ k # 0
      <4>1. k \in 0..n /\ k - 1 \in 0..(n + 1) /\ k - 1 # n + 1
        BY <3>2
      <4>2. g[k] = f[k] /\ g[k - 1] = f[k - 1]
        BY <3>2, <4>1
      <4>3. f[k] = AddRow(f[k - 1], k, rows[k])
        BY <2>1, <3>2, <4>1 DEF IsAdd
      <4> QED BY <3>2, <4>2, <4>3
    <3>3. CASE k = 0
      <4>1. k \in 0..n /\ k # n + 1
        BY <3>3
      <4> QED BY <2>1, <3>3, <4>1 DEF IsAdd
    <3> QED BY <3>1, <3>2, <3>3
  <2>3. g = [k \in 0..(n + 1) |-> g[k]]
    OBVIOUS
  <2> HIDE DEF g
  <2>4. IsAdd(g, ch, rows, n + 1)
    BY <2>2, <2>3 DEF IsAdd
  <2> QED BY <2>4
<1> HIDE DEF T
<1>3. Nat \subseteq T
  BY <1>1, <1>2, NumberInduction
<1> QED BY <1>3 DEF T

LEMMA AddRowsIs ==
  ASSUME NEW ch, NEW rows
  PROVE  \E f : /\ f[0] = ch /\ AddRows(ch, rows) = f[MaxKey]
                /\ \A k \in 1..MaxKey : f[k] = AddRow(f[k - 1], k, rows[k])
<1> DEFINE f == CHOOSE f : IsAdd(f, ch, rows, MaxKey)
<1>1. IsAdd(f, ch, rows, MaxKey)
  BY KeysAre, AddExists
<1>2. AddRows(ch, rows) = f[MaxKey]
  BY DEF AddRows, IsAdd
<1> HIDE DEF f
<1>3. \A k \in 0..MaxKey : f[k] = IF k = 0 THEN ch ELSE AddRow(f[k - 1], k, rows[k])
  BY <1>1 DEF IsAdd
<1>4. 0 \in 0..MaxKey /\ \A k \in 1..MaxKey : k \in 0..MaxKey /\ k # 0
  BY KeysAre
<1>5. f[0] = ch /\ \A k \in 1..MaxKey : f[k] = AddRow(f[k - 1], k, rows[k])
  BY <1>3, <1>4
<1> QED BY <1>2, <1>5

LEMMA AddRowsHolds ==
  ASSUME NEW E, NEW ch, NEW R, Holds(ch, R, E), NEW T \in Table,
         \A r \in R, k \in Has(T) : r.key < k
  PROVE  Holds(AddRows(ch, T), R \cup Span(T, 0, MaxKey), E)
<1>1. PICK f : /\ f[0] = ch /\ AddRows(ch, T) = f[MaxKey]
               /\ \A k \in 1..MaxKey : f[k] = AddRow(f[k - 1], k, T[k])
  BY AddRowsIs
<1> DEFINE S == {k \in Nat : k <= MaxKey => Holds(f[k], R \cup Span(T, 0, k), E)}
<1>2. 0 \in S
  <2>1. \A k \in Has(T) : ~(0 < k /\ k <= 0)
    BY TableHas
  <2>2. Span(T, 0, 0) = {}
    BY <2>1, SpanNone
  <2> QED BY <1>1, <2>2
<1>3. ASSUME NEW k \in Nat, k \in S PROVE k + 1 \in S
  <2> SUFFICES ASSUME k + 1 <= MaxKey PROVE Holds(f[k + 1], R \cup Span(T, 0, k + 1), E)
    OBVIOUS
  <2> DEFINE j == k + 1
             Q == R \cup Span(T, 0, k)
  <2>1. j \in Keys /\ j \in 1..MaxKey /\ j - 1 = k /\ j \in Nat
    BY KeysAre DEF Keys
  <2>2. Holds(f[k], Q, E)
    BY <1>3, KeysAre
  <2>3. T[j] \in Vals \cup {Absent} /\ (T[j] # Absent => j \in Has(T))
    BY <2>1, TableHas DEF Has
  <2>4. \A r \in Span(T, 0, k) : r.key < j
    BY SpanIs
  <2>5. T[j] # Absent => \A r \in Q : r.key < j
    BY <2>3, <2>4
  <2> HIDE DEF Q, j
  <2>6. Holds(AddRow(f[k], j, T[j]), Q \cup RowOf(j, T[j]), E)
    BY <2>1, <2>2, <2>3, <2>5, AddRowHolds
  <2>7. f[j] = AddRow(f[k], j, T[j])
    BY <1>1, <2>1
  <2>8. Span(T, 0, j) = Span(T, 0, k) \cup RowOf(j, T[j])
    BY <2>1, SpanStep
  <2>9. R \cup Span(T, 0, j) = Q \cup RowOf(j, T[j])
    BY <2>8 DEF Q
  <2> QED BY <2>6, <2>7, <2>9 DEF j
<1> HIDE DEF S
<1>4. Nat \subseteq S
  BY <1>2, <1>3, NumberInduction
<1>5. MaxKey \in S /\ MaxKey \in Nat
  BY <1>4, KeysAre
<1> QED BY <1>1, <1>5 DEF S

-----------------------------------------------------------------------------
(* The end of the chunker.                                                 *)

\* the levels are closed from the lowest up
IsClose(f, ch, n) == f = [k \in 0..n |-> IF k = 0 THEN ch ELSE Close(f[k - 1], k - 1)]

LEMMA CloseExists == ASSUME NEW ch PROVE \A n \in Nat : \E f : IsClose(f, ch, n)
<1> DEFINE T == {n \in Nat : \E f : IsClose(f, ch, n)}
<1>1. 0 \in T
  <2> DEFINE f == [k \in 0..0 |-> ch]
  <2>1. IsClose(f, ch, 0)
    BY DEF IsClose
  <2> QED BY <2>1
<1>2. ASSUME NEW n \in Nat, n \in T PROVE n + 1 \in T
  <2>1. PICK f : IsClose(f, ch, n)
    BY <1>2
  <2> DEFINE g == [k \in 0..(n + 1) |-> IF k = n + 1 THEN Close(f[n], (n + 1) - 1) ELSE f[k]]
  <2>2. \A k \in 0..(n + 1) : g[k] = IF k = 0 THEN ch ELSE Close(g[k - 1], k - 1)
    <3> TAKE k \in 0..(n + 1)
    <3>1. CASE k = n + 1
      <4>1. k # 0 /\ k - 1 = n /\ k - 1 \in 0..(n + 1) /\ k - 1 # n + 1
        BY <3>1
      <4>2. g[k] = Close(f[n], k - 1) /\ g[k - 1] = f[n]
        BY <3>1, <4>1
      <4> QED BY <4>1, <4>2
    <3>2. CASE k # n + 1 /\ k # 0
      <4>1. k \in 0..n /\ k - 1 \in 0..(n + 1) /\ k - 1 # n + 1
        BY <3>2
      <4>2. g[k] = f[k] /\ g[k - 1] = f[k - 1]
        BY <3>2, <4>1
      <4>3. f[k] = Close(f[k - 1], k - 1)
        BY <2>1, <3>2, <4>1 DEF IsClose
      <4> QED BY <3>2, <4>2, <4>3
    <3>3. CASE k = 0
      <4>1. k \in 0..n /\ k # n + 1
        BY <3>3
      <4> QED BY <2>1, <3>3, <4>1 DEF IsClose
    <3> QED BY <3>1, <3>2, <3>3
  <2>3. g = [k \in 0..(n + 1) |-> g[k]]
    OBVIOUS
  <2> HIDE DEF g
  <2>4. IsClose(g, ch, n + 1)
    BY <2>2, <2>3 DEF IsClose
  <2> QED BY <2>4
<1> HIDE DEF T
<1>3. Nat \subseteq T
  BY <1>1, <1>2, NumberInduction
<1> QED BY <1>3 DEF T

LEMMA FinishIs ==
  ASSUME NEW ch
  PROVE  \E f : /\ f[0] = ch /\ \A k \in 1..Depth : f[k] = Close(f[k - 1], k - 1)
                /\ Finish(ch) = IF Full(f[Depth]) THEN Failed
                                ELSE IF f[Depth] = NoItems THEN Empty
                                ELSE LET top == CHOOSE l \in Levels : f[Depth].at[l] # <<>>
                                     IN Node(top, f[Depth].at[top])
<1> DEFINE f == CHOOSE f : IsClose(f, ch, Depth)
<1>1. IsClose(f, ch, Depth)
  BY LevelsAre, CloseExists
<1>2. Finish(ch) = IF Full(f[Depth]) THEN Failed
                                ELSE IF f[Depth] = NoItems THEN Empty
                                ELSE LET top == CHOOSE l \in Levels : f[Depth].at[l] # <<>>
                                     IN Node(top, f[Depth].at[top])
  BY DEF Finish, IsClose
<1> HIDE DEF f
<1>3. \A k \in 0..Depth : f[k] = IF k = 0 THEN ch ELSE Close(f[k - 1], k - 1)
  BY <1>1 DEF IsClose
<1>4. 0 \in 0..Depth /\ \A k \in 1..Depth : k \in 0..Depth /\ k # 0
  BY LevelsAre
<1>5. f[0] = ch /\ \A k \in 1..Depth : f[k] = Close(f[k - 1], k - 1)
  BY <1>3, <1>4
<1> QED BY <1>2, <1>5

\* E has the last key that is held
EndsIn(R, E) == \A r \in R : (\A s \in R : s.key <= r.key) => r.key \in E

\* nothing waits below the level, or all that waits does at one level below
Closed(ch, l) ==
  \/ \A m \in Levels : m < l => ch.at[m] = <<>>
  \/ \E k \in Levels : k < l /\ \A m \in Levels : m # k => ch.at[m] = <<>>

LEMMA WaitsAre ==
  ASSUME NEW ch, NEW E, Orderly(ch, E), NEW l \in Levels, ch.at[l] # <<>>
  PROVE  /\ Waits(ch, l) = Rows(Node(l, ch.at[l])) /\ Open(Node(l, ch.at[l]), E)
         /\ RowsOk(Node(l, ch.at[l])) /\ Waits(ch, l) # {}
<1>1. Open(Node(l, ch.at[l]), E)
  BY DEF Orderly
<1>2. RowsOk(Node(l, ch.at[l]))
  BY <1>1, OpenIs
<1>3. Waits(ch, l) = Rows(Node(l, ch.at[l]))
  BY DEF Waits, WaitRows
<1>4. Rows(Node(l, ch.at[l])) # {}
  BY <1>2 DEF RowsOk, KeysOf
<1> QED BY <1>1, <1>2, <1>3, <1>4

\* what waits at the lowest level in use may become a node
LEMMA LowestIs ==
  ASSUME NEW ch, NEW E, NEW R, Orderly(ch, E), Content(ch) = R, EndsIn(R, E),
         NEW l \in Levels, ch.at[l] # <<>>, \A m \in Levels : m < l => ch.at[m] = <<>>
  PROVE  Tidy(Node(l, ch.at[l]), E)
<1> DEFINE n == Node(l, ch.at[l])
<1>1. Waits(ch, l) = Rows(n) /\ Open(n, E) /\ RowsOk(n)
  BY WaitsAre
<1>2. n.level = l /\ n.items = ch.at[l]
  BY NodeIs
<1> HIDE DEF n
<1>3. R = UNION {Waits(ch, m) : m \in Levels}
  BY DEF Content
<1>4. PICK r \in Rows(n) : r.key = LastKey(n)
  BY <1>1 DEF RowsOk, KeysOf
<1>5. r \in R
  BY <1>1, <1>3
<1>6. \A s \in R : s.key <= r.key
  <2> SUFFICES ASSUME NEW m \in Levels, NEW s \in Waits(ch, m) PROVE s.key <= r.key
    BY <1>3
  <2>1. l \in Nat /\ m \in Nat
    BY LevelsAre
  <2>2. CASE m < l
    BY <2>2 DEF Waits, WaitRows
  <2>3. CASE m = l
    BY <1>1, <1>4, <2>3 DEF RowsOk
  <2>4. CASE m > l
    <3>1. s.key < r.key
      BY <1>1, <2>1, <2>4 DEF Orderly
    <3>2. ch.at[m] # <<>>
      BY DEF Waits, WaitRows
    <3>3. s \in Rows(Node(m, ch.at[m])) /\ RowsOk(Node(m, ch.at[m]))
      BY <3>2, WaitsAre
    <3>4. s.key \in Nat /\ r.key \in Nat
      BY <1>1, <3>3, KeysAre DEF RowsOk, AreRows
    <3> QED BY <3>1, <3>4
  <2> QED BY <2>1, <2>2, <2>3, <2>4
<1>7. LastKey(n) \in E
  BY <1>4, <1>5, <1>6 DEF EndsIn
<1>8. Shaped(n) /\ Sorted(n) /\ (\A c \in Children(n) : Tidy(c, E))
      /\ \A i \in 1..Len(n.items) : ~Splits(n.level, Prefix(n.items, i))
  BY <1>1 DEF Open
<1>9. Cut(n, E)
  BY <1>7, <1>8 DEF Cut
<1> QED BY <1>8, <1>9, TidyNode DEF n

LEMMA AddToBelow ==
  ASSUME NEW ch, IsChunker(ch), ~Full(ch), NEW l \in Levels, NEW it
  PROVE  \A m \in Levels : m < l => AddTo(ch, l, it).at[m] = ch.at[m]
<1> DEFINE T == {d \in Nat : \A k \in Nat : k + d = Depth => \A c, x :
                  IsChunker(c) /\ ~Full(c) => \A m \in Levels : m < k => AddTo(c, k, x).at[m] = c.at[m]}
<1>1. 0 \in T
  <2> SUFFICES ASSUME NEW k \in Nat, k + 0 = Depth, NEW c, NEW x, IsChunker(c), ~Full(c)
               PROVE  \A m \in Levels : m < k => AddTo(c, k, x).at[m] = c.at[m]
    OBVIOUS
  <2>1. k = Depth
    BY LevelsAre
  <2>2. AddTo(c, k, x).at = c.at
    BY <2>1, AddToTop
  <2> QED BY <2>2
<1>2. ASSUME NEW d \in Nat, d \in T PROVE d + 1 \in T
  <2> SUFFICES ASSUME NEW k \in Nat, k + (d + 1) = Depth, NEW c, NEW x, IsChunker(c), ~Full(c),
                      NEW m \in Levels, m < k
               PROVE  AddTo(c, k, x).at[m] = c.at[m]
    OBVIOUS
  <2>1. k \in Levels /\ k + 1 + d = Depth /\ k + 1 \in Nat /\ m # k /\ m < k + 1
    BY LevelsAre
  <2> DEFINE items == Append(c.at[k], x)
             e == Put(c, k, <<>>)
             u == Up(Node(k, items))
  <2>2. AddTo(c, k, x) = IF Splits(k, items) THEN AddTo(e, k + 1, u) ELSE Put(c, k, items)
    BY <2>1, AddToStep
  <2>3. IsChunker(e) /\ ~Full(e) /\ e.at[m] = c.at[m]
    BY <2>1, PutIs DEF Full
  <2>4. Put(c, k, items).at[m] = c.at[m]
    BY <2>1, PutIs
  <2> HIDE DEF items, e, u
  <2>5. AddTo(e, k + 1, u).at[m] = e.at[m]
    BY <1>2, <2>1, <2>3
  <2> QED BY <2>2, <2>3, <2>4, <2>5
<1> HIDE DEF T
<1>3. Nat \subseteq T
  BY <1>1, <1>2, NumberInduction
<1>4. l \in Nat /\ Depth - l \in Nat /\ l + (Depth - l) = Depth
  BY LevelsAre
<1> QED BY <1>3, <1>4 DEF T

\* what waits at a level goes on to the next one that is in use
ClosedTo(ch, l, R, E, n, e) ==
  /\ Close(ch, l) = AddTo(e, l + 1, Up(n)) /\ l + 1 \in Levels
  /\ n.level = l /\ n.items = ch.at[l] /\ Tidy(n, E) /\ Rows(n) = Waits(ch, l)
  /\ ReadyFor(e, l + 1, Up(n), Content(e), E)
  /\ Content(e) \cup ItemRows(l + 1, Up(n)) = R

LEMMA CloseNext ==
  ASSUME NEW ch, NEW E, NEW R, Holds(ch, R, E), EndsIn(R, E), NEW l \in Levels,
         ~Full(ch), ch.at[l] # <<>>, Pending(ch, l), Closed(ch, l),
         NEW n, n = Node(l, ch.at[l]), NEW e, e = Put(ch, l, <<>>)
  PROVE  ClosedTo(ch, l, R, E, n, e)
<1>0. l \in Nat /\ l + 1 \in Nat /\ \A m \in Levels : m \in Nat
  BY LevelsAre
<1> DEFINE u == Up(n)
           P == Content(e)
<1>1. Orderly(ch, E) /\ Content(ch) = R
  BY DEF Holds
<1>2. PICK a \in Levels : a > l /\ ch.at[a] # <<>>
  BY DEF Pending
<1>3. \A m \in Levels : m < l => ch.at[m] = <<>>
  BY <1>0, <1>2 DEF Closed
<1>4. Tidy(n, E) /\ Waits(ch, l) = Rows(n)
  BY <1>1, <1>3, LowestIs, WaitsAre
<1>5. Close(ch, l) = AddTo(e, l + 1, u)
  BY DEF Close, Put
<1>6. n.level = l /\ n.items = ch.at[l] /\ u.child = n /\ u = Up(n)
  BY NodeIs DEF Up
<1>7. /\ Orderly(e, E) /\ ~Full(e) /\ Waits(e, l) = {}
      /\ \A m \in Levels : m # l => Waits(e, m) = Waits(ch, m)
      /\ \A m \in Levels : m # l => e.at[m] = ch.at[m]
      /\ e.at[l] = <<>>
  <2>1. WaitRows(l, <<>>) = {}
    BY DEF WaitRows
  <2> QED BY <1>1, <1>3, <2>1, PutHolds
<1>8. l + 1 \in Levels
  BY <1>2, LevelsAre
<1> HIDE DEF u
<1>9. Fits(l + 1, u, E) /\ ItemRows(l + 1, u) = Rows(n)
  <2> DEFINE k == l + 1
  <2>1. k # 0 /\ k - 1 = l
    BY <1>0
  <2> HIDE DEF k
  <2>2. Fits(k, u, E)
    BY <1>4, <1>6, <2>1 DEF Fits
  <2>3. ItemRows(k, u) = Rows(n)
    BY <1>6, <2>1 DEF ItemRows
  <2> QED BY <2>2, <2>3 DEF k
<1>10. P = UNION {Waits(e, m) : m \in Levels} /\ R = UNION {Waits(ch, m) : m \in Levels}
  BY <1>1 DEF Content
<1>11. P \cup Rows(n) = R
  BY <1>4, <1>7, <1>10
<1>12. \A r \in P, s \in Rows(n) : r.key < s.key
  <2> SUFFICES ASSUME NEW m \in Levels, NEW r \in Waits(e, m), NEW s \in Rows(n) PROVE r.key < s.key
    BY <1>10
  <2>1. m # l /\ r \in Waits(ch, m)
    BY <1>7
  <2>2. ~(m < l)
    BY <1>3, <2>1 DEF Waits, WaitRows
  <2>3. l < m
    BY <1>0, <2>1, <2>2
  <2> QED BY <1>1, <1>4, <2>1, <2>3 DEF Orderly
<1>13. \A m \in Levels : m < l + 1 => e.at[m] = <<>>
  <2>1. \A m \in Levels : m < l + 1 => m = l \/ m < l
    BY <1>0
  <2> QED BY <1>3, <1>7, <2>1
<1> HIDE DEF P
<1>14. ReadyFor(e, l + 1, u, P, E)
  BY <1>7, <1>9, <1>12, <1>13 DEF ReadyFor, P
<1>15. P \cup ItemRows(l + 1, u) = R
  BY <1>9, <1>11
<1> QED BY <1>4, <1>5, <1>6, <1>8, <1>14, <1>15 DEF ClosedTo, P, u

LEMMA CloseHolds ==
  ASSUME NEW ch, NEW E, NEW R, Holds(ch, R, E), EndsIn(R, E), NEW l \in Levels,
         Full(ch) \/ Closed(ch, l)
  PROVE  LET c == Close(ch, l) IN Holds(c, R, E) /\ (Full(c) \/ Closed(c, l + 1))
<1>0. l \in Nat /\ l + 1 \in Nat /\ \A m \in Levels : m \in Nat
  BY LevelsAre
<1>1. CASE Full(ch)
  <2>1. Close(ch, l) = ch
    BY <1>1 DEF Close
  <2> QED BY <1>1, <2>1
<1>2. CASE ~Full(ch) /\ ch.at[l] = <<>>
  <2>1. Close(ch, l) = ch
    BY <1>2 DEF Close
  <2>2. Closed(ch, l + 1)
    <3>1. \A m \in Levels : m < l + 1 => m < l \/ m = l
      BY <1>0
    <3>2. \A m \in Levels : m < l => m < l + 1
      BY <1>0
    <3> QED BY <1>2, <3>1, <3>2 DEF Closed
  <2> QED BY <2>1, <2>2
<1>3. CASE ~Full(ch) /\ ch.at[l] # <<>> /\ ~Pending(ch, l)
  <2>1. Close(ch, l) = ch
    BY <1>3 DEF Close
  <2>2. \A m \in Levels : m < l => ch.at[m] = <<>>
    BY <1>0, <1>3 DEF Closed
  <2>3. \A m \in Levels : m > l => ch.at[m] = <<>>
    BY <1>3 DEF Pending
  <2>4. \A m \in Levels : m # l => ch.at[m] = <<>>
    BY <1>0, <2>2, <2>3
  <2>5. l < l + 1
    BY <1>0
  <2>6. Closed(ch, l + 1)
    BY <2>4, <2>5 DEF Closed
  <2> QED BY <2>1, <2>6
<1>4. CASE ~Full(ch) /\ ch.at[l] # <<>> /\ Pending(ch, l)
  <2> DEFINE n == Node(l, ch.at[l])
             e == Put(ch, l, <<>>)
             u == Up(n)
  <2>1. ClosedTo(ch, l, R, E, n, e)
    BY <1>4, CloseNext
  <2> HIDE DEF n, e
  <2>2. /\ Close(ch, l) = AddTo(e, l + 1, u) /\ l + 1 \in Levels
        /\ ReadyFor(e, l + 1, u, Content(e), E)
        /\ Content(e) \cup ItemRows(l + 1, u) = R
    BY <2>1 DEF ClosedTo
  <2> HIDE DEF u
  <2>3. Holds(Close(ch, l), R, E)
    BY <2>2, ReadyHolds
  <2>4. IsChunker(e) /\ ~Full(e) /\ \A m \in Levels : m < l + 1 => e.at[m] = <<>>
    BY <2>2 DEF ReadyFor, Orderly
  <2>5. \A m \in Levels : m < l + 1 => AddTo(e, l + 1, u).at[m] = <<>>
    BY <2>2, <2>4, AddToBelow
  <2>6. Closed(Close(ch, l), l + 1)
    BY <2>2, <2>5 DEF Closed
  <2> QED BY <2>3, <2>6
<1> QED BY <1>1, <1>2, <1>3, <1>4

\* no node ends at the end of a tree
Uncut(n) == ~Splits(n.level, n.items)

LEMMA OpenUncut == ASSUME NEW n, NEW E, Open(n, E) PROVE Uncut(n)
<1>1. Shaped(n) /\ Sorted(n) /\ \A i \in 1..Len(n.items) : ~Splits(n.level, Prefix(n.items, i))
  BY DEF Open
<1>2. Len(n.items) \in 1..Len(n.items) /\ DOMAIN n.items = 1..Len(n.items)
  BY <1>1, ItemsAre
<1>3. n.items = [j \in 1..Len(n.items) |-> n.items[j]]
  <2>1. n.items \in Seq(Range(n.items))
    BY <1>1 DEF Shaped
  <2> QED BY <1>2, <2>1
<1>4. Prefix(n.items, Len(n.items)) = n.items
  BY <1>3 DEF Prefix
<1> QED BY <1>1, <1>2, <1>4 DEF Uncut

\* All that was added becomes a tree, unless it was given up.
LEMMA FinishHolds ==
  ASSUME NEW ch, NEW E, NEW R, Holds(ch, R, E), EndsIn(R, E)
  PROVE  \/ Finish(ch) = Failed
         \/ R = {} /\ Finish(ch) = Empty
         \/ R # {} /\ Tidy(Finish(ch), E) /\ Rows(Finish(ch)) = R /\ Uncut(Finish(ch))
<1>1. PICK f : /\ f[0] = ch /\ \A k \in 1..Depth : f[k] = Close(f[k - 1], k - 1)
               /\ Finish(ch) = IF Full(f[Depth]) THEN Failed
                                ELSE IF f[Depth] = NoItems THEN Empty
                                ELSE LET top == CHOOSE l \in Levels : f[Depth].at[l] # <<>>
                                     IN Node(top, f[Depth].at[top])
  BY FinishIs
<1> DEFINE T == {k \in Nat : k <= Depth => Holds(f[k], R, E) /\ (Full(f[k]) \/ Closed(f[k], k))}
<1>2. 0 \in T
  <2>1. \A m \in Levels : ~(m < 0)
    BY LevelsAre
  <2> QED BY <1>1, <2>1 DEF Closed
<1>3. ASSUME NEW k \in Nat, k \in T PROVE k + 1 \in T
  <2> SUFFICES ASSUME k + 1 <= Depth PROVE Holds(f[k + 1], R, E) /\ (Full(f[k + 1]) \/ Closed(f[k + 1], k + 1))
    OBVIOUS
  <2>1. k \in Levels /\ k + 1 \in 1..Depth /\ k + 1 - 1 = k /\ k <= Depth
    BY LevelsAre
  <2>2. f[k + 1] = Close(f[k], k)
    BY <1>1, <2>1
  <2>3. Holds(f[k], R, E) /\ (Full(f[k]) \/ Closed(f[k], k))
    BY <1>3, <2>1
  <2> QED BY <2>1, <2>2, <2>3, CloseHolds
<1> HIDE DEF T
<1>4. Nat \subseteq T
  BY <1>2, <1>3, NumberInduction
<1> DEFINE end == f[Depth]
           top == CHOOSE l \in Levels : end.at[l] # <<>>
<1>5. Holds(end, R, E) /\ (Full(end) \/ Closed(end, Depth))
  <2>1. Depth \in T /\ Depth \in Nat
    BY <1>4, LevelsAre
  <2> QED BY <2>1 DEF T
<1>6. Finish(ch) = IF Full(end) THEN Failed ELSE IF end = NoItems THEN Empty ELSE Node(top, end.at[top])
  BY <1>1
<1> HIDE DEF end
<1>7. CASE Full(end)
  BY <1>6, <1>7
<1>8. CASE ~Full(end)
  <2>1. Orderly(end, E) /\ Content(end) = R /\ IsChunker(end) /\ end.up = <<>>
    BY <1>5, <1>8 DEF Holds, Orderly, Full
  <2>2. R = UNION {Waits(end, m) : m \in Levels}
    BY <2>1 DEF Content
  <2>3. CASE \A m \in Levels : end.at[m] = <<>>
    <3>1. end = NoItems
      BY <2>1, <2>3, NoItemsIs, SameChunker DEF NoItems
    <3>2. R = {}
      BY <2>2, <2>3 DEF Waits, WaitRows
    <3> QED BY <1>6, <1>8, <3>1, <3>2
  <2>4. CASE \E m \in Levels : end.at[m] # <<>>
    <3>1. top \in Levels /\ end.at[top] # <<>>
      BY <2>4
    <3>2. \A m \in Levels : m < Depth
      BY LevelsAre
    <3>3. PICK k \in Levels : \A m \in Levels : m # k => end.at[m] = <<>>
      BY <1>5, <1>8, <2>4, <3>2 DEF Closed
    <3>4. top = k
      BY <3>1, <3>3
    <3> HIDE DEF top
    <3>5. end # NoItems
      BY <3>1, NoItemsIs
    <3>6. Finish(ch) = Node(k, end.at[k])
      BY <1>6, <1>8, <3>4, <3>5
    <3>7. \A m \in Levels : m < k => end.at[m] = <<>>
      BY <3>3, LevelsAre
    <3>8. Tidy(Node(k, end.at[k]), E) /\ Waits(end, k) = Rows(Node(k, end.at[k])) /\ Waits(end, k) # {}
      BY <2>1, <3>1, <3>4, <3>7, LowestIs, WaitsAre
    <3>11. Uncut(Node(k, end.at[k]))
      BY <2>1, <3>1, <3>4, WaitsAre, OpenUncut
    <3>9. \A m \in Levels : m # k => Waits(end, m) = {}
      BY <3>3 DEF Waits, WaitRows
    <3>10. R = Waits(end, k)
      BY <2>2, <3>9
    <3> QED BY <3>6, <3>8, <3>10, <3>11
  <2> QED BY <2>3, <2>4
<1> QED BY <1>7, <1>8

-----------------------------------------------------------------------------
(* The tree of a table.                                                    *)

Ends(T) == {k \in Has(T) : \A j \in Has(T) : j <= k}

IsTree(root, T) == (root = Empty /\ T = NoRows) \/ (Good(root) /\ Uncut(root) /\ TableOf(root) = T)

LEMMA NoRowsIs == NoRows \in Table /\ Has(NoRows) = {} /\ Rows(Empty) = {} /\ TableOf(Empty) = NoRows
                  /\ Empty.level = 0 /\ Empty.items = <<>> /\ NodesOf(Empty) = {Empty}
<1>1. NoRows \in Table /\ Has(NoRows) = {}
  BY DEF NoRows, Table, Has
<1>2. Empty.level = 0 /\ Empty.items = <<>>
  BY DEF Empty, Node
<1>3. NodesOf(Empty) = {Empty}
  BY <1>2, LeafNodes
<1>4. {m \in NodesOf(Empty) : m.level = 0} = {Empty}
  BY <1>2, <1>3
<1>5. Rows(Empty) = Range(<<>>)
  BY <1>2, <1>4 DEF Rows
<1>6. Rows(Empty) = {}
  BY <1>5 DEF Range
<1>7. TableOf(Empty) = NoRows
  BY <1>6 DEF TableOf, AsTable, KeysOf, NoRows
<1> QED BY <1>1, <1>2, <1>3, <1>6, <1>7

LEMMA EndsIs ==
  ASSUME NEW T \in Table, NEW K \in Has(T), \A k \in Has(T) : k <= K
  PROVE  Ends(T) = {K}
<1> DEFINE H == Has(T)
<1>1. \A k \in H : k \in Nat
  BY TableHas
<1>2. K \in H /\ K \in Nat /\ \A k \in H : k <= K
  BY <1>1
<1> HIDE DEF H
<1>3. ASSUME NEW k \in H, \A j \in H : j <= k PROVE k = K
  <2>1. k <= K /\ K <= k /\ k \in Nat
    BY <1>1, <1>2, <1>3
  <2> QED BY <1>2, <2>1
<1> QED BY <1>2, <1>3 DEF Ends, H

LEMMA GoodIs ==
  ASSUME NEW root, Good(root)
  PROVE  /\ root.level \in Levels /\ root.level \in Nat /\ Whole(root) /\ Shaped(root) /\ Sorted(root) /\ RowsOk(root)
         /\ root # Empty /\ root # Failed
         /\ TableOf(root) \in Table /\ Rows(root) = Span(TableOf(root), 0, MaxKey)
         /\ Ends(TableOf(root)) = {LastKey(root)} /\ LastKey(root) \in Has(TableOf(root))
<1>1. /\ root.level \in Levels /\ root.level \in Nat /\ Whole(root) /\ Shaped(root) /\ Sorted(root) /\ RowsOk(root)
  BY TidyIs DEF Good
<1>2. root # Empty
  BY <1>1 DEF Sorted, Empty, Node
<1>3. root # Failed
  BY <1>1, LevelsAre DEF Failed, Node
<1>4. TableOf(root) \in Table /\ Rows(root) = Span(TableOf(root), 0, MaxKey)
  BY <1>1, TableIs, RowsSpan DEF RowsOk, TableOf
<1>5. LastKey(root) \in Has(TableOf(root)) /\ \A k \in Has(TableOf(root)) : k <= LastKey(root)
  BY <1>1, TableIs
<1>6. Ends(TableOf(root)) = {LastKey(root)}
  BY <1>4, <1>5, EndsIs
<1> QED BY <1>1, <1>2, <1>3, <1>4, <1>5, <1>6

LEMMA TreeIs ==
  ASSUME NEW root, NEW T \in Table, IsTree(root, T)
  PROVE  /\ Rows(root) = Span(T, 0, MaxKey) /\ TableOf(root) = T /\ root # Failed
         /\ root = Empty \/ Good(root)
         /\ root = Empty <=> Has(T) = {}
         /\ root # Empty => Ends(T) = {LastKey(root)} /\ Uncut(root)
<1>1. CASE root = Empty /\ T = NoRows
  <2>1. Span(T, 0, MaxKey) = {}
    BY <1>1, NoRowsIs, SpanNone
  <2>2. Empty # Failed
    BY LevelsAre DEF Empty, Failed, Node
  <2> QED BY <1>1, <2>1, <2>2, NoRowsIs
<1>2. CASE Good(root) /\ Uncut(root) /\ TableOf(root) = T
  BY <1>2, GoodIs
<1> QED BY <1>1, <1>2 DEF IsTree

LEMMA EndsInTable ==
  ASSUME NEW T \in Table
  PROVE  EndsIn(Span(T, 0, MaxKey), Ends(T))
<1> DEFINE R == Span(T, 0, MaxKey)
<1>1. \A r \in R : r.key \in Has(T)
  BY SpanIs
<1>2. \A k \in Has(T) : Row(k, T[k]) \in R /\ Row(k, T[k]).key = k
  <2>1. \A k \in Has(T) : k \in Keys
    BY TableHas
  <2>2. \A k \in Has(T) : 0 < k /\ k <= MaxKey
    <3> TAKE k \in Has(T)
    <3>1. k \in Nat \ {0} /\ k <= MaxKey
      BY <2>1, KeysAre
    <3> QED BY <3>1
  <2> QED BY <2>2, SpanIs DEF Row
<1> HIDE DEF R
<1>3. ASSUME NEW r \in R, \A s \in R : s.key <= r.key PROVE r.key \in Ends(T)
  <2>1. \A j \in Has(T) : j <= r.key
    BY <1>2, <1>3
  <2> QED BY <1>1, <2>1 DEF Ends
<1> QED BY <1>3 DEF EndsIn, R

LEMMA TreeFrom ==
  ASSUME NEW T \in Table, NEW ch, Holds(ch, Span(T, 0, MaxKey), Ends(T))
  PROVE  Finish(ch) = Failed \/ IsTree(Finish(ch), T)
<1> DEFINE R == Span(T, 0, MaxKey)
           root == Finish(ch)
<1>1. EndsIn(R, Ends(T))
  BY EndsInTable
<1>2. \/ root = Failed
      \/ R = {} /\ root = Empty
      \/ R # {} /\ Tidy(root, Ends(T)) /\ Rows(root) = R /\ Uncut(root)
  BY <1>1, FinishHolds
<1>3. AsTable(R) = T
  BY AsTableSpan
<1> HIDE DEF R, root
<1>4. CASE R = {} /\ root = Empty
  <2>1. T = NoRows
    BY <1>3, <1>4, NoRowsIs DEF TableOf
  <2> QED BY <1>4, <2>1 DEF IsTree, root
<1>5. CASE Tidy(root, Ends(T)) /\ Rows(root) = R /\ Uncut(root)
  <2>1. TableOf(root) = T
    BY <1>3, <1>5 DEF TableOf
  <2>2. root.level \in Nat /\ Whole(root)
    BY <1>5, TidyIs
  <2>3. LastKey(root) \in Has(T) /\ \A k \in Has(T) : k <= LastKey(root)
    BY <2>1, <2>2, TableIs
  <2>4. Ends(T) = {LastKey(root)}
    BY <2>3, EndsIs
  <2> QED BY <1>5, <2>1, <2>4 DEF IsTree, Good, root
<1> QED BY <1>2, <1>4, <1>5 DEF root

\* A table is built into a tree that holds it.
LEMMA BuildIs ==
  ASSUME NEW T \in Table
  PROVE  Build(T) = Failed \/ IsTree(Build(T), T)
<1>1. Holds(NoItems, {}, Ends(T))
  BY NothingHeld
<1>2. Holds(AddRows(NoItems, T), {} \cup Span(T, 0, MaxKey), Ends(T))
  BY <1>1, AddRowsHolds
<1>3. {} \cup Span(T, 0, MaxKey) = Span(T, 0, MaxKey)
  OBVIOUS
<1> QED BY <1>2, <1>3, TreeFrom DEF Build

-----------------------------------------------------------------------------
(* The nodes of one level have the rows between them.                      *)

AtLevel(root, l) == {n \in NodesOf(root) : n.level = l}
Before(p, q) == \A s \in Rows(q) : LastKey(p) < s.key

LevelOk(n, l) ==
  /\ \A r \in Rows(n) : \E m \in AtLevel(n, l) : r \in Rows(m)
  /\ \A p, q \in AtLevel(n, l) : p = q \/ Before(p, q) \/ Before(q, p)
  /\ \E m \in AtLevel(n, l) : LastKey(m) = LastKey(n)

LevelsOk(n) == /\ \A l \in 0..n.level : LevelOk(n, l)
               /\ \A m \in NodesOf(n) : m.level <= n.level /\ (m.level = n.level => m = n)

LEMMA NodeIn ==
  ASSUME NEW root, root.level \in Nat, Whole(root), NEW n \in NodesOf(root)
  PROVE  /\ Whole(n) /\ n.level \in Nat /\ RowsOk(n) /\ Shaped(n) /\ Sorted(n)
         /\ LastKey(n) \in Keys /\ LastKey(n) \in Nat /\ LastKey(n) <= LastKey(root)
         /\ LastKey(n) \in KeysOf(Rows(n)) /\ \A r \in Rows(n) : r.key \in Nat /\ r.key <= LastKey(n)
<1>1. /\ Whole(n) /\ n.level \in Nat /\ Shaped(n) /\ Sorted(n) /\ Rows(n) \subseteq Rows(root)
  BY NodesIn
<1>2. RowsOk(n) /\ RowsOk(root)
  BY <1>1, RowsAre
<1>3. PICK r \in Rows(n) : r.key = LastKey(n)
  BY <1>2 DEF RowsOk, KeysOf
<1>4. r.key <= LastKey(root)
  BY <1>1, <1>2 DEF RowsOk
<1>5. \A s \in Rows(n) : s.key \in Keys /\ s.key \in Nat /\ s.key <= LastKey(n)
  BY <1>2, KeysAre DEF RowsOk, AreRows
<1> QED BY <1>1, <1>2, <1>3, <1>4, <1>5 DEF RowsOk

LEMMA LevelsUp ==
  ASSUME NEW n, n.level \in Nat, Whole(n), \A c \in Children(n) : LevelsOk(c)
  PROVE  LevelsOk(n)
<1>1. Shaped(n) /\ Sorted(n) /\ RowsOk(n)
  BY WholeRoot, RowsAre
<1>2. \A c \in Children(n) : c.level \in Nat /\ c.level = n.level - 1 /\ Whole(c) /\ n.level > 0 /\ NodesOf(c) \subseteq NodesOf(n)
  BY WholeChild
<1>3. NodesOf(n) \subseteq {n} \cup UNION {NodesOf(c) : c \in Children(n)}
  BY <1>1, NodesUnfold
<1>4. n \in NodesOf(n)
  BY RootIn
<1>5. ASSUME NEW m \in NodesOf(n), m # n PROVE m.level < n.level
  <2>1. PICK c \in Children(n) : m \in NodesOf(c)
    BY <1>3, <1>5
  <2>2. m.level \in Nat /\ m.level <= c.level /\ c.level = n.level - 1
    BY <1>2, <2>1, NodeIn DEF LevelsOk
  <2> QED BY <2>2
<1>6. AtLevel(n, n.level) = {n}
  BY <1>4, <1>5 DEF AtLevel
<1>7. LevelOk(n, n.level)
  BY <1>6 DEF LevelOk
<1>8. ASSUME NEW l \in 0..n.level, l # n.level PROVE LevelOk(n, l)
  <2>1. n.level > 0 /\ l \in 0..(n.level - 1)
    BY <1>8
  <2> DEFINE M == Len(n.items)
             child(i) == n.items[i].child
  <2>2. \A i \in 1..M : child(i) \in Children(n) /\ n.items[i].key = LastKey(child(i)) /\ RowsAt(n, i) = Rows(child(i))
    BY <1>1, <2>1, ChildrenAre DEF RowsAt
  <2>3. /\ Rows(n) = UNION {RowsAt(n, i) : i \in 1..M}
        /\ \A i \in 1..M : Start(n, i) \in Nat /\ n.items[i].key \in Nat
        /\ \A i, j \in 1..M : i < j => n.items[i].key <= Start(n, j)
    BY <1>1, RowsByItem
  <2>4. \A i \in 1..M : RowsAt(n, i) = {r \in Rows(n) : Start(n, i) < r.key /\ r.key <= n.items[i].key}
    BY RowsAtPart
  <2>5. M \in Nat \ {0} /\ LastKey(n) = n.items[M].key
    BY <1>1, ItemsAre
  <2>6. Children(n) = {child(i) : i \in 1..M}
    BY <1>1, <2>1, ChildrenAre
  <2>7. \A i \in 1..M : LevelOk(child(i), l)
    BY <1>2, <2>1, <2>2 DEF LevelsOk
  <2>8. \A m : m \in AtLevel(n, l) <=> \E i \in 1..M : m \in AtLevel(child(i), l)
    <3>1. \A m \in AtLevel(n, l) : \E c \in Children(n) : m \in AtLevel(c, l)
      BY <1>3, <1>8 DEF AtLevel
    <3>2. \A c \in Children(n) : AtLevel(c, l) \subseteq AtLevel(n, l)
      BY <1>2 DEF AtLevel
    <3> HIDE DEF child
    <3> QED BY <2>6, <3>1, <3>2
  <2>9. ASSUME NEW i \in 1..M, NEW m \in AtLevel(child(i), l)
        PROVE  /\ LastKey(m) \in Nat /\ LastKey(m) <= n.items[i].key
               /\ \A s \in Rows(m) : s.key \in Nat /\ Start(n, i) < s.key
    <3>1. m \in NodesOf(child(i)) /\ child(i).level \in Nat /\ Whole(child(i))
      BY <1>2, <2>2 DEF AtLevel
    <3>2. /\ LastKey(m) \in Nat /\ LastKey(m) <= LastKey(child(i)) /\ Rows(m) \subseteq Rows(child(i))
          /\ \A s \in Rows(m) : s.key \in Nat
      BY <3>1, NodeIn, NodesIn
    <3> QED BY <2>2, <2>4, <3>2
  <2> HIDE DEF child, M
  <2>10. \A r \in Rows(n) : \E m \in AtLevel(n, l) : r \in Rows(m)
    <3> TAKE r \in Rows(n)
    <3>1. PICK i \in 1..M : r \in Rows(child(i))
      BY <2>2, <2>3
    <3> QED BY <2>7, <2>8, <3>1 DEF LevelOk
  <2>11. ASSUME NEW i \in 1..M, NEW j \in 1..M, NEW p \in AtLevel(child(i), l), NEW q \in AtLevel(child(j), l), i < j
         PROVE  Before(p, q)
    <3>1. LastKey(p) \in Nat /\ LastKey(p) <= n.items[i].key
      BY <2>9
    <3>2. \A s \in Rows(q) : s.key \in Nat /\ Start(n, j) < s.key
      BY <2>9
    <3>3. n.items[i].key <= Start(n, j) /\ n.items[i].key \in Nat /\ Start(n, j) \in Nat
      BY <2>3, <2>11
    <3> HIDE DEF Start
    <3>4. \A s \in Rows(q) : LastKey(p) < s.key
      BY <3>1, <3>2, <3>3
    <3> QED BY <3>4 DEF Before
  <2>12. ASSUME NEW p \in AtLevel(n, l), NEW q \in AtLevel(n, l) PROVE p = q \/ Before(p, q) \/ Before(q, p)
    <3>1. PICK i \in 1..M : p \in AtLevel(child(i), l)
      BY <2>8
    <3>2. PICK j \in 1..M : q \in AtLevel(child(j), l)
      BY <2>8
    <3>3. i = j \/ i < j \/ j < i
      BY <2>5
    <3>4. CASE i = j
      BY <2>7, <3>1, <3>2, <3>4 DEF LevelOk
    <3> QED BY <2>11, <3>1, <3>2, <3>3, <3>4
  <2>13. \E m \in AtLevel(n, l) : LastKey(m) = LastKey(n)
    <3>1. M \in 1..M
      BY <2>5
    <3>2. PICK m \in AtLevel(child(M), l) : LastKey(m) = LastKey(child(M))
      BY <2>7, <3>1 DEF LevelOk
    <3> QED BY <2>2, <2>5, <2>8, <3>1, <3>2
  <2> QED BY <2>10, <2>12, <2>13 DEF LevelOk
<1>9. \A m \in NodesOf(n) : m.level <= n.level /\ (m.level = n.level => m = n)
  <2> TAKE m \in NodesOf(n)
  <2>1. m.level \in Nat
    BY NodesIn
  <2> QED BY <1>5, <2>1
<1> QED BY <1>7, <1>8, <1>9 DEF LevelsOk

LEMMA LevelsHold == ASSUME NEW root, root.level \in Nat, Whole(root) PROVE LevelsOk(root)
<1> DEFINE S == {n \in NodesOf(root) : LevelsOk(n)}
<1>1. ASSUME NEW n \in NodesOf(root), Whole(n), n.level \in Nat, Children(n) \subseteq S PROVE n \in S
  BY <1>1, LevelsUp
<1> HIDE DEF S
<1>2. NodesOf(root) \subseteq S
  BY <1>1, NodeInduction
<1> QED BY <1>2, RootIn DEF S

\* a part of a tree is cut as the tree is
LEMMA TidyIn ==
  ASSUME NEW root, Good(root), NEW n \in NodesOf(root)
  PROVE  /\ Tidy(n, {LastKey(root)})
         /\ LastKey(n) # LastKey(root) => \A E : Tidy(n, E)
<1>1. root.level \in Nat /\ Whole(root)
  BY GoodIs
<1>2. n.level \in Levels /\ Whole(n) /\ n.level \in Nat /\ NodesOf(n) \subseteq NodesOf(root)
  BY <1>1, NodesIn DEF Shaped
<1>3. \A m \in NodesOf(root) : Cut(m, {LastKey(root)})
  BY DEF Good, Tidy
<1>4. ASSUME LastKey(n) # LastKey(root), NEW E, NEW m \in NodesOf(n) PROVE Cut(m, E)
  <2>1. LastKey(m) <= LastKey(n) /\ LastKey(n) <= LastKey(root) /\ LastKey(m) \in Nat /\ LastKey(n) \in Nat /\ LastKey(root) \in Nat
    BY <1>1, <1>2, NodeIn, RootIn
  <2>2. LastKey(m) # LastKey(root)
    BY <1>4, <2>1
  <2> QED BY <1>2, <1>3, <2>2 DEF Cut
<1> QED BY <1>2, <1>3, <1>4 DEF Tidy

-----------------------------------------------------------------------------
(* Writing a batch.                                                        *)

LEMMA WithinSpan ==
  ASSUME NEW T \in Table, NEW lo, NEW hi
  PROVE  Within(T, lo, hi) \in Table /\ Span(Within(T, lo, hi), 0, MaxKey) = Span(T, lo, hi)
<1>1. AreRows(Span(T, lo, hi)) /\ AsTable(Span(T, lo, hi)) = Within(T, lo, hi)
  BY SpanIs, AsTableSpan
<1>2. AsTable(Span(T, lo, hi)) \in Table
  BY <1>1, AsTableIs
<1> QED BY <1>1, <1>2, RowsSpan

\* where one node ends and the next begins
Border(root, done) == done = 0 \/ \E m \in NodesOf(root) : LastKey(m) = done

LEMMA LeafNext ==
  ASSUME NEW root, root.level \in Nat, Whole(root), NEW done \in Nat, Border(root, done), done < LastKey(root)
  PROVE  \E n \in NodesOf(root) : n.level = 0 /\ Follows(root, done, n)
<1>1. LevelOk(root, 0)
  BY LevelsHold DEF LevelsOk
<1>2. root \in NodesOf(root) /\ RowsOk(root)
  BY RootIn, RowsAre
<1> DEFINE H == {k \in KeysOf(Rows(root)) : done < k}
<1>3. \A k \in KeysOf(Rows(root)) : k \in Nat
  BY <1>2, KeysAre DEF RowsOk, AreRows, KeysOf
<1>4. H \in SUBSET Nat /\ H # {}
  BY <1>2, <1>3 DEF RowsOk
<1>5. PICK x \in H : \A y \in H : x <= y
  BY <1>4, LeastNumber
<1>6. PICK r0 \in Rows(root) : r0.key = x
  BY <1>5 DEF KeysOf
<1>7. PICK n \in AtLevel(root, 0) : r0 \in Rows(n)
  BY <1>1 DEF LevelOk
<1>8. n \in NodesOf(root) /\ n.level = 0
  BY DEF AtLevel
<1>9. /\ LastKey(n) \in Nat /\ \A r \in Rows(n) : r.key \in Nat /\ r.key <= LastKey(n)
      /\ Rows(n) \subseteq Rows(root)
  BY <1>8, NodeIn, NodesIn
<1>10. x \in Nat /\ done < x /\ x <= LastKey(n)
  BY <1>4, <1>5, <1>6, <1>7, <1>9
<1>11. ASSUME NEW r \in Rows(n), r.key <= done PROVE FALSE
  <2>1. done # 0
    <3>1. r \in Rows(root) /\ r.key \in KeysOf(Rows(root))
      BY <1>9 DEF KeysOf
    <3>2. r.key \in Keys
      BY <1>2, <3>1 DEF RowsOk, AreRows
    <3>3. r.key \in Nat \ {0}
      BY <3>2, KeysAre
    <3> QED BY <1>11, <3>3
  <2>2. PICK m \in NodesOf(root) : LastKey(m) = done
    BY <2>1 DEF Border
  <2>3. m.level \in Nat /\ Whole(m) /\ NodesOf(m) \subseteq NodesOf(root)
    BY NodesIn
  <2>4. LevelOk(m, 0)
    BY <2>3, LevelsHold DEF LevelsOk
  <2>5. PICK p \in AtLevel(m, 0) : LastKey(p) = done
    BY <2>2, <2>4 DEF LevelOk
  <2>6. p \in AtLevel(root, 0) /\ p \in NodesOf(root)
    BY <2>3 DEF AtLevel
  <2>7. p = n \/ Before(p, n) \/ Before(n, p)
    BY <1>1, <2>6 DEF LevelOk
  <2>8. p # n
    BY <1>10, <2>5
  <2>9. ~Before(p, n)
    BY <1>9, <1>11, <2>5 DEF Before
  <2>10. ~Before(n, p)
    <3>1. PICK s \in Rows(p) : s.key = done
      BY <2>5, <2>6, NodeIn DEF KeysOf
    <3> QED BY <1>9, <1>10, <3>1 DEF Before
  <2> QED BY <2>7, <2>8, <2>9, <2>10
<1>12. ASSUME NEW r \in Rows(root), done < r.key, r.key <= LastKey(n) PROVE r \in Rows(n)
  <2>1. PICK p \in AtLevel(root, 0) : r \in Rows(p)
    BY <1>1 DEF LevelOk
  <2>2. LastKey(p) \in Nat /\ r.key <= LastKey(p) /\ r.key \in Nat
    BY <2>1, NodeIn DEF AtLevel
  <2>3. r.key \in H /\ x <= r.key
    <3>1. r.key \in H
      BY <1>12 DEF KeysOf
    <3> QED BY <3>1, <1>5
  <2>4. p = n \/ Before(p, n) \/ Before(n, p)
    BY <1>1 DEF LevelOk
  <2>5. ~Before(p, n)
    <3>1. Before(p, n) => LastKey(p) < x
      BY <1>6, <1>7 DEF Before
    <3> QED BY <1>10, <2>2, <2>3, <3>1
  <2>6. ~Before(n, p)
    <3>1. Before(n, p) => LastKey(n) < r.key
      BY <2>1 DEF Before
    <3> QED BY <1>9, <1>12, <2>2, <3>1
  <2> QED BY <2>1, <2>4, <2>5, <2>6
<1>13. \A r \in Rows(n) : done < r.key /\ r.key <= LastKey(n) /\ r \in Rows(root)
  <2> TAKE r \in Rows(n)
  <2>1. ~(r.key <= done) /\ r.key \in Nat /\ r.key <= LastKey(n) /\ r \in Rows(root)
    BY <1>9, <1>11
  <2> QED BY <2>1
<1>14. KeysOf(Rows(n)) = {k \in KeysOf(Rows(root)) : done < k /\ k <= LastKey(n)}
  BY <1>12, <1>13 DEF KeysOf
<1> QED BY <1>8, <1>14 DEF Follows

LEMMA FollowsIs ==
  ASSUME NEW root, Good(root), NEW done \in Nat, NEW n \in NodesOf(root), Follows(root, done, n)
  PROVE  /\ LastKey(n) \in Keys /\ LastKey(n) \in Nat /\ done < LastKey(n) /\ LastKey(n) <= LastKey(root)
         /\ LastKey(n) <= MaxKey /\ LastKey(n) \in Has(TableOf(root))
         /\ Rows(n) = Span(TableOf(root), done, LastKey(n))
<1>1. root.level \in Nat /\ Whole(root) /\ RowsOk(root) /\ TableOf(root) \in Table
      /\ Rows(root) = Span(TableOf(root), 0, MaxKey)
  BY GoodIs
<1>2. /\ LastKey(n) \in Keys /\ LastKey(n) \in Nat /\ LastKey(n) <= LastKey(root)
      /\ LastKey(n) \in KeysOf(Rows(n)) /\ Rows(n) \subseteq Rows(root)
  BY <1>1, NodeIn, NodesIn
<1>3. KeysOf(Rows(n)) = {k \in KeysOf(Rows(root)) : done < k /\ k <= LastKey(n)}
  BY DEF Follows
<1>4. done < LastKey(n) /\ LastKey(n) \in KeysOf(Rows(root))
  BY <1>2, <1>3
<1>5. \A r, s \in Rows(root) : r.key = s.key => r = s
  BY <1>1 DEF RowsOk, AreRows
<1>6. Rows(n) = {r \in Rows(root) : done < r.key /\ r.key <= LastKey(n)}
  <2>1. \A r \in Rows(n) : r \in Rows(root) /\ done < r.key /\ r.key <= LastKey(n)
    BY <1>2, <1>3 DEF KeysOf
  <2>2. ASSUME NEW r \in Rows(root), done < r.key, r.key <= LastKey(n) PROVE r \in Rows(n)
    <3>1. r.key \in KeysOf(Rows(n))
      BY <1>3, <2>2 DEF KeysOf
    <3>2. PICK s \in Rows(n) : s.key = r.key
      BY <3>1 DEF KeysOf
    <3> QED BY <1>2, <1>5, <3>2
  <2> QED BY <2>1, <2>2
<1>7. LastKey(n) <= MaxKey
  BY <1>2, KeysAre
<1>8. Rows(n) = Span(TableOf(root), done, LastKey(n))
  <2> DEFINE T == TableOf(root)
             K == LastKey(n)
  <2>1. \A k \in Has(T) : k \in Nat \ {0} /\ k <= MaxKey
    <3>1. \A k \in Has(T) : k \in Keys
      BY <1>1, TableHas
    <3> QED BY <3>1, KeysAre
  <2>2. K \in Nat /\ K <= MaxKey
    BY <1>2, <1>7
  <2>3. \A r \in Span(T, 0, MaxKey) : r.key \in Has(T) /\ r = Row(r.key, T[r.key])
    BY <1>1, SpanIs
  <2>4. \A r \in Span(T, done, K) : r.key \in Has(T) /\ r = Row(r.key, T[r.key]) /\ done < r.key /\ r.key <= K
    BY <1>1, SpanIs
  <2>5. \A k \in Has(T) : Row(k, T[k]) \in Span(T, 0, MaxKey)
    <3> TAKE k \in Has(T)
    <3>1. 0 < k /\ k <= MaxKey
      BY <2>1
    <3> QED BY <1>1, <3>1, SpanIs
  <2>6. \A k \in Has(T) : done < k /\ k <= K => Row(k, T[k]) \in Span(T, done, K)
    BY <1>1, SpanIs
  <2> HIDE DEF T, K
  <2>7. {r \in Span(T, 0, MaxKey) : done < r.key /\ r.key <= K} = Span(T, done, K)
    BY <2>3, <2>4, <2>5, <2>6
  <2> QED BY <1>1, <1>6, <2>7 DEF T, K
<1>9. LastKey(n) \in Has(TableOf(root))
  BY <1>1, <1>4, TableIs
<1> QED BY <1>2, <1>4, <1>7, <1>8, <1>9

LEMMA ItemsOfAre ==
  ASSUME NEW root, root.level \in Nat, Whole(root), NEW it \in ItemsOf(root)
  PROVE  /\ it.child \in NodesOf(root) /\ it = Up(it.child) /\ it.key = LastKey(it.child)
         /\ it.child.level \in Nat /\ it.child.level + 1 \in Levels
<1>1. PICK m \in NodesOf(root) : m.level > 0 /\ it \in Range(m.items)
  BY DEF ItemsOf
<1>2. Whole(m) /\ m.level \in Nat /\ Shaped(m) /\ Sorted(m) /\ NodesOf(m) \subseteq NodesOf(root)
  BY NodesIn
<1>3. PICK i \in 1..Len(m.items) : it = m.items[i]
  BY <1>1, <1>2, ItemsAre DEF Range
<1>4. it.child \in Children(m) /\ it = Up(it.child) /\ it.child.level = m.level - 1
  BY <1>1, <1>2, <1>3, ChildrenAre
<1>5. it.child \in NodesOf(m)
  BY <1>2, <1>4, WholeChild
<1>6. it.child.level \in Nat /\ it.child.level + 1 = m.level
  BY <1>1, <1>2, <1>4
<1>7. m.level \in Levels
  BY <1>2 DEF Shaped
<1>8. it.key = LastKey(it.child)
  BY <1>4 DEF Up
<1> QED BY <1>2, <1>4, <1>5, <1>6, <1>7, <1>8

\* the walk has come to the end
Over(root, edits, done) == done >= LastKey(root) /\ \A k \in DOMAIN edits : k <= done

WalkOk(root, edits, T, st) ==
  \/ Full(st.ch)
  \/ /\ st.done \in 0..MaxKey /\ Holds(st.ch, Span(T, 0, st.done), Ends(T))
     /\ Over(root, edits, st.done) \/ (st.done < LastKey(root) /\ Border(root, st.done))

IsBatch(edits) == DOMAIN edits \subseteq Keys /\ \A k \in DOMAIN edits : edits[k] \in Vals \cup {Absent}

LEMMA EditedIs ==
  ASSUME NEW T \in Table, NEW edits, IsBatch(edits)
  PROVE  /\ Edited(T, edits) \in Table
         /\ \A k \in Keys : Edited(T, edits)[k] = IF k \in DOMAIN edits THEN edits[k] ELSE T[k]
         /\ DOMAIN edits = {} => Edited(T, edits) = T
<1>1. \A k \in Keys : T[k] \in Vals \cup {Absent}
  BY TableHas
<1>2. T = [k \in Keys |-> T[k]]
  BY TableHas
<1> QED BY <1>1, <1>2 DEF Edited, IsBatch, Table

\* the child that is added as it is
LEMMA WholeStep ==
  ASSUME NEW root, Good(root), NEW edits, IsBatch(edits), NEW T, T = Edited(TableOf(root), edits),
         NEW st, ~Full(st.ch), WalkOk(root, edits, T, st),
         NEW it \in ItemsOf(root), Follows(root, st.done, it.child), Untouched(root, it, edits, st),
         NEW to, to = [ch |-> AddTo(st.ch, it.child.level + 1, it), done |-> it.key]
  PROVE  WalkOk(root, edits, T, to) /\ to.done \in Nat /\ to.done > st.done
<1> DEFINE c == it.child
           l == c.level + 1
           K == LastKey(root)
           U == TableOf(root)
<1>1. root.level \in Nat /\ Whole(root) /\ U \in Table /\ K \in Has(U) /\ Ends(U) = {K}
  BY GoodIs
<1>2. c \in NodesOf(root) /\ it = Up(c) /\ it.key = LastKey(c) /\ c.level \in Nat /\ l \in Levels
  BY <1>1, ItemsOfAre
<1>3. st.done \in 0..MaxKey /\ st.done \in Nat /\ Holds(st.ch, Span(T, 0, st.done), Ends(T))
  BY KeysAre DEF WalkOk
<1>4. /\ it.key \in Nat /\ it.key \in Keys /\ st.done < it.key /\ it.key <= K /\ it.key <= MaxKey
      /\ Rows(c) = Span(U, st.done, it.key)
  BY <1>2, <1>3, FollowsIs
<1>5. T \in Table /\ \A k \in Keys : T[k] = IF k \in DOMAIN edits THEN edits[k] ELSE U[k]
  BY <1>1, EditedIs
<1>6. \A k \in DOMAIN edits : k > st.done => k > it.key
  BY DEF Untouched, Left
<1>7. Aligned(st.ch, l)
  BY DEF Untouched
<1>8. it.key = K => \A k \in DOMAIN edits : ~(k > st.done)
  BY DEF Untouched, Left
<1>9. K \in Keys /\ K \in Nat
  BY <1>1, TableHas
<1> HIDE DEF c, l, U, K
<1>10. Rows(c) = Span(T, st.done, it.key)
  <2>1. \A k \in Keys : k \in Nat
    BY KeysAre
  <2>2. \A k \in Keys : st.done < k /\ k <= it.key => U[k] = T[k]
    BY <1>3, <1>4, <1>5, <1>6, <2>1
  <2> QED BY <1>1, <1>4, <1>5, <2>2, SpanSame
<1>11. Tidy(c, Ends(T))
  <2>1. CASE it.key # K
    BY <1>2, <2>1, TidyIn DEF K
  <2>2. CASE it.key = K
    <3>1. T[K] # Absent
      <4>1. K \notin DOMAIN edits
        BY <1>4, <1>8, <2>2
      <4> QED BY <1>1, <1>5, <1>9, <4>1 DEF Has
    <3>2. ASSUME NEW j \in Has(T) PROVE j <= K
      <4>1. j \in Keys /\ j \in Nat
        BY <1>5, TableHas
      <4> SUFFICES ASSUME j > K PROVE FALSE
        BY <1>9, <4>1
      <4>2. j \notin DOMAIN edits
        BY <1>3, <1>4, <1>8, <2>2, <4>1
      <4>3. j \in Has(U)
        BY <1>5, <4>1, <4>2 DEF Has
      <4>4. j <= K
        BY <1>1, <4>3 DEF Ends
      <4> QED BY <1>9, <4>1, <4>4
    <3>3. Ends(T) = {K}
      BY <1>5, <1>9, <3>1, <3>2, EndsIs DEF Has
    <3> QED BY <1>2, <3>3, TidyIn DEF K
  <2> QED BY <2>1, <2>2
<1>12. Fits(l, it, Ends(T)) /\ ItemRows(l, it) = Rows(c)
  <2>1. l # 0 /\ c.level = l - 1
    BY <1>2 DEF l
  <2> QED BY <1>2, <1>11, <2>1 DEF Fits, ItemRows, c
<1>13. Holds(to.ch, Span(T, 0, it.key), Ends(T))
  <2>1. \A r \in Span(T, 0, st.done), s \in Rows(c) : r.key < s.key
    <3> TAKE r \in Span(T, 0, st.done), s \in Rows(c)
    <3>1. r.key \in Nat /\ r.key <= st.done /\ s.key \in Nat /\ st.done < s.key
      BY <1>5, <1>10, SpanIs
    <3> QED BY <1>3, <3>1
  <2>2. \A m \in Levels : m < l => st.ch.at[m] = <<>>
    <3>1. \A m \in Levels : m < l => m \in 0..(l - 1)
      BY <1>2, LevelsAre
    <3> QED BY <1>7, <3>1 DEF Aligned
  <2>3. Holds(AddTo(st.ch, l, it), Span(T, 0, st.done) \cup Rows(c), Ends(T))
    BY <1>2, <1>3, <1>12, <2>1, <2>2, AddToHolds
  <2>4. Span(T, 0, it.key) = Span(T, 0, st.done) \cup Rows(c)
    BY <1>3, <1>4, <1>5, <1>10, SpanJoin
  <2>5. to.ch = AddTo(st.ch, l, it)
    BY DEF l, c
  <2> QED BY <2>3, <2>4, <2>5
<1>14. to.done = it.key
  OBVIOUS
<1>15. Over(root, edits, it.key) \/ (it.key < K /\ Border(root, it.key))
  <2>1. CASE it.key = K
    <3>1. \A k \in DOMAIN edits : k \in Nat
      BY KeysAre DEF IsBatch
    <3>2. \A k \in DOMAIN edits : k <= it.key
      BY <1>3, <1>4, <1>8, <2>1, <3>1
    <3> QED BY <1>9, <2>1, <3>2 DEF Over, K
  <2>2. CASE it.key # K
    <3>1. it.key < K
      BY <1>4, <1>9, <2>2
    <3> QED BY <1>2, <3>1 DEF Border
  <2> QED BY <2>1, <2>2
<1>16. to.done \in 0..MaxKey
  BY <1>4, <1>14, KeysAre
<1> QED BY <1>4, <1>13, <1>14, <1>15, <1>16 DEF WalkOk, K

\* the leaf that is read
LEMMA LeafStep ==
  ASSUME NEW root, Good(root), NEW edits, IsBatch(edits), NEW T, T = Edited(TableOf(root), edits),
         NEW st, ~Full(st.ch), WalkOk(root, edits, T, st),
         NEW leaf \in NodesOf(root), leaf.level = 0, Follows(root, st.done, leaf),
         NEW to, to = MergeLeaf(root, leaf, edits, st)
  PROVE  WalkOk(root, edits, T, to) /\ to.done \in Nat /\ to.done > st.done
<1> DEFINE K == LastKey(root)
           U == TableOf(root)
           N == LastKey(leaf)
           lo == st.done
           hi == Beyond(root, leaf)
           here == Here(root, leaf, edits, st)
           E == [k \in here |-> edits[k]]
           X == Edited(TableOf(leaf), E)
<1>1. root.level \in Nat /\ Whole(root) /\ U \in Table /\ K \in Has(U) /\ Ends(U) = {K}
  BY GoodIs
<1>2. lo \in 0..MaxKey /\ lo \in Nat /\ Holds(st.ch, Span(T, 0, lo), Ends(T))
  BY KeysAre DEF WalkOk
<1>3. N \in Nat /\ N \in Keys /\ lo < N /\ N <= K /\ N <= MaxKey /\ Rows(leaf) = Span(U, lo, N)
  BY <1>2, FollowsIs
<1>4. T \in Table /\ \A k \in Keys : T[k] = IF k \in DOMAIN edits THEN edits[k] ELSE U[k]
  BY <1>1, EditedIs
<1>5. hi = IF N = K THEN MaxKey ELSE N
  BY DEF Beyond
<1>6. here = {k \in DOMAIN edits : k > lo /\ (k <= N \/ N = K)}
  BY DEF Here, Left
<1>7. TableOf(leaf) = Within(U, lo, N)
  BY <1>1, <1>3, AsTableSpan DEF TableOf
<1>8. to.ch = AddRows(st.ch, X) /\ to.done = hi
  BY DEF MergeLeaf
<1>9. K \in Keys /\ K \in Nat /\ MaxKey \in Nat /\ K <= MaxKey /\ \A j \in Has(U) : j <= K
  <2>1. K \in Keys
    BY <1>1, TableHas
  <2> QED BY <1>1, <2>1, KeysAre DEF Ends
<1>10. Within(U, lo, N) \in Table
  BY <1>1, WithinSpan
<1> HIDE DEF K, U, N, lo, hi, here
<1>11. DOMAIN edits \subseteq Keys /\ \A k \in DOMAIN edits : k \in Nat /\ k <= MaxKey /\ edits[k] \in Vals \cup {Absent}
  BY KeysAre DEF IsBatch
<1>12. IsBatch(E) /\ DOMAIN E = here /\ \A k \in here : E[k] = edits[k]
  BY <1>6, <1>11 DEF IsBatch
<1> HIDE DEF E
<1>13. X \in Table /\ \A k \in Keys : X[k] = IF k \in here THEN edits[k] ELSE Within(U, lo, N)[k]
  BY <1>7, <1>10, <1>12, EditedIs
<1> HIDE DEF X
<1>14. hi \in Nat /\ lo < hi /\ N <= hi /\ hi <= MaxKey
  BY <1>2, <1>3, <1>5, <1>9
<1>15. ASSUME NEW k \in Keys PROVE X[k] = Within(T, lo, hi)[k]
  <2>0. k \in Nat /\ k <= MaxKey
    BY KeysAre
  <2>1. Within(T, lo, hi)[k] = IF lo < k /\ k <= hi THEN T[k] ELSE Absent
    BY DEF Within
  <2>2. Within(U, lo, N)[k] = IF lo < k /\ k <= N THEN U[k] ELSE Absent
    BY DEF Within
  <2>3. k > K => U[k] = Absent
    BY <1>9, <2>0 DEF Has
  <2>4. k \in here <=> k \in DOMAIN edits /\ k > lo /\ (k <= N \/ N = K)
    BY <1>6
  <2>5. X[k] = IF k \in here THEN edits[k] ELSE IF lo < k /\ k <= N THEN U[k] ELSE Absent
    BY <1>13, <2>2
  <2>6. T[k] = IF k \in DOMAIN edits THEN edits[k] ELSE U[k]
    BY <1>4
  <2>7. CASE N = K
    <3>1. hi = MaxKey
      BY <1>5, <2>7
    <3> QED BY <1>2, <1>3, <2>0, <2>1, <2>3, <2>4, <2>5, <2>6, <2>7, <3>1
  <2>8. CASE N # K
    <3>1. hi = N
      BY <1>5, <2>8
    <3> QED BY <1>2, <1>3, <2>0, <2>1, <2>4, <2>5, <2>6, <2>8, <3>1
  <2> QED BY <2>7, <2>8
<1>16. X = Within(T, lo, hi)
  <2>1. X = [k \in Keys |-> X[k]] /\ Within(T, lo, hi) = [k \in Keys |-> Within(T, lo, hi)[k]]
    BY <1>13, TableHas DEF Within
  <2> QED BY <1>15, <2>1
<1>17. Span(X, 0, MaxKey) = Span(T, lo, hi)
  BY <1>4, <1>16, WithinSpan
<1>18. Holds(to.ch, Span(T, 0, hi), Ends(T))
  <2>1. ASSUME NEW r \in Span(T, 0, lo), NEW k \in Has(X) PROVE r.key < k
    <3>1. r.key \in Nat /\ r.key <= lo
      BY <1>4, SpanIs
    <3>2. k \in Keys /\ k \in Nat /\ X[k] # Absent
      BY KeysAre DEF Has
    <3>3. lo < k
      BY <1>16, <3>2 DEF Within
    <3> QED BY <1>2, <3>1, <3>2, <3>3
  <2>2. Holds(AddRows(st.ch, X), Span(T, 0, lo) \cup Span(X, 0, MaxKey), Ends(T))
    BY <1>2, <1>13, <2>1, AddRowsHolds
  <2>3. Span(T, 0, hi) = Span(T, 0, lo) \cup Span(T, lo, hi)
    BY <1>2, <1>4, <1>14, SpanJoin
  <2> QED BY <1>8, <1>17, <2>2, <2>3
<1>19. Over(root, edits, hi) \/ (hi < K /\ Border(root, hi))
  <2>1. CASE N = K
    <3>1. hi = MaxKey
      BY <1>5, <2>1
    <3> QED BY <1>9, <1>11, <3>1 DEF Over, K
  <2>2. CASE N # K
    <3>1. hi = N /\ N < K
      BY <1>3, <1>5, <1>9, <2>2
    <3> QED BY <3>1 DEF Border, N
  <2> QED BY <2>1, <2>2
<1>20. to.done \in 0..MaxKey /\ to.done = hi
  BY <1>8, <1>14
<1> QED BY <1>14, <1>18, <1>19, <1>20 DEF WalkOk, K, lo

LEMMA WalkStep ==
  ASSUME NEW root, Good(root), NEW edits, IsBatch(edits), NEW T, T = Edited(TableOf(root), edits),
         NEW st, WalkOk(root, edits, T, st), NEW to, to = MergeNext(root, edits, st)
  PROVE  /\ WalkOk(root, edits, T, to)
         /\ Full(to.ch) \/ (to.done \in Nat /\ to.done > st.done) \/ Over(root, edits, to.done)
<1> DEFINE whole == {it \in ItemsOf(root) : /\ Follows(root, st.done, it.child)
                                           /\ Untouched(root, it, edits, st)}
           it == CHOOSE i \in whole : \A j \in whole : j.child.level <= i.child.level
           leaves == {n \in NodesOf(root) : n.level = 0 /\ Follows(root, st.done, n)}
<1>1. to = IF Full(st.ch) \/ leaves = {} THEN st
           ELSE IF whole # {} THEN [ch |-> AddTo(st.ch, it.child.level + 1, it), done |-> it.key]
           ELSE MergeLeaf(root, CHOOSE leaf \in leaves : TRUE, edits, st)
  BY DEF MergeNext
<1>2. CASE Full(st.ch)
  BY <1>1, <1>2
<1>3. CASE ~Full(st.ch) /\ leaves = {}
  <2>1. to = st
    BY <1>1, <1>3
  <2>2. st.done \in Nat
    BY <1>3, KeysAre DEF WalkOk
  <2>3. root.level \in Nat /\ Whole(root)
    BY GoodIs
  <2>4. ~(st.done < LastKey(root) /\ Border(root, st.done))
    BY <1>3, <2>2, <2>3, LeafNext
  <2> QED BY <1>3, <2>1, <2>4 DEF WalkOk
<1>4. CASE ~Full(st.ch) /\ leaves # {} /\ whole # {}
  <2>1. to = [ch |-> AddTo(st.ch, it.child.level + 1, it), done |-> it.key]
    BY <1>1, <1>4
  <2>2. it \in whole
    <3> DEFINE S == {i.child.level + 1 : i \in whole}
    <3>1. \A i \in whole : i.child.level \in Nat /\ i.child.level + 1 \in Levels
      BY GoodIs, ItemsOfAre
    <3>2. \A l \in Levels : l <= Depth
      BY LevelsAre
    <3>3. S \in SUBSET (1..Depth) /\ S # {} /\ Depth \in Nat
      <4>1. \A i \in whole : i.child.level + 1 \in 1..Depth
        BY <3>1, <3>2, LevelsAre
      <4> QED BY <1>4, <4>1, LevelsAre
    <3>4. PICK x \in S : \A y \in S : y <= x
      BY <3>3, GreatestNumber
    <3>5. PICK i \in whole : x = i.child.level + 1
      BY <3>4
    <3> HIDE DEF whole
    <3>6. \A j \in whole : j.child.level <= i.child.level
      <4> TAKE j \in whole
      <4>1. j.child.level + 1 <= i.child.level + 1
        BY <3>4, <3>5
      <4> QED BY <3>1, <4>1
    <3> QED BY <3>6
  <2>3. it \in ItemsOf(root) /\ Follows(root, st.done, it.child) /\ Untouched(root, it, edits, st)
    BY <2>2
  <2> HIDE DEF it
  <2> QED BY <1>4, <2>1, <2>3, WholeStep
<1>5. CASE ~Full(st.ch) /\ leaves # {} /\ whole = {}
  <2> DEFINE leaf == CHOOSE leaf \in leaves : TRUE
  <2>1. to = MergeLeaf(root, leaf, edits, st)
    BY <1>1, <1>5
  <2>2. leaf \in leaves
    BY <1>5
  <2>3. leaf \in NodesOf(root) /\ leaf.level = 0 /\ Follows(root, st.done, leaf)
    BY <2>2
  <2> HIDE DEF leaf
  <2> QED BY <1>5, <2>1, <2>3, LeafStep
<1> QED BY <1>2, <1>3, <1>4, <1>5

\* the walk of a batch through a tree
IsWalk(f, root, edits, n) == f = [k \in 0..n |-> IF k = 0 THEN [ch |-> NoItems, done |-> 0] ELSE MergeNext(root, edits, f[k - 1])]

LEMMA WalkExists == ASSUME NEW root, NEW edits PROVE \A n \in Nat : \E f : IsWalk(f, root, edits, n)
<1> DEFINE T == {n \in Nat : \E f : IsWalk(f, root, edits, n)}
<1>1. 0 \in T
  <2> DEFINE f == [k \in 0..0 |-> [ch |-> NoItems, done |-> 0]]
  <2>1. IsWalk(f, root, edits, 0)
    BY DEF IsWalk
  <2> QED BY <2>1
<1>2. ASSUME NEW n \in Nat, n \in T PROVE n + 1 \in T
  <2>1. PICK f : IsWalk(f, root, edits, n)
    BY <1>2
  <2> DEFINE g == [k \in 0..(n + 1) |-> IF k = n + 1 THEN MergeNext(root, edits, f[n]) ELSE f[k]]
  <2>2. \A k \in 0..(n + 1) : g[k] = IF k = 0 THEN [ch |-> NoItems, done |-> 0] ELSE MergeNext(root, edits, g[k - 1])
    <3> TAKE k \in 0..(n + 1)
    <3>1. CASE k = n + 1
      <4>1. k # 0 /\ k - 1 = n /\ k - 1 \in 0..(n + 1) /\ k - 1 # n + 1
        BY <3>1
      <4>2. g[k] = MergeNext(root, edits, f[n]) /\ g[k - 1] = f[n]
        BY <3>1, <4>1
      <4> QED BY <4>1, <4>2
    <3>2. CASE k # n + 1 /\ k # 0
      <4>1. k \in 0..n /\ k - 1 \in 0..(n + 1) /\ k - 1 # n + 1
        BY <3>2
      <4>2. g[k] = f[k] /\ g[k - 1] = f[k - 1]
        BY <3>2, <4>1
      <4>3. f[k] = MergeNext(root, edits, f[k - 1])
        BY <2>1, <3>2, <4>1 DEF IsWalk
      <4> QED BY <3>2, <4>2, <4>3
    <3>3. CASE k = 0
      <4>1. k \in 0..n /\ k # n + 1
        BY <3>3
      <4> QED BY <2>1, <3>3, <4>1 DEF IsWalk
    <3> QED BY <3>1, <3>2, <3>3
  <2>3. g = [k \in 0..(n + 1) |-> g[k]]
    OBVIOUS
  <2> HIDE DEF g
  <2>4. IsWalk(g, root, edits, n + 1)
    BY <2>2, <2>3 DEF IsWalk
  <2> QED BY <2>4
<1> HIDE DEF T
<1>3. Nat \subseteq T
  BY <1>1, <1>2, NumberInduction
<1> QED BY <1>3 DEF T

LEMMA WalkIs ==
  ASSUME NEW root, NEW edits
  PROVE  \E f : /\ f[0] = [ch |-> NoItems, done |-> 0]
                /\ \A k \in 1..MaxKey : f[k] = MergeNext(root, edits, f[k - 1])
                /\ Flush(root, edits) = IF DOMAIN edits = {} THEN root
                                        ELSE IF root = Empty THEN Build(Edited(NoRows, edits))
                                        ELSE Finish(f[MaxKey].ch)
<1> DEFINE f == CHOOSE f : IsWalk(f, root, edits, MaxKey)
<1>1. IsWalk(f, root, edits, MaxKey)
  BY KeysAre, WalkExists
<1>2. Flush(root, edits) = IF DOMAIN edits = {} THEN root
                           ELSE IF root = Empty THEN Build(Edited(NoRows, edits))
                           ELSE Finish(f[MaxKey].ch)
  BY DEF Flush, IsWalk
<1> HIDE DEF f
<1>3. \A k \in 0..MaxKey : f[k] = IF k = 0 THEN [ch |-> NoItems, done |-> 0] ELSE MergeNext(root, edits, f[k - 1])
  BY <1>1 DEF IsWalk
<1>4. 0 \in 0..MaxKey /\ \A k \in 1..MaxKey : k \in 0..MaxKey /\ k # 0
  BY KeysAre
<1>5. f[0] = [ch |-> NoItems, done |-> 0] /\ \A k \in 1..MaxKey : f[k] = MergeNext(root, edits, f[k - 1])
  BY <1>3, <1>4
<1> QED BY <1>2, <1>5

\* A batch leaves a tree of the rows it was to leave, whatever it did not read.
LEMMA FlushIs ==
  ASSUME NEW root, NEW U \in Table, IsTree(root, U), NEW edits, IsBatch(edits)
  PROVE  Flush(root, edits) = Failed \/ IsTree(Flush(root, edits), Edited(U, edits))
<1> DEFINE T == Edited(U, edits)
<1>1. PICK f : /\ f[0] = [ch |-> NoItems, done |-> 0]
               /\ \A k \in 1..MaxKey : f[k] = MergeNext(root, edits, f[k - 1])
               /\ Flush(root, edits) = IF DOMAIN edits = {} THEN root
                                       ELSE IF root = Empty THEN Build(Edited(NoRows, edits))
                                       ELSE Finish(f[MaxKey].ch)
  BY WalkIs
<1>2. T \in Table /\ (DOMAIN edits = {} => T = U)
  BY EditedIs
<1>3. TableOf(root) = U /\ (root = Empty \/ Good(root)) /\ (root = Empty => U = NoRows)
  BY TreeIs, NoRowsIs, GoodIs DEF IsTree
<1>4. CASE DOMAIN edits = {}
  BY <1>1, <1>2, <1>4
<1>5. CASE DOMAIN edits # {} /\ root = Empty
  <2>1. T = Edited(NoRows, edits) /\ Flush(root, edits) = Build(Edited(NoRows, edits))
    BY <1>1, <1>3, <1>5
  <2> HIDE DEF T
  <2> QED BY <1>2, <2>1, BuildIs DEF T
<1>6. CASE DOMAIN edits # {} /\ root # Empty
  <2>1. Good(root) /\ T = Edited(TableOf(root), edits)
    BY <1>3, <1>6
  <2>2. LastKey(root) \in Has(U)
    BY <1>3, <2>1, GoodIs
  <2>3. LastKey(root) \in Nat \ {0} /\ LastKey(root) <= MaxKey /\ MaxKey \in Nat
    <3>1. LastKey(root) \in Keys
      BY <2>2, TableHas
    <3> QED BY <3>1, KeysAre
  <2> HIDE DEF T
  <2> DEFINE S == {n \in Nat : n <= MaxKey =>
                    /\ WalkOk(root, edits, T, f[n])
                    /\ Full(f[n].ch) \/ Over(root, edits, f[n].done) \/ (f[n].done \in Nat /\ f[n].done >= n)}
  <2>4. 0 \in S
    <3>1. f[0].ch = NoItems /\ f[0].done = 0
      BY <1>1
    <3>2. \A k \in Has(T) : ~(0 < k /\ k <= 0)
      BY <1>2, TableHas
    <3>3. Span(T, 0, 0) = {}
      BY <1>2, <3>2, SpanNone
    <3>4. Holds(NoItems, Span(T, 0, 0), Ends(T))
      BY <3>3, NothingHeld
    <3>5. 0 \in 0..MaxKey /\ 0 < LastKey(root)
      BY <2>3
    <3>6. WalkOk(root, edits, T, f[0])
      BY <3>1, <3>4, <3>5 DEF WalkOk, Border
    <3> QED BY <3>1, <3>6
  <2>5. ASSUME NEW n \in Nat, n \in S PROVE n + 1 \in S
    <3> SUFFICES ASSUME n + 1 <= MaxKey
                 PROVE  /\ WalkOk(root, edits, T, f[n + 1])
                        /\ \/ Full(f[n + 1].ch) \/ Over(root, edits, f[n + 1].done)
                           \/ f[n + 1].done \in Nat /\ f[n + 1].done >= n + 1
      OBVIOUS
    <3>1. n <= MaxKey /\ n + 1 \in 1..MaxKey /\ n + 1 - 1 = n
      BY <2>3
    <3> DEFINE st == f[n]
               to == f[n + 1]
    <3>2. to = MergeNext(root, edits, st)
      BY <1>1, <3>1
    <3>3. /\ WalkOk(root, edits, T, st)
          /\ Full(st.ch) \/ Over(root, edits, st.done) \/ (st.done \in Nat /\ st.done >= n)
      BY <2>5, <3>1
    <3> HIDE DEF st, to
    <3>4. /\ WalkOk(root, edits, T, to)
          /\ Full(to.ch) \/ (to.done \in Nat /\ to.done > st.done) \/ Over(root, edits, to.done)
      BY <2>1, <3>2, <3>3, WalkStep
    <3>5. CASE Full(st.ch)
      <4>1. to = st
        BY <3>2, <3>5 DEF MergeNext
      <4> QED BY <3>4, <3>5, <4>1 DEF to
    <3>6. CASE ~Full(st.ch) /\ Over(root, edits, st.done)
      <4>1. st.done \in Nat
        BY <2>3, <3>3, <3>6 DEF WalkOk
      <4>2. to.done \in Nat /\ to.done > st.done => Over(root, edits, to.done)
        <5> SUFFICES ASSUME to.done \in Nat, to.done > st.done PROVE Over(root, edits, to.done)
          OBVIOUS
        <5> DEFINE a == st.done
                   b == to.done
        <5>1. a \in Nat /\ b \in Nat /\ a < b /\ a >= LastKey(root) /\ \A k \in DOMAIN edits : k <= a
          BY <3>6, <4>1 DEF Over
        <5>2. \A k \in DOMAIN edits : k \in Nat
          BY KeysAre DEF IsBatch
        <5> HIDE DEF a, b
        <5>3. b >= LastKey(root) /\ \A k \in DOMAIN edits : k <= b
          BY <2>3, <5>1, <5>2
        <5> QED BY <5>3 DEF Over, b
      <4> QED BY <3>4, <4>2 DEF to
    <3>7. CASE ~Full(st.ch) /\ ~Over(root, edits, st.done)
      <4>1. st.done \in Nat /\ st.done >= n
        BY <3>3, <3>7
      <4>2. to.done \in Nat /\ to.done > st.done => to.done >= n + 1
        BY <4>1
      <4> QED BY <3>4, <4>2 DEF to
    <3> QED BY <3>5, <3>6, <3>7
  <2> HIDE DEF S
  <2>6. Nat \subseteq S
    BY <2>4, <2>5, NumberInduction
  <2> DEFINE end == f[MaxKey]
  <2>7. /\ WalkOk(root, edits, T, end)
        /\ Full(end.ch) \/ Over(root, edits, end.done) \/ (end.done \in Nat /\ end.done >= MaxKey)
    <3>1. MaxKey \in S
      BY <2>3, <2>6
    <3> QED BY <2>3, <3>1 DEF S
  <2>8. Flush(root, edits) = Finish(end.ch)
    BY <1>1, <1>6
  <2> HIDE DEF end
  <2>9. Holds(end.ch, Span(T, 0, MaxKey), Ends(T))
    <3>1. CASE Full(end.ch)
      BY <3>1 DEF Holds
    <3>2. CASE ~Full(end.ch)
      <4>1. end.done \in 0..MaxKey /\ Holds(end.ch, Span(T, 0, end.done), Ends(T))
        BY <2>7, <3>2 DEF WalkOk
      <4>2. Over(root, edits, end.done)
        <5>1. end.done < LastKey(root) => ~(end.done >= MaxKey)
          BY <2>3, <4>1
        <5> QED BY <2>7, <3>2, <5>1 DEF WalkOk
      <4> DEFINE d == end.done
      <4>3. d \in Nat /\ d <= MaxKey /\ d >= LastKey(root) /\ \A k \in DOMAIN edits : k <= d
        BY <2>3, <4>1, <4>2 DEF Over
      <4> HIDE DEF d
      <4>4. ASSUME NEW k \in Has(T), d < k PROVE FALSE
        <5>1. k \in Keys /\ k \in Nat /\ T[k] # Absent
          BY <1>2, TableHas
        <5>2. k \notin DOMAIN edits
          BY <4>3, <4>4, <5>1
        <5>3. T[k] = U[k]
          BY <5>1, <5>2, EditedIs DEF T
        <5>4. k \in Has(U)
          BY <5>1, <5>3 DEF Has
        <5>5. Ends(U) = {LastKey(root)}
          BY <2>1, <1>3, GoodIs
        <5>6. LastKey(root) \in Ends(U)
          BY <5>5
        <5>7. k <= LastKey(root)
          BY <5>4, <5>6 DEF Ends
        <5> QED BY <2>3, <4>3, <4>4, <5>1, <5>7
      <4>5. Span(T, d, MaxKey) = {}
        BY <1>2, <4>4, SpanNone
      <4>6. Span(T, 0, MaxKey) = Span(T, 0, d)
        <5>1. 0 \in Nat /\ 0 <= d
          BY <4>3
        <5>2. Span(T, 0, MaxKey) = Span(T, 0, d) \cup Span(T, d, MaxKey)
          BY <1>2, <2>3, <4>3, <5>1, SpanJoin
        <5> QED BY <4>5, <5>2
      <4> QED BY <4>1, <4>6 DEF d
    <3> QED BY <3>1, <3>2
  <2> QED BY <1>2, <2>8, <2>9, TreeFrom DEF T
<1> QED BY <1>4, <1>5, <1>6

-----------------------------------------------------------------------------
(* Cursors.                                                                *)

LEMMA MinIs ==
  ASSUME NEW S, S \subseteq Nat, S # {}
  PROVE  Min(S) \in S /\ \A x \in S : Min(S) <= x
<1>1. \E x \in S : \A y \in S : x <= y
  BY LeastNumber
<1> QED BY <1>1 DEF Min

LEMMA MaxIs ==
  ASSUME NEW n \in Nat, NEW S, S \subseteq 1..n, S # {}
  PROVE  Max(S) \in S /\ \A x \in S : x <= Max(S)
<1>1. \E x \in S : \A y \in S : y <= x
  BY GreatestNumber
<1>2. \E x \in S : \A y \in S : x >= y
  <2>1. PICK x \in S : \A y \in S : y <= x
    BY <1>1
  <2>2. \A y \in S : y \in Nat
    OBVIOUS
  <2> QED BY <2>1, <2>2
<1>3. Max(S) \in S /\ \A y \in S : Max(S) >= y
  BY <1>2 DEF Max
<1>4. \A y \in S : y \in Nat
  OBVIOUS
<1> QED BY <1>3, <1>4

LEMMA AtIs ==
  ASSUME NEW n, Shaped(n), Sorted(n), NEW k \in Nat, k <= LastKey(n)
  PROVE  /\ At(n, k) \in 1..Len(n.items) /\ n.items[At(n, k)].key >= k
         /\ \A j \in 1..Len(n.items) : j < At(n, k) => n.items[j].key < k
<1> DEFINE M == Len(n.items)
           found == {i \in DOMAIN n.items : n.items[i].key >= k}
<1>1. /\ M \in Nat \ {0} /\ DOMAIN n.items = 1..M /\ LastKey(n) = n.items[M].key
      /\ \A i \in 1..M : n.items[i].key \in Nat
  BY ItemsAre
<1>2. At(n, k) = IF found = {} THEN Len(n.items) ELSE Min(found)
  BY DEF At
<1>3. M \in found
  <2>1. M \in 1..M /\ n.items[M].key \in Nat
    BY <1>1
  <2> QED BY <1>1, <2>1
<1>4. found \subseteq Nat /\ found \subseteq 1..M
  BY <1>1
<1>5. At(n, k) \in found /\ \A x \in found : At(n, k) <= x
  BY <1>2, <1>3, <1>4, MinIs
<1>6. ASSUME NEW j \in 1..M, j < At(n, k) PROVE n.items[j].key < k
  <2>1. j \notin found
    BY <1>4, <1>5, <1>6
  <2> QED BY <1>1, <2>1
<1> QED BY <1>1, <1>5, <1>6

LEMMA RowsFromItem ==
  ASSUME NEW n, n.level \in Nat, Whole(n), NEW k \in Nat, k <= LastKey(n), NEW i, i = At(n, k)
  PROVE  {r \in Rows(n) : r.key >= k}
           = {r \in RowsAt(n, i) : r.key >= k} \cup UNION {RowsAt(n, j) : j \in (i + 1)..Len(n.items)}
<1> DEFINE M == Len(n.items)
<1>1. Shaped(n) /\ Sorted(n) /\ RowsOk(n)
  BY WholeRoot, RowsAre
<1>2. /\ i \in 1..M /\ n.items[i].key >= k /\ \A j \in 1..M : j < i => n.items[j].key < k
  BY <1>1, AtIs
<1>3. /\ M \in Nat /\ Rows(n) = UNION {RowsAt(n, j) : j \in 1..M}
      /\ \A j \in 1..M : Start(n, j) \in Nat /\ n.items[j].key \in Nat
      /\ \A a, b \in 1..M : a < b => n.items[a].key <= Start(n, b)
  BY <1>1, RowsByItem, ItemsAre
<1>4. \A j \in 1..M : RowsAt(n, j) = {r \in Rows(n) : Start(n, j) < r.key /\ r.key <= n.items[j].key}
  BY RowsAtPart
<1>5. \A r \in Rows(n) : r.key \in Nat
  BY <1>1, KeysAre DEF RowsOk, AreRows
<1> HIDE DEF M
<1>6. ASSUME NEW r \in Rows(n), r.key >= k
      PROVE  r \in RowsAt(n, i) \/ \E j \in (i + 1)..M : r \in RowsAt(n, j)
  <2>1. PICK j \in 1..M : r \in RowsAt(n, j)
    BY <1>3
  <2>2. r.key <= n.items[j].key /\ r.key \in Nat /\ n.items[j].key \in Nat
    BY <1>3, <1>4, <1>5, <2>1
  <2>3. ~(j < i)
    BY <1>2, <1>6, <2>2
  <2>4. j = i \/ j \in (i + 1)..M
    BY <1>2, <1>3, <2>3
  <2> QED BY <2>1, <2>4
<1>7. ASSUME NEW j \in (i + 1)..M, NEW r \in RowsAt(n, j) PROVE r \in Rows(n) /\ r.key >= k
  <2>1. j \in 1..M /\ i < j
    BY <1>2, <1>3
  <2>2. r \in Rows(n) /\ Start(n, j) < r.key /\ r.key \in Nat
    BY <1>4, <1>5, <2>1
  <2>3. n.items[i].key <= Start(n, j) /\ n.items[i].key \in Nat /\ Start(n, j) \in Nat
    BY <1>2, <1>3, <2>1
  <2>4. r.key >= k
    <3> HIDE DEF Start
    <3> QED BY <1>2, <2>2, <2>3
  <2> QED BY <2>2, <2>4
<1>8. \A r \in RowsAt(n, i) : r \in Rows(n)
  BY <1>2, <1>4
<1>9. \A r : r \in {s \in Rows(n) : s.key >= k}
             <=> (r \in {s \in RowsAt(n, i) : s.key >= k} \/ \E j \in (i + 1)..M : r \in RowsAt(n, j))
  BY <1>6, <1>7, <1>8
<1> QED BY <1>9 DEF M

\* the nodes down to a key
IsPath(f, root, key, n) == f = [k \in 0..n |-> IF k = 0 THEN root ELSE f[k - 1].items[At(f[k - 1], key)].child]

LEMMA PathExists == ASSUME NEW root, NEW key PROVE \A n \in Nat : \E f : IsPath(f, root, key, n)
<1> DEFINE T == {n \in Nat : \E f : IsPath(f, root, key, n)}
<1>1. 0 \in T
  <2> DEFINE f == [k \in 0..0 |-> root]
  <2>1. IsPath(f, root, key, 0)
    BY DEF IsPath
  <2> QED BY <2>1
<1>2. ASSUME NEW n \in Nat, n \in T PROVE n + 1 \in T
  <2>1. PICK f : IsPath(f, root, key, n)
    BY <1>2
  <2> DEFINE g == [k \in 0..(n + 1) |-> IF k = n + 1 THEN f[n].items[At(f[n], key)].child ELSE f[k]]
  <2>2. \A k \in 0..(n + 1) : g[k] = IF k = 0 THEN root ELSE g[k - 1].items[At(g[k - 1], key)].child
    <3> TAKE k \in 0..(n + 1)
    <3>1. CASE k = n + 1
      <4>1. k # 0 /\ k - 1 = n /\ k - 1 \in 0..(n + 1) /\ k - 1 # n + 1
        BY <3>1
      <4>2. g[k] = f[n].items[At(f[n], key)].child /\ g[k - 1] = f[n]
        BY <3>1, <4>1
      <4> QED BY <4>1, <4>2
    <3>2. CASE k # n + 1 /\ k # 0
      <4>1. k \in 0..n /\ k - 1 \in 0..(n + 1) /\ k - 1 # n + 1
        BY <3>2
      <4>2. g[k] = f[k] /\ g[k - 1] = f[k - 1]
        BY <3>2, <4>1
      <4>3. f[k] = f[k - 1].items[At(f[k - 1], key)].child
        BY <2>1, <3>2, <4>1 DEF IsPath
      <4> QED BY <3>2, <4>2, <4>3
    <3>3. CASE k = 0
      <4>1. k \in 0..n /\ k # n + 1
        BY <3>3
      <4> QED BY <2>1, <3>3, <4>1 DEF IsPath
    <3> QED BY <3>1, <3>2, <3>3
  <2>3. g = [k \in 0..(n + 1) |-> g[k]]
    OBVIOUS
  <2> HIDE DEF g
  <2>4. IsPath(g, root, key, n + 1)
    BY <2>2, <2>3 DEF IsPath
  <2> QED BY <2>4
<1> HIDE DEF T
<1>3. Nat \subseteq T
  BY <1>1, <1>2, NumberInduction
<1> QED BY <1>3 DEF T

LEMMA PathIs ==
  ASSUME NEW root, root.level \in Nat, NEW key
  PROVE  /\ Path(root, key)[0] = root
         /\ \A d \in 1..root.level :
              Path(root, key)[d] = Path(root, key)[d - 1].items[At(Path(root, key)[d - 1], key)].child
<1> DEFINE f == CHOOSE f : IsPath(f, root, key, root.level)
<1>1. IsPath(f, root, key, root.level)
  BY PathExists
<1>2. Path(root, key) = f
  BY DEF Path, IsPath
<1> HIDE DEF f
<1>3. \A d \in 0..root.level : f[d] = IF d = 0 THEN root ELSE f[d - 1].items[At(f[d - 1], key)].child
  BY <1>1 DEF IsPath
<1>4. 0 \in 0..root.level /\ \A d \in 1..root.level : d \in 0..root.level /\ d # 0
  OBVIOUS
<1>5. f[0] = root /\ \A d \in 1..root.level : f[d] = f[d - 1].items[At(f[d - 1], key)].child
  BY <1>3, <1>4
<1> QED BY <1>2, <1>5

\* A cursor sought for a key has the rows from there on.
LEMMA SeekIs ==
  ASSUME NEW root, root.level \in Nat, Whole(root), NEW key \in Nat, key <= LastKey(root)
  PROVE  Seek(root, key) = {r \in Rows(root) : r.key >= key}
<1> DEFINE p == Path(root, key)
           L == root.level
           From(n) == {r \in Rows(n) : r.key >= key}
           Rest(d) == UNION {Under(p[e], At(p[e], key)) : e \in 0..(d - 1)}
           T == {d \in Nat : d <= L =>
                  /\ p[d] \in NodesOf(root) /\ p[d].level = L - d /\ key <= LastKey(p[d])
                  /\ From(root) = From(p[d]) \cup Rest(d)}
<1>1. p[0] = root /\ \A d \in 1..L : p[d] = p[d - 1].items[At(p[d - 1], key)].child
  BY PathIs
<1> HIDE DEF p
<1>2. 0 \in T
  <2>1. root \in NodesOf(root)
    BY RootIn
  <2>2. Rest(0) = {}
    <3>1. 0..(0 - 1) = {}
      OBVIOUS
    <3> QED BY <3>1
  <2> HIDE DEF Rest
  <2> QED BY <1>1, <2>1, <2>2
<1>3. ASSUME NEW d \in Nat, d \in T PROVE d + 1 \in T
  <2> DEFINE n == p[d]
             c == p[d + 1]
             i == At(n, key)
  <2> SUFFICES ASSUME d + 1 <= L
               PROVE  /\ c \in NodesOf(root) /\ c.level = L - (d + 1) /\ key <= LastKey(c)
                      /\ From(root) = From(c) \cup Rest(d + 1)
    OBVIOUS
  <2>1. d + 1 \in 1..L /\ d + 1 - 1 = d /\ d <= L
    OBVIOUS
  <2>2. c = n.items[i].child
    BY <1>1, <2>1
  <2>3. n \in NodesOf(root) /\ n.level = L - d /\ key <= LastKey(n) /\ From(root) = From(n) \cup Rest(d)
    BY <1>3, <2>1
  <2>4. n.level > 0 /\ n.level \in Nat /\ n.level - 1 = L - (d + 1)
    BY <2>1, <2>3
  <2>5. Whole(n) /\ Shaped(n) /\ Sorted(n) /\ NodesOf(n) \subseteq NodesOf(root)
    BY <2>3, NodesIn
  <2> HIDE DEF n, c, i
  <2>6. i \in 1..Len(n.items) /\ n.items[i].key >= key
    BY <2>3, <2>5, AtIs DEF i
  <2>7. c \in Children(n) /\ n.items[i].key = LastKey(c) /\ c.level = n.level - 1
    BY <2>2, <2>4, <2>5, <2>6, ChildrenAre
  <2>8. c \in NodesOf(n)
    BY <2>4, <2>5, <2>7, WholeChild
  <2>9. key <= LastKey(c)
    BY <2>3, <2>5, <2>6, <2>7, NodesIn, ItemsAre
  <2>10. From(n) = From(c) \cup Under(n, i)
    <3>1. From(n) = {r \in RowsAt(n, i) : r.key >= key} \cup UNION {RowsAt(n, j) : j \in (i + 1)..Len(n.items)}
      BY <2>3, <2>4, <2>5, RowsFromItem DEF i
    <3>2. \A j : RowsAt(n, j) = Rows(n.items[j].child)
      BY <2>4 DEF RowsAt
    <3> QED BY <2>2, <3>1, <3>2 DEF Under
  <2>11. Rest(d + 1) = Rest(d) \cup Under(n, i)
    <3>1. 0..(d + 1 - 1) = 0..(d - 1) \cup {d}
      OBVIOUS
    <3> QED BY <3>1 DEF n, i
  <2> HIDE DEF From, Rest
  <2>12. From(root) = From(c) \cup Rest(d + 1)
    BY <2>3, <2>10, <2>11
  <2> QED BY <2>4, <2>5, <2>7, <2>8, <2>9, <2>12
<1> HIDE DEF T
<1>4. Nat \subseteq T
  BY <1>2, <1>3, NumberInduction
<1> DEFINE leaf == p[L]
<1>5. leaf \in NodesOf(root) /\ leaf.level = 0 /\ key <= LastKey(leaf) /\ From(root) = From(leaf) \cup Rest(L)
  <2>1. L \in T /\ L \in Nat /\ L <= L /\ L - L = 0
    BY <1>4
  <2> HIDE DEF From, Rest
  <2> QED BY <2>1 DEF T
<1>6. Whole(leaf) /\ Shaped(leaf) /\ Sorted(leaf)
  BY <1>5, NodesIn
<1>7. From(leaf) = {leaf.items[i] : i \in At(leaf, key)..Len(leaf.items)}
  <2> DEFINE i == At(leaf, key)
             M == Len(leaf.items)
  <2> HIDE DEF leaf
  <2>1. From(leaf) = {r \in RowsAt(leaf, i) : r.key >= key} \cup UNION {RowsAt(leaf, j) : j \in (i + 1)..M}
    BY <1>5, <1>6, RowsFromItem
  <2>2. i \in 1..M /\ leaf.items[i].key >= key /\ M \in Nat
    BY <1>5, <1>6, AtIs, ItemsAre
  <2>3. \A j : RowsAt(leaf, j) = {leaf.items[j]}
    BY <1>5 DEF RowsAt
  <2> HIDE DEF i, M
  <2>4. i..M = {i} \cup (i + 1)..M
    BY <2>2
  <2>5. {r \in RowsAt(leaf, i) : r.key >= key} = {leaf.items[i]}
    BY <2>2, <2>3
  <2> HIDE DEF From
  <2>6. From(leaf) = {leaf.items[i]} \cup UNION {{leaf.items[j]} : j \in (i + 1)..M}
    BY <2>1, <2>3, <2>5
  <2> QED BY <2>4, <2>6 DEF i, M
<1>8. Seek(root, key) = {leaf.items[i] : i \in At(leaf, key)..Len(leaf.items)} \cup Rest(L)
  BY DEF Seek, p
<1> HIDE DEF Rest, leaf
<1> QED BY <1>5, <1>7, <1>8

LEMMA AfterIs ==
  ASSUME NEW root, root.level \in Nat, Whole(root), NEW key \in KeysOf(Rows(root))
  PROVE  After(root, key) = {r \in Rows(root) : r.key > key}
<1>1. RowsOk(root)
  BY RowsAre
<1>2. \A r \in Rows(root) : r.key \in Nat /\ r.key <= LastKey(root)
  BY <1>1, KeysAre DEF RowsOk, AreRows
<1>3. key \in Nat /\ key <= LastKey(root)
  BY <1>2 DEF KeysOf
<1>4. Seek(root, key) = {r \in Rows(root) : r.key >= key}
  BY <1>3, SeekIs
<1>5. \A r \in Rows(root) : r.key > key <=> (r.key >= key /\ r.key # key)
  BY <1>2, <1>3
<1> QED BY <1>4, <1>5 DEF After

-----------------------------------------------------------------------------
(* The rows under the children of a node.                                  *)

LEMMA SpanEqual ==
  ASSUME NEW A \in Table, NEW B \in Table, NEW lo, NEW hi, Span(A, lo, hi) = Span(B, lo, hi)
  PROVE  \A k \in Keys : lo < k /\ k <= hi => A[k] = B[k]
<1>1. Within(A, lo, hi) = Within(B, lo, hi)
  BY AsTableSpan
<1> SUFFICES ASSUME NEW k \in Keys, lo < k, k <= hi PROVE A[k] = B[k]
  OBVIOUS
<1>2. Within(A, lo, hi)[k] = A[k] /\ Within(B, lo, hi)[k] = B[k]
  BY DEF Within
<1> QED BY <1>1, <1>2

LEMMA SpanCut ==
  ASSUME NEW A \in Table, NEW lo \in Nat, NEW hi \in Nat, NEW c \in Nat, NEW d \in Nat, lo <= c, d <= hi
  PROVE  {r \in Span(A, lo, hi) : c < r.key /\ r.key <= d} = Span(A, c, d)
<1>1. \A k \in Has(A) : k \in Nat
  BY TableHas
<1>2. \A k \in Has(A) : (lo < k /\ k <= hi /\ c < k /\ k <= d) <=> (c < k /\ k <= d)
  BY <1>1
<1>3. \A r \in Span(A, lo, hi) : r.key \in Has(A) /\ lo < r.key /\ r.key <= hi /\ r = Row(r.key, A[r.key])
  BY SpanIs
<1>4. \A r \in Span(A, c, d) : r.key \in Has(A) /\ c < r.key /\ r.key <= d /\ r = Row(r.key, A[r.key])
  BY SpanIs
<1>5. \A k \in Has(A) : lo < k /\ k <= hi => Row(k, A[k]) \in Span(A, lo, hi)
  BY SpanIs
<1>6. \A k \in Has(A) : c < k /\ k <= d => Row(k, A[k]) \in Span(A, c, d)
  BY SpanIs
<1> HIDE DEF Span
<1>7. ASSUME NEW r \in Span(A, lo, hi), c < r.key, r.key <= d PROVE r \in Span(A, c, d)
  <2>1. c < r.key /\ r.key <= d
    BY <1>2, <1>3, <1>7
  <2> QED BY <1>3, <1>6, <2>1
<1>8. ASSUME NEW r \in Span(A, c, d) PROVE r \in Span(A, lo, hi) /\ c < r.key /\ r.key <= d
  <2>1. lo < r.key /\ r.key <= hi
    BY <1>2, <1>4
  <2> QED BY <1>4, <1>5, <2>1
<1> QED BY <1>7, <1>8

\* where the rows under an item begin, when those of the node begin after lo
From(n, i, lo) == IF i = 1 THEN lo ELSE n.items[i - 1].key

LEMMA ItemSpan ==
  ASSUME NEW A \in Table, NEW lo \in Nat, NEW hi \in Nat, NEW n, n.level \in Nat, Whole(n),
         Rows(n) = Span(A, lo, hi), NEW i \in 1..Len(n.items)
  PROVE  /\ RowsAt(n, i) = Span(A, From(n, i, lo), n.items[i].key)
         /\ From(n, i, lo) \in Nat /\ lo <= From(n, i, lo) /\ From(n, i, lo) < n.items[i].key
         /\ n.items[i].key \in Nat /\ n.items[i].key \in Keys /\ n.items[i].key <= hi
<1>1. Shaped(n) /\ Sorted(n) /\ RowsOk(n)
  BY WholeRoot, RowsAre
<1>2. /\ \A j \in 1..Len(n.items) : n.items[j].key \in Nat /\ n.items[j].key \in Keys
      /\ Len(n.items) \in Nat
      /\ \A j \in 1..Len(n.items) : Start(n, j) \in Nat /\ Start(n, j) < n.items[j].key
  BY <1>1, ItemsAre, RowsByItem
<1>3. \A j \in 1..Len(n.items) : RowsAt(n, j) = {r \in Rows(n) : Start(n, j) < r.key /\ r.key <= n.items[j].key}
  BY RowsAtPart
<1>4. \A r \in Rows(n) : r.key \in Nat /\ lo < r.key /\ r.key <= hi
  BY SpanIs
\* an item's key is the key of a row
<1>5. ASSUME NEW j \in 1..Len(n.items) PROVE lo < n.items[j].key /\ n.items[j].key <= hi
  <2>1. n.level > 0 => \A c \in Children(n) : RowsOk(c)
    BY WholeChild, RowsAre
  <2>2. n.items[j].key \in KeysOf(RowsAt(n, j))
    BY <1>1, <2>1, RowsAtAre
  <2> QED BY <1>3, <1>4, <2>2 DEF KeysOf
<1>6. From(n, i, lo) \in Nat /\ lo <= From(n, i, lo) /\ From(n, i, lo) < n.items[i].key
  <2>1. CASE i = 1
    BY <1>5, <2>1 DEF From
  <2>2. CASE i # 1
    <3>1. i - 1 \in 1..Len(n.items) /\ Start(n, i) = n.items[i - 1].key
      BY <1>2, <2>2 DEF Start
    <3>2. lo < n.items[i - 1].key /\ n.items[i - 1].key \in Nat
      BY <1>2, <1>5, <3>1
    <3> QED BY <1>2, <2>2, <3>1, <3>2 DEF From
  <2> QED BY <2>1, <2>2
<1>7. From(n, i, lo) = IF Start(n, i) < lo THEN lo ELSE Start(n, i)
  <2>1. CASE i = 1
    BY <2>1 DEF From, Start
  <2>2. CASE i # 1
    <3>1. i - 1 \in 1..Len(n.items) /\ Start(n, i) = n.items[i - 1].key
      BY <1>2, <2>2 DEF Start
    <3>2. lo < n.items[i - 1].key /\ n.items[i - 1].key \in Nat
      BY <1>2, <1>5, <3>1
    <3> QED BY <2>2, <3>1, <3>2 DEF From
  <2> QED BY <2>1, <2>2
<1>8. n.items[i].key = IF n.items[i].key < hi THEN n.items[i].key ELSE hi
  BY <1>2, <1>5
<1>9. RowsAt(n, i) = Span(A, From(n, i, lo), n.items[i].key)
  <2> DEFINE s == Start(n, i)
             x == n.items[i].key
             c == From(n, i, lo)
  <2>1. s \in Nat /\ x \in Nat /\ c \in Nat /\ c = (IF s < lo THEN lo ELSE s) /\ x = (IF x < hi THEN x ELSE hi)
    BY <1>2, <1>6, <1>7, <1>8
  <2>2. RowsAt(n, i) = {r \in Span(A, lo, hi) : s < r.key /\ r.key <= x}
    BY <1>3
  <2>4. x <= hi /\ lo <= c
    BY <1>5, <1>6
  <2>5. \A r \in Span(A, lo, hi) : r.key \in Nat /\ lo < r.key
    BY <1>4
  <2> HIDE DEF s, x, c
  <2>6. \A r \in Span(A, lo, hi) : s < r.key <=> c < r.key
    BY <2>1, <2>5
  <2>3. {r \in Span(A, lo, hi) : c < r.key /\ r.key <= x} = Span(A, c, x)
    BY <2>1, <2>4, SpanCut
  <2>7. RowsAt(n, i) = {r \in Span(A, lo, hi) : c < r.key /\ r.key <= x}
    BY <2>2, <2>6
  <2>8. RowsAt(n, i) = Span(A, c, x)
    BY <2>3, <2>7
  <2> QED BY <2>8 DEF x, c
<1> QED BY <1>2, <1>5, <1>6, <1>9

\* the rows under the items behind one
LEMMA UnderSpan ==
  ASSUME NEW A \in Table, NEW lo \in Nat, NEW hi \in Nat, NEW n, n.level \in Nat, Whole(n), n.level > 0,
         Rows(n) = Span(A, lo, hi), NEW i \in 1..Len(n.items)
  PROVE  Under(n, i) = Span(A, n.items[i].key, hi)
<1> DEFINE M == Len(n.items)
           K == n.items[i].key
<1>1. Shaped(n) /\ Sorted(n)
  BY WholeRoot
<1>2. /\ \A j \in 1..M : n.items[j].key \in Nat /\ M \in Nat
      /\ \A a, b \in 1..M : a < b => n.items[a].key < n.items[b].key
  BY <1>1, ItemsAre
<1>3. /\ \A j \in 1..M : RowsAt(n, j) = Span(A, From(n, j, lo), n.items[j].key)
      /\ \A j \in 1..M : n.items[j].key <= hi /\ lo <= From(n, j, lo) /\ From(n, j, lo) < n.items[j].key /\ From(n, j, lo) \in Nat
  BY ItemSpan
<1>4. Under(n, i) = UNION {RowsAt(n, j) : j \in (i + 1)..M}
  BY DEF Under, RowsAt
<1>5. Rows(n) = UNION {RowsAt(n, j) : j \in 1..M}
  BY <1>1, RowsByItem
<1>6. K \in Nat /\ lo < K /\ K <= hi
  BY <1>2, <1>3
<1>7. \A r \in Rows(n) : r.key \in Nat /\ r.key \in Has(A) /\ r = Row(r.key, A[r.key]) /\ lo < r.key /\ r.key <= hi
  BY SpanIs
<1>8. ASSUME NEW j \in (i + 1)..M, NEW r \in RowsAt(n, j) PROVE r \in Rows(n) /\ K < r.key
  <2>1. j \in 1..M /\ j # 1 /\ j - 1 \in 1..M /\ (j - 1 = i \/ i < j - 1)
    BY <1>2
  <2>2. r \in Rows(n) /\ From(n, j, lo) < r.key /\ From(n, j, lo) = n.items[j - 1].key
    BY <1>3, <1>5, <2>1, SpanIs DEF From
  <2>3. n.items[i].key <= n.items[j - 1].key /\ n.items[j - 1].key \in Nat
    BY <1>2, <2>1
  <2> QED BY <1>6, <1>7, <2>2, <2>3
<1>9. ASSUME NEW r \in Rows(n), K < r.key PROVE \E j \in (i + 1)..M : r \in RowsAt(n, j)
  <2>1. PICK j \in 1..M : r \in RowsAt(n, j)
    BY <1>5
  <2>2. r.key <= n.items[j].key /\ n.items[j].key \in Nat
    BY <1>2, <1>3, <2>1, SpanIs
  <2>3. ~(j < i) /\ j # i
    BY <1>2, <1>6, <1>7, <1>9, <2>2
  <2>4. j \in (i + 1)..M
    BY <2>3
  <2> QED BY <2>1, <2>4
<1>10. Under(n, i) = {r \in Rows(n) : K < r.key}
  BY <1>4, <1>8, <1>9
<1>11. {r \in Rows(n) : K < r.key} = Span(A, K, hi)
  <2> HIDE DEF K
  <2>1. \A r \in Rows(n) : K < r.key <=> (K < r.key /\ r.key <= hi)
    BY <1>7
  <2>3. lo <= K /\ hi <= hi
    BY <1>6
  <2>2. {r \in Span(A, lo, hi) : K < r.key /\ r.key <= hi} = Span(A, K, hi)
    BY <1>6, <2>3, SpanCut
  <2> QED BY <2>1, <2>2
<1> QED BY <1>10, <1>11

LEMMA AfterSpan ==
  ASSUME NEW root, Good(root), NEW n \in NodesOf(root), NEW i \in 1..Len(n.items)
  PROVE  /\ n.items[i].key \in Nat /\ n.items[i].key \in Has(TableOf(root))
         /\ After(root, n.items[i].key) = Span(TableOf(root), n.items[i].key, MaxKey)
<1> DEFINE K == n.items[i].key
           A == TableOf(root)
<1>1. root.level \in Nat /\ Whole(root) /\ A \in Table /\ Rows(root) = Span(A, 0, MaxKey)
  BY GoodIs
<1>2. Whole(n) /\ n.level \in Nat /\ Shaped(n) /\ Sorted(n) /\ Rows(n) \subseteq Rows(root)
  BY <1>1, NodesIn
<1>3. K \in KeysOf(Rows(root))
  <2>1. n.level > 0 => \A c \in Children(n) : RowsOk(c)
    BY <1>2, WholeChild, RowsAre
  <2>2. K \in KeysOf(RowsAt(n, i))
    BY <1>2, <2>1, RowsAtAre
  <2>3. RowsAt(n, i) \subseteq Rows(n)
    BY <1>2, RowsByItem
  <2> QED BY <1>2, <2>2, <2>3 DEF KeysOf
<1>4. After(root, K) = {r \in Rows(root) : r.key > K}
  BY <1>1, <1>3, AfterIs
<1>5. K \in Nat /\ MaxKey \in Nat
  BY <1>2, ItemsAre, KeysAre
<1>6. K \in Has(A)
  BY <1>1, <1>3, TableIs
<1>7. K <= MaxKey
  BY <1>1, <1>6, TableHas
<1> HIDE DEF K, A
<1>8. \A r \in Rows(root) : r.key \in Nat /\ r.key <= MaxKey
  BY <1>1, SpanIs
<1>9. \A r \in Rows(root) : r.key > K <=> (K < r.key /\ r.key <= MaxKey)
  BY <1>5, <1>8
<1>10. {r \in Span(A, 0, MaxKey) : K < r.key /\ r.key <= MaxKey} = Span(A, K, MaxKey)
  <2>1. 0 <= K /\ MaxKey <= MaxKey /\ 0 \in Nat
    BY <1>5
  <2> QED BY <1>1, <1>5, <2>1, SpanCut
<1>11. After(root, K) = Span(A, K, MaxKey)
  BY <1>1, <1>4, <1>9, <1>10
<1> QED BY <1>5, <1>6, <1>11 DEF K, A

-----------------------------------------------------------------------------
(* prollyDiff.                                                             *)

LEMMA DifferSpan ==
  ASSUME NEW A \in Table, NEW B \in Table, NEW lo, NEW hi
  PROVE  RowsDiffer(Span(A, lo, hi), Span(B, lo, hi))
           = {Change(k, A[k], B[k]) : k \in {j \in Keys : A[j] # B[j] /\ lo < j /\ j <= hi}}
<1> DEFINE S == Within(A, lo, hi)
           R == Within(B, lo, hi)
<1>1. RowsDiffer(Span(A, lo, hi), Span(B, lo, hi)) = Changes(S, R)
  BY AsTableSpan DEF RowsDiffer
<1>2. \A k \in Keys : /\ S[k] = IF lo < k /\ k <= hi THEN A[k] ELSE Absent
                      /\ R[k] = IF lo < k /\ k <= hi THEN B[k] ELSE Absent
  BY DEF Within
<1> HIDE DEF S, R
<1>3. \A k \in Keys : S[k] # R[k] <=> (A[k] # B[k] /\ lo < k /\ k <= hi)
  BY <1>2
<1>4. \A k \in Keys : lo < k /\ k <= hi => Change(k, S[k], R[k]) = Change(k, A[k], B[k])
  BY <1>2
<1>5. Changes(S, R) = {Change(k, A[k], B[k]) : k \in {j \in Keys : A[j] # B[j] /\ lo < j /\ j <= hi}}
  BY <1>3, <1>4 DEF Changes
<1> QED BY <1>1, <1>5

LEMMA DifferRoots ==
  ASSUME NEW o, NEW A \in Table, IsTree(o, A), NEW n, NEW B \in Table, IsTree(n, B)
  PROVE  RowsDiffer(Rows(o), Rows(n)) = Changes(A, B)
<1>1. AsTable(Rows(o)) = A /\ AsTable(Rows(n)) = B
  BY TreeIs DEF TableOf
<1> QED BY <1>1 DEF RowsDiffer

\* two nodes that have the rows of the same keys
IsPair(p, o, A, n, B, lo, hi) ==
  /\ p[1] \in NodesOf(o) /\ p[2] \in NodesOf(n) /\ lo \in Nat /\ hi \in Nat
  /\ Rows(p[1]) = Span(A, lo, hi) /\ Rows(p[2]) = Span(B, lo, hi)

LEMMA PairNode ==
  ASSUME NEW o, NEW A \in Table, IsTree(o, A), NEW m \in NodesOf(o), m # Empty
  PROVE  Good(o) /\ TableOf(o) = A /\ o.level \in Nat /\ Whole(o) /\ Whole(m) /\ m.level \in Nat /\ Shaped(m) /\ Sorted(m)
<1>1. o # Empty
  BY NoRowsIs
<1>2. Good(o) /\ TableOf(o) = A
  BY <1>1, TreeIs
<1> QED BY <1>2, GoodIs, NodesIn

\* two inner nodes: what is found further down, and what is told at once
LEMMA InnerPair ==
  ASSUME NEW o, NEW A \in Table, IsTree(o, A), NEW n, NEW B \in Table, IsTree(n, B),
         NEW old, NEW new, NEW lo, NEW hi, IsPair(<<old, new>>, o, A, n, B, lo, hi),
         old # new, ~IsEmpty(old, new), Inner(old, new)
  PROVE  /\ Agree(old, new) \in Nat
         /\ \A i \in 1..Agree(old, new) :
              /\ IsPair(<<old.items[i].child, new.items[i].child>>, o, A, n, B, From(old, i, lo), old.items[i].key)
              /\ old.items[i].child.level = old.level - 1
         /\ Tells(old, new, o, n) \subseteq Changes(A, B)
         /\ \A k \in Keys : (A[k] # B[k] /\ lo < k /\ k <= hi /\ (\A i \in 1..Agree(old, new) : ~(k <= old.items[i].key)))
               => Change(k, A[k], B[k]) \in Tells(old, new, o, n)
<1> DEFINE N == Agree(old, new)
           S == Shorter(old, new)
<1>1. old # Empty /\ new # Empty /\ old.level > 0 /\ new.level > 0
  BY DEF IsEmpty, Inner
<1>2. /\ old \in NodesOf(o) /\ new \in NodesOf(n) /\ lo \in Nat /\ hi \in Nat
      /\ Rows(old) = Span(A, lo, hi) /\ Rows(new) = Span(B, lo, hi)
  BY DEF IsPair
<1>3. /\ Good(o) /\ TableOf(o) = A /\ o.level \in Nat /\ Whole(o)
      /\ Whole(old) /\ old.level \in Nat /\ Shaped(old) /\ Sorted(old)
  BY <1>1, <1>2, PairNode
<1>4. /\ Good(n) /\ TableOf(n) = B /\ n.level \in Nat /\ Whole(n)
      /\ Whole(new) /\ new.level \in Nat /\ Shaped(new) /\ Sorted(new)
  BY <1>1, <1>2, PairNode
<1>5. Len(old.items) \in Nat \ {0} /\ Len(new.items) \in Nat \ {0}
  BY <1>3, <1>4, ItemsAre
<1>6. S \in Nat \ {0} /\ S <= Len(old.items) /\ S <= Len(new.items)
  <2> DEFINE a == Len(old.items)
             b == Len(new.items)
  <2>1. a \in Nat \ {0} /\ b \in Nat \ {0}
    BY <1>5
  <2> HIDE DEF a, b
  <2>2. {a, b} \subseteq Nat /\ {a, b} # {}
    BY <2>1
  <2>3. Min({a, b}) \in {a, b} /\ \A x \in {a, b} : Min({a, b}) <= x
    BY <2>2, MinIs
  <2>4. S = Min({a, b})
    BY DEF Shorter, a, b
  <2> QED BY <2>1, <2>3, <2>4 DEF a, b
<1>7. /\ N \in 0..S /\ N \in Nat
      /\ Apart(old, new) = {} => N = S
      /\ \A i \in 1..N : i \notin Apart(old, new)
  <2>1. Apart(old, new) \subseteq 1..S
    BY DEF Apart
  <2> DEFINE P == Apart(old, new)
  <2>2. N = IF P = {} THEN S ELSE Min(P) - 1
    BY DEF Agree
  <2> HIDE DEF P, N, S
  <2>3. CASE P = {}
    BY <1>6, <2>2, <2>3 DEF P
  <2>4. CASE P # {}
    <3>1. P \subseteq Nat /\ P \subseteq 1..S
      BY <2>1 DEF P
    <3>2. Min(P) \in P /\ \A x \in P : Min(P) <= x
      BY <2>4, <3>1, MinIs
    <3>3. Min(P) \in 1..S /\ N = Min(P) - 1
      BY <2>2, <2>4, <3>1, <3>2
    <3>4. \A i \in 1..N : i \notin P
      BY <1>6, <3>2, <3>3
    <3>5. N \in 0..S /\ N \in Nat
      BY <1>6, <3>3
    <3> QED BY <2>4, <3>4, <3>5 DEF P
  <2> QED BY <2>3, <2>4
<1> HIDE DEF S
<1>8. \A i \in 1..N : i \in 1..Len(old.items) /\ i \in 1..Len(new.items) /\ i \in 1..S
  <2> HIDE DEF N
  <2> QED BY <1>5, <1>6, <1>7
<1>9. \A i \in 1..Len(old.items) : /\ old.items[i].child \in Children(old) /\ old.items[i].key = LastKey(old.items[i].child)
                                    /\ old.items[i].child.level = old.level - 1
  BY <1>1, <1>3, ChildrenAre
<1>10. \A i \in 1..Len(new.items) : new.items[i].child \in Children(new) /\ new.items[i].key = LastKey(new.items[i].child)
  BY <1>1, <1>4, ChildrenAre
<1>11. \A i \in 1..N : old.items[i].key = new.items[i].key
  <2> TAKE i \in 1..N
  <2>1. i \notin Apart(old, new) /\ i \in 1..S
    BY <1>7, <1>8
  <2>2. old.items[i].child = new.items[i].child \/ old.items[i].key = new.items[i].key
    BY <2>1 DEF Apart, S
  <2> QED BY <1>8, <1>9, <1>10, <2>2
<1>12. \A i \in 1..N : From(old, i, lo) = From(new, i, lo)
  <2> TAKE i \in 1..N
  <2>1. CASE i = 1
    BY <2>1 DEF From
  <2>2. CASE i # 1
    <3>1. i - 1 \in 1..N
      <4> HIDE DEF N
      <4> QED BY <1>7, <2>2
    <3> QED BY <1>11, <2>2, <3>1 DEF From
  <2> QED BY <2>1, <2>2
<1>13. ASSUME NEW i \in 1..N
       PROVE  IsPair(<<old.items[i].child, new.items[i].child>>, o, A, n, B, From(old, i, lo), old.items[i].key)
  <2>1. old.items[i].child \in NodesOf(o)
    <3>1. old.items[i].child \in NodesOf(old)
      BY <1>3, <1>8, <1>9, WholeChild
    <3> QED BY <1>2, <1>3, <3>1, NodesIn
  <2>2. new.items[i].child \in NodesOf(n)
    <3>1. new.items[i].child \in NodesOf(new)
      BY <1>4, <1>8, <1>10, WholeChild
    <3> QED BY <1>2, <1>4, <3>1, NodesIn
  <2>3. /\ RowsAt(old, i) = Span(A, From(old, i, lo), old.items[i].key)
        /\ From(old, i, lo) \in Nat /\ old.items[i].key \in Nat
    BY <1>2, <1>3, <1>8, ItemSpan
  <2>4. RowsAt(new, i) = Span(B, From(new, i, lo), new.items[i].key)
    BY <1>2, <1>4, <1>8, ItemSpan
  <2>5. RowsAt(old, i) = Rows(old.items[i].child) /\ RowsAt(new, i) = Rows(new.items[i].child)
    BY <1>1 DEF RowsAt
  <2>6. <<old.items[i].child, new.items[i].child>>[1] = old.items[i].child /\ <<old.items[i].child, new.items[i].child>>[2] = new.items[i].child
    OBVIOUS
  <2> QED BY <1>11, <1>12, <2>1, <2>2, <2>3, <2>4, <2>5, <2>6 DEF IsPair
<1>14. Tells(old, new, o, n) =
         IF Apart(old, new) = {} THEN RowsDiffer(Under(old, N), Under(new, N))
         ELSE IF N = 0 THEN RowsDiffer(Rows(o), Rows(n))
         ELSE RowsDiffer(After(o, old.items[N].key), After(n, old.items[N].key))
  <2>1. {old.level, new.level} # {0}
    BY <1>1
  <2> QED BY <2>1 DEF Tells
<1> HIDE DEF N
<1>15. CASE N = 0
  <2>1. Apart(old, new) # {}
    BY <1>6, <1>7, <1>15
  <2>2. Tells(old, new, o, n) = Changes(A, B)
    BY <1>14, <1>15, <2>1, DifferRoots
  <2> QED BY <1>7, <1>9, <1>8, <1>13, <2>2 DEF Changes, N
<1>16. CASE N # 0
  <2> DEFINE K == old.items[N].key
  <2>1. N \in 1..N /\ N \in 1..Len(old.items) /\ N \in 1..Len(new.items) /\ K = new.items[N].key
    BY <1>7, <1>8, <1>11, <1>16
  <2>2. \E h : /\ Tells(old, new, o, n) = RowsDiffer(Span(A, K, h), Span(B, K, h))
               /\ \A k \in Keys : k <= hi => k <= h
    <3>1. CASE Apart(old, new) = {}
      <4>1. Under(old, N) = Span(A, K, hi)
        BY <1>1, <1>2, <1>3, <2>1, UnderSpan
      <4>2. Under(new, N) = Span(B, new.items[N].key, hi)
        BY <1>1, <1>2, <1>4, <2>1, UnderSpan
      <4> QED BY <1>14, <2>1, <3>1, <4>1, <4>2
    <3>2. CASE Apart(old, new) # {}
      <4>1. After(o, K) = Span(A, K, MaxKey)
        BY <1>2, <1>3, <2>1, AfterSpan
      <4>2. After(n, new.items[N].key) = Span(B, new.items[N].key, MaxKey)
        BY <1>2, <1>4, <2>1, AfterSpan
      <4> QED BY <1>14, <1>16, <2>1, <3>2, <4>1, <4>2, KeysAre
    <3> QED BY <3>1, <3>2
  <2>3. PICK h : /\ Tells(old, new, o, n) = RowsDiffer(Span(A, K, h), Span(B, K, h))
                 /\ \A k \in Keys : k <= hi => k <= h
    BY <2>2
  <2>4. K \in Nat
    BY <1>3, <2>1, ItemsAre
  <2> HIDE DEF K
  <2>5. Tells(old, new, o, n) = {Change(k, A[k], B[k]) : k \in {j \in Keys : A[j] # B[j] /\ K < j /\ j <= h}}
    BY <2>3, DifferSpan
  <2>6. Tells(old, new, o, n) \subseteq Changes(A, B)
    BY <2>5 DEF Changes
  <2>7. ASSUME NEW k \in Keys, A[k] # B[k], lo < k, k <= hi, \A i \in 1..N : ~(k <= old.items[i].key)
        PROVE  Change(k, A[k], B[k]) \in Tells(old, new, o, n)
    <3>1. ~(k <= K) /\ k \in Nat
      BY <2>1, <2>7, KeysAre DEF K
    <3>2. K < k /\ k <= h
      BY <2>3, <2>4, <2>7, <3>1
    <3> QED BY <2>5, <2>7, <3>2
  <2> QED BY <1>7, <1>8, <1>9, <1>13, <2>6, <2>7 DEF N
<1> QED BY <1>15, <1>16

LEMMA PairStep ==
  ASSUME NEW o, NEW A \in Table, IsTree(o, A), NEW n, NEW B \in Table, IsTree(n, B),
         NEW old, NEW new, NEW lo, NEW hi, IsPair(<<old, new>>, o, A, n, B, lo, hi)
  PROVE  /\ Tells(old, new, o, n) \subseteq Changes(A, B)
         /\ \A q \in Below(old, new) : /\ q = <<q[1], q[2]>> /\ q[1].level = old.level - 1 /\ old.level > 0
                                        /\ \E a, b : IsPair(q, o, A, n, B, a, b)
         /\ \A k \in Keys : A[k] # B[k] /\ lo < k /\ k <= hi =>
              \/ Change(k, A[k], B[k]) \in Tells(old, new, o, n)
              \/ \E q \in Below(old, new) : \E a, b : IsPair(q, o, A, n, B, a, b) /\ a < k /\ k <= b
<1>0. Rows(old) = Span(A, lo, hi) /\ Rows(new) = Span(B, lo, hi)
  BY DEF IsPair
<1>1. CASE old = new
  <2>1. Tells(old, new, o, n) = {} /\ Below(old, new) = {}
    BY <1>1 DEF Tells, Below
  <2>2. \A k \in Keys : lo < k /\ k <= hi => A[k] = B[k]
    <3>1. Span(A, lo, hi) = Span(B, lo, hi)
      BY <1>0, <1>1
    <3> QED BY <3>1, SpanEqual
  <2> QED BY <2>1, <2>2
<1>2. CASE old # new /\ (IsEmpty(old, new) \/ {old.level, new.level} = {0})
  <2>1. Tells(old, new, o, n) = RowsDiffer(Rows(old), Rows(new))
    BY <1>2 DEF Tells
  <2>2. Below(old, new) = {}
    <3>1. {old.level, new.level} = {0} => ~Inner(old, new)
      <4>1. {old.level, new.level} = {0} => old.level = 0
        OBVIOUS
      <4> QED BY <4>1 DEF Inner
    <3> QED BY <1>2, <3>1 DEF Below
  <2>3. Tells(old, new, o, n) = {Change(k, A[k], B[k]) : k \in {j \in Keys : A[j] # B[j] /\ lo < j /\ j <= hi}}
    BY <1>0, <2>1, DifferSpan
  <2> QED BY <2>2, <2>3 DEF Changes
<1>3. CASE old # new /\ ~IsEmpty(old, new) /\ {old.level, new.level} # {0} /\ ~Inner(old, new)
  <2>1. Tells(old, new, o, n) = RowsDiffer(Rows(o), Rows(n)) /\ Below(old, new) = {}
    BY <1>3 DEF Tells, Below
  <2>2. Tells(old, new, o, n) = Changes(A, B)
    BY <2>1, DifferRoots
  <2> QED BY <2>1, <2>2 DEF Changes
<1>4. CASE old # new /\ ~IsEmpty(old, new) /\ Inner(old, new)
  <2> DEFINE N == Agree(old, new)
             pair(i) == <<old.items[i].child, new.items[i].child>>
  <2>1. /\ \A i \in 1..N : /\ IsPair(pair(i), o, A, n, B, From(old, i, lo), old.items[i].key)
                            /\ old.items[i].child.level = old.level - 1
        /\ Tells(old, new, o, n) \subseteq Changes(A, B)
        /\ \A k \in Keys : (A[k] # B[k] /\ lo < k /\ k <= hi /\ (\A i \in 1..N : ~(k <= old.items[i].key)))
              => Change(k, A[k], B[k]) \in Tells(old, new, o, n)
    BY <1>4, InnerPair
  <2>2. Below(old, new) = {pair(i) : i \in {j \in 1..N : old.items[j].child # new.items[j].child}}
    BY <1>4 DEF Below
  <2>3. old.level > 0
    BY <1>4 DEF Inner
  <2>4. \A i : pair(i) = <<pair(i)[1], pair(i)[2]>> /\ pair(i)[1] = old.items[i].child /\ pair(i)[2] = new.items[i].child
    OBVIOUS
  <2>9. N \in Nat
    BY <1>4, InnerPair
  <2> HIDE DEF N, pair
  <2>5. \A q \in Below(old, new) : /\ q = <<q[1], q[2]>> /\ q[1].level = old.level - 1 /\ old.level > 0
                                   /\ \E a, b : IsPair(q, o, A, n, B, a, b)
    BY <2>1, <2>2, <2>3, <2>4
  <2>6. ASSUME NEW k \in Keys, A[k] # B[k], lo < k, k <= hi, \E i \in 1..N : k <= old.items[i].key
        PROVE  \E q \in Below(old, new) : \E a, b : IsPair(q, o, A, n, B, a, b) /\ a < k /\ k <= b
    <3> DEFINE I == {i \in 1..N : k <= old.items[i].key}
    <3>1. I \in SUBSET Nat /\ I # {}
      BY <2>6
    <3>2. PICK i \in I : \A j \in I : i <= j
      BY <3>1, LeastNumber
    <3>3. i \in 1..N /\ i \in Nat /\ k <= old.items[i].key
      BY <3>2
    <3>4. From(old, i, lo) < k
      <4>1. CASE i = 1
        BY <2>6, <4>1 DEF From
      <4>2. CASE i # 1
        <5>1. i - 1 \in 1..N /\ i - 1 \notin I
          <6>1. i - 1 \in 1..N /\ ~(i <= i - 1)
            <7>1. N \in Nat
              BY <2>9
            <7> QED BY <3>3, <4>2, <7>1
          <6> QED BY <3>2, <6>1
        <5>2. ~(k <= old.items[i - 1].key)
          BY <5>1
        <5>3. IsPair(pair(i - 1), o, A, n, B, From(old, i - 1, lo), old.items[i - 1].key)
          BY <2>1, <5>1
        <5>4. old.items[i - 1].key \in Nat /\ k \in Nat
          BY <5>3, KeysAre DEF IsPair
        <5> QED BY <4>2, <5>2, <5>4 DEF From
      <4> QED BY <4>1, <4>2
    <3>5. IsPair(pair(i), o, A, n, B, From(old, i, lo), old.items[i].key)
      BY <2>1, <3>3
    <3>6. old.items[i].child # new.items[i].child
      <4> SUFFICES ASSUME old.items[i].child = new.items[i].child PROVE FALSE
        OBVIOUS
      <4>1. Span(A, From(old, i, lo), old.items[i].key) = Span(B, From(old, i, lo), old.items[i].key)
        BY <2>4, <3>5 DEF IsPair
      <4> QED BY <2>6, <3>3, <3>4, <4>1, SpanEqual
    <3>7. pair(i) \in Below(old, new)
      BY <2>2, <3>3, <3>6
    <3> QED BY <3>3, <3>4, <3>5, <3>7
  <2> QED BY <2>1, <2>5, <2>6
<1> QED BY <1>1, <1>2, <1>3, <1>4

\* the pairs that are compared
IsPairs(f, o, n0, n) == f = [k \in 0..n |-> IF k = 0 THEN {<<o, n0>>} ELSE UNION {Below(p[1], p[2]) : p \in f[k - 1]}]

LEMMA PairsExists == ASSUME NEW o, NEW n0 PROVE \A n \in Nat : \E f : IsPairs(f, o, n0, n)
<1> DEFINE T == {n \in Nat : \E f : IsPairs(f, o, n0, n)}
<1>1. 0 \in T
  <2> DEFINE f == [k \in 0..0 |-> {<<o, n0>>}]
  <2>1. IsPairs(f, o, n0, 0)
    BY DEF IsPairs
  <2> QED BY <2>1
<1>2. ASSUME NEW n \in Nat, n \in T PROVE n + 1 \in T
  <2>1. PICK f : IsPairs(f, o, n0, n)
    BY <1>2
  <2> DEFINE g == [k \in 0..(n + 1) |-> IF k = n + 1 THEN UNION {Below(p[1], p[2]) : p \in f[n]} ELSE f[k]]
  <2>2. \A k \in 0..(n + 1) : g[k] = IF k = 0 THEN {<<o, n0>>} ELSE UNION {Below(p[1], p[2]) : p \in g[k - 1]}
    <3> TAKE k \in 0..(n + 1)
    <3>1. CASE k = n + 1
      <4>1. k # 0 /\ k - 1 = n /\ k - 1 \in 0..(n + 1) /\ k - 1 # n + 1
        BY <3>1
      <4>2. g[k] = UNION {Below(p[1], p[2]) : p \in f[n]} /\ g[k - 1] = f[n]
        BY <3>1, <4>1
      <4> QED BY <4>1, <4>2
    <3>2. CASE k # n + 1 /\ k # 0
      <4>1. k \in 0..n /\ k - 1 \in 0..(n + 1) /\ k - 1 # n + 1
        BY <3>2
      <4>2. g[k] = f[k] /\ g[k - 1] = f[k - 1]
        BY <3>2, <4>1
      <4>3. f[k] = UNION {Below(p[1], p[2]) : p \in f[k - 1]}
        BY <2>1, <3>2, <4>1 DEF IsPairs
      <4> QED BY <3>2, <4>2, <4>3
    <3>3. CASE k = 0
      <4>1. k \in 0..n /\ k # n + 1
        BY <3>3
      <4> QED BY <2>1, <3>3, <4>1 DEF IsPairs
    <3> QED BY <3>1, <3>2, <3>3
  <2>3. g = [k \in 0..(n + 1) |-> g[k]]
    OBVIOUS
  <2> HIDE DEF g
  <2>4. IsPairs(g, o, n0, n + 1)
    BY <2>2, <2>3 DEF IsPairs
  <2> QED BY <2>4
<1> HIDE DEF T
<1>3. Nat \subseteq T
  BY <1>1, <1>2, NumberInduction
<1> QED BY <1>3 DEF T

LEMMA DiffUnfold ==
  ASSUME NEW o, NEW n, o.level \in Nat
  PROVE  \E f : /\ f[0] = {<<o, n>>}
                /\ \A d \in 1..o.level : f[d] = UNION {Below(p[1], p[2]) : p \in f[d - 1]}
                /\ Diff(o, n) = UNION {Tells(p[1], p[2], o, n) : p \in UNION {f[d] : d \in 0..o.level}}
<1> DEFINE f == CHOOSE f : IsPairs(f, o, n, o.level)
<1>1. IsPairs(f, o, n, o.level)
  BY PairsExists
<1>2. Diff(o, n) = UNION {Tells(p[1], p[2], o, n) : p \in UNION {f[d] : d \in 0..o.level}}
  BY DEF Diff, IsPairs
<1> HIDE DEF f
<1>3. \A d \in 0..o.level : f[d] = IF d = 0 THEN {<<o, n>>} ELSE UNION {Below(p[1], p[2]) : p \in f[d - 1]}
  BY <1>1 DEF IsPairs
<1>4. 0 \in 0..o.level /\ \A d \in 1..o.level : d \in 0..o.level /\ d # 0
  OBVIOUS
<1>5. f[0] = {<<o, n>>} /\ \A d \in 1..o.level : f[d] = UNION {Below(p[1], p[2]) : p \in f[d - 1]}
  BY <1>3, <1>4
<1> QED BY <1>2, <1>5

\* The changes that are told are those of the tables.
LEMMA DiffIs ==
  ASSUME NEW o, NEW A \in Table, IsTree(o, A), NEW n, NEW B \in Table, IsTree(n, B)
  PROVE  Diff(o, n) = Changes(A, B)
<1> DEFINE L == o.level
           Pair(p, a, b) == IsPair(p, o, A, n, B, a, b)
<1>0. L \in Nat /\ n.level \in Nat /\ o \in NodesOf(o) /\ n \in NodesOf(n)
  <2>1. \A r : \A T : IsTree(r, T) => r.level \in Nat
    BY NoRowsIs, GoodIs DEF IsTree
  <2> QED BY <2>1, RootIn
<1>1. PICK f : /\ f[0] = {<<o, n>>}
               /\ \A d \in 1..L : f[d] = UNION {Below(p[1], p[2]) : p \in f[d - 1]}
               /\ Diff(o, n) = UNION {Tells(p[1], p[2], o, n) : p \in UNION {f[d] : d \in 0..L}}
  BY <1>0, DiffUnfold
<1>2. Pair(<<o, n>>, 0, MaxKey)
  BY <1>0, TreeIs, KeysAre DEF IsPair
<1> HIDE DEF L, Pair
<1> DEFINE Fine(d) == \A p \in f[d] : p = <<p[1], p[2]>> /\ p[1].level = L - d /\ \E a, b : Pair(p, a, b)
           Told(k, d) == \E e \in 0..d : \E p \in f[e] : Change(k, A[k], B[k]) \in Tells(p[1], p[2], o, n)
           Ahead(k, d) == \E p \in f[d] : \E a, b : Pair(p, a, b) /\ a < k /\ k <= b
           S == {d \in Nat : d <= L => Fine(d) /\ \A k \in Keys : A[k] # B[k] => Told(k, d) \/ Ahead(k, d)}
<1>3. \A p : \A a, b : p = <<p[1], p[2]>> /\ Pair(p, a, b) =>
         /\ Tells(p[1], p[2], o, n) \subseteq Changes(A, B)
         /\ \A q \in Below(p[1], p[2]) : /\ q = <<q[1], q[2]>> /\ q[1].level = p[1].level - 1 /\ p[1].level > 0
                                          /\ \E x, y : Pair(q, x, y)
         /\ \A k \in Keys : A[k] # B[k] /\ a < k /\ k <= b =>
              \/ Change(k, A[k], B[k]) \in Tells(p[1], p[2], o, n)
              \/ \E q \in Below(p[1], p[2]) : \E x, y : Pair(q, x, y) /\ x < k /\ k <= y
  <2> SUFFICES ASSUME NEW p, NEW a, NEW b, p = <<p[1], p[2]>>, Pair(p, a, b)
        PROVE /\ Tells(p[1], p[2], o, n) \subseteq Changes(A, B)
              /\ \A q \in Below(p[1], p[2]) : /\ q = <<q[1], q[2]>> /\ q[1].level = p[1].level - 1 /\ p[1].level > 0
                                               /\ \E x, y : Pair(q, x, y)
              /\ \A k \in Keys : A[k] # B[k] /\ a < k /\ k <= b =>
                   \/ Change(k, A[k], B[k]) \in Tells(p[1], p[2], o, n)
                   \/ \E q \in Below(p[1], p[2]) : \E x, y : Pair(q, x, y) /\ x < k /\ k <= y
    OBVIOUS
  <2> DEFINE old == p[1]
             new == p[2]
  <2>1. IsPair(<<old, new>>, o, A, n, B, a, b)
    BY DEF Pair
  <2> HIDE DEF old, new
  <2>2. /\ Tells(old, new, o, n) \subseteq Changes(A, B)
        /\ \A q \in Below(old, new) : /\ q = <<q[1], q[2]>> /\ q[1].level = old.level - 1 /\ old.level > 0
                                       /\ \E x, y : IsPair(q, o, A, n, B, x, y)
        /\ \A k \in Keys : A[k] # B[k] /\ a < k /\ k <= b =>
              \/ Change(k, A[k], B[k]) \in Tells(old, new, o, n)
              \/ \E q \in Below(old, new) : \E x, y : IsPair(q, o, A, n, B, x, y) /\ x < k /\ k <= y
    BY <2>1, PairStep
  <2> QED BY <2>2 DEF Pair, old, new
<1>4. 0 \in S
  <2>1. Fine(0)
    <3>1. <<o, n>> = <<<<o, n>>[1], <<o, n>>[2]>> /\ <<o, n>>[1].level = L - 0
      BY <1>0 DEF L
    <3> QED BY <1>1, <1>2, <3>1
  <2>2. \A k \in Keys : Ahead(k, 0)
    <3> TAKE k \in Keys
    <3>0. k \in Nat \ {0} /\ k <= MaxKey
      BY KeysAre
    <3>1. 0 < k /\ k <= MaxKey
      BY <3>0
    <3> QED BY <1>1, <1>2, <3>1
  <2> HIDE DEF Fine, Ahead, Told
  <2> QED BY <2>1, <2>2
<1>5. ASSUME NEW d \in Nat, d \in S PROVE d + 1 \in S
  <2> DEFINE e == d + 1
  <2> SUFFICES ASSUME d + 1 <= L
               PROVE  Fine(e) /\ \A k \in Keys : A[k] # B[k] => Told(k, e) \/ Ahead(k, e)
    OBVIOUS
  <2>1. d <= L /\ e \in 1..L /\ e - 1 = d /\ d \in 0..d /\ L - d - 1 = L - e
    BY <1>0
  <2>2. Fine(d) /\ \A k \in Keys : A[k] # B[k] => Told(k, d) \/ Ahead(k, d)
    <3> HIDE DEF Fine, Ahead, Told
    <3> QED BY <1>5, <2>1
  <2>3. f[e] = UNION {Below(p[1], p[2]) : p \in f[d]}
    BY <1>1, <2>1
  <2>9. \A x \in 0..d : x \in 0..e
    OBVIOUS
  <2> HIDE DEF e
  <2>4. ASSUME NEW q \in f[e] PROVE q = <<q[1], q[2]>> /\ q[1].level = L - e /\ \E a, b : Pair(q, a, b)
    <3>1. PICK p \in f[d] : q \in Below(p[1], p[2])
      BY <2>3
    <3>2. p = <<p[1], p[2]>> /\ p[1].level = L - d /\ \E a, b : Pair(p, a, b)
      BY <2>2
    <3>3. q = <<q[1], q[2]>> /\ q[1].level = p[1].level - 1 /\ \E a, b : Pair(q, a, b)
      BY <1>3, <3>1, <3>2
    <3>4. q[1].level = L - e
      BY <2>1, <3>2, <3>3
    <3> QED BY <3>3, <3>4
  <2>5. ASSUME NEW k \in Keys, A[k] # B[k] PROVE Told(k, e) \/ Ahead(k, e)
    <3>1. CASE Told(k, d)
      <4>1. PICK x \in 0..d : \E p \in f[x] : Change(k, A[k], B[k]) \in Tells(p[1], p[2], o, n)
        BY <3>1
      <4> QED BY <2>9, <4>1
    <3>2. CASE Ahead(k, d)
      <4>0. PICK p \in f[d] : \E a, b : Pair(p, a, b) /\ a < k /\ k <= b
        BY <3>2
      <4>1. PICK a, b : Pair(p, a, b) /\ a < k /\ k <= b
        BY <4>0
      <4>2. p = <<p[1], p[2]>>
        BY <2>2
      <4>3. \/ Change(k, A[k], B[k]) \in Tells(p[1], p[2], o, n)
            \/ \E q \in Below(p[1], p[2]) : \E x, y : Pair(q, x, y) /\ x < k /\ k <= y
        BY <1>3, <2>5, <4>1, <4>2
      <4>4. d \in 0..e
        BY <2>1, <2>9
      <4>5. CASE Change(k, A[k], B[k]) \in Tells(p[1], p[2], o, n)
        BY <4>4, <4>5
      <4>6. CASE \E q \in Below(p[1], p[2]) : \E x, y : Pair(q, x, y) /\ x < k /\ k <= y
        BY <2>3, <4>6
      <4> QED BY <4>3, <4>5, <4>6
    <3> QED BY <2>2, <2>5, <3>1, <3>2
  <2> QED BY <2>4, <2>5
<1> HIDE DEF S
<1>6. Nat \subseteq S
  BY <1>4, <1>5, NumberInduction
<1>7. \A d \in 0..L : Fine(d) /\ \A k \in Keys : A[k] # B[k] => Told(k, d) \/ Ahead(k, d)
  <2> TAKE d \in 0..L
  <2>1. d \in S /\ d <= L
    BY <1>0, <1>6
  <2> HIDE DEF Fine, Ahead, Told
  <2> QED BY <2>1 DEF S
<1>8. Diff(o, n) \subseteq Changes(A, B)
  <2> SUFFICES ASSUME NEW d \in 0..L, NEW p \in f[d] PROVE Tells(p[1], p[2], o, n) \subseteq Changes(A, B)
    BY <1>1
  <2>1. p = <<p[1], p[2]>> /\ \E a, b : Pair(p, a, b)
    BY <1>7
  <2> QED BY <1>3, <2>1
<1>9. ASSUME NEW k \in Keys, A[k] # B[k] PROVE Change(k, A[k], B[k]) \in Diff(o, n)
  <2>1. L \in 0..L
    BY <1>0
  <2>2. CASE Told(k, L)
    BY <1>1, <2>2
  <2>3. CASE Ahead(k, L)
    <3>0. PICK p \in f[L] : \E a, b : Pair(p, a, b) /\ a < k /\ k <= b
      BY <2>3
    <3>1. PICK a, b : Pair(p, a, b) /\ a < k /\ k <= b
      BY <3>0
    <3>2. p = <<p[1], p[2]>> /\ p[1].level = L - L
      BY <1>7, <2>1
    <3>3. ~(p[1].level > 0)
      BY <1>0, <3>2
    <3>4. Change(k, A[k], B[k]) \in Tells(p[1], p[2], o, n)
      BY <1>3, <1>9, <3>1, <3>2, <3>3
    <3> QED BY <1>1, <2>1, <3>4
  <2> QED BY <1>7, <1>9, <2>1, <2>2, <2>3
<1> QED BY <1>8, <1>9 DEF Changes

-----------------------------------------------------------------------------
(* Merging row by row.                                                     *)

\* what a merge makes of three tables, unless the sides clash
Merged(A, O, T) == [k \in Keys |-> Resolve(A[k], O[k], T[k])]
NoClash(A, O, T, lo, hi) == \A k \in Keys : lo < k /\ k <= hi => ~Clash(A[k], O[k], T[k])

LEMMA MergedIs ==
  ASSUME NEW A \in Table, NEW O \in Table, NEW T \in Table
  PROVE  /\ Merged(A, O, T) \in Table
         /\ \A k \in Keys : Merged(A, O, T)[k] = IF O[k] = A[k] THEN T[k] ELSE O[k]
BY DEF Merged, Resolve, Table

\* three tables are merged row by row
IsMerge(f, st, a, o, t, n) == f = [k \in 0..n |-> IF k = 0 THEN st ELSE MergeRow(f[k - 1], k, a[k], o[k], t[k])]

LEMMA MergeExists == ASSUME NEW st, NEW a, NEW o, NEW t PROVE \A n \in Nat : \E f : IsMerge(f, st, a, o, t, n)
<1> DEFINE T == {n \in Nat : \E f : IsMerge(f, st, a, o, t, n)}
<1>1. 0 \in T
  <2> DEFINE f == [k \in 0..0 |-> st]
  <2>1. IsMerge(f, st, a, o, t, 0)
    BY DEF IsMerge
  <2> QED BY <2>1
<1>2. ASSUME NEW n \in Nat, n \in T PROVE n + 1 \in T
  <2>1. PICK f : IsMerge(f, st, a, o, t, n)
    BY <1>2
  <2> DEFINE g == [k \in 0..(n + 1) |-> IF k = n + 1 THEN MergeRow(f[n], (n + 1), a[(n + 1)], o[(n + 1)], t[(n + 1)]) ELSE f[k]]
  <2>2. \A k \in 0..(n + 1) : g[k] = IF k = 0 THEN st ELSE MergeRow(g[k - 1], k, a[k], o[k], t[k])
    <3> TAKE k \in 0..(n + 1)
    <3>1. CASE k = n + 1
      <4>1. k # 0 /\ k - 1 = n /\ k - 1 \in 0..(n + 1) /\ k - 1 # n + 1
        BY <3>1
      <4>2. g[k] = MergeRow(f[n], k, a[k], o[k], t[k]) /\ g[k - 1] = f[n]
        BY <3>1, <4>1
      <4> QED BY <4>1, <4>2
    <3>2. CASE k # n + 1 /\ k # 0
      <4>1. k \in 0..n /\ k - 1 \in 0..(n + 1) /\ k - 1 # n + 1
        BY <3>2
      <4>2. g[k] = f[k] /\ g[k - 1] = f[k - 1]
        BY <3>2, <4>1
      <4>3. f[k] = MergeRow(f[k - 1], k, a[k], o[k], t[k])
        BY <2>1, <3>2, <4>1 DEF IsMerge
      <4> QED BY <3>2, <4>2, <4>3
    <3>3. CASE k = 0
      <4>1. k \in 0..n /\ k # n + 1
        BY <3>3
      <4> QED BY <2>1, <3>3, <4>1 DEF IsMerge
    <3> QED BY <3>1, <3>2, <3>3
  <2>3. g = [k \in 0..(n + 1) |-> g[k]]
    OBVIOUS
  <2> HIDE DEF g
  <2>4. IsMerge(g, st, a, o, t, n + 1)
    BY <2>2, <2>3 DEF IsMerge
  <2> QED BY <2>4
<1> HIDE DEF T
<1>3. Nat \subseteq T
  BY <1>1, <1>2, NumberInduction
<1> QED BY <1>3 DEF T

LEMMA MergeRowsIs ==
  ASSUME NEW st, NEW a, NEW o, NEW t
  PROVE  \E f : /\ f[0] = st /\ MergeRows(st, a, o, t) = f[MaxKey]
                /\ \A k \in 1..MaxKey : f[k] = MergeRow(f[k - 1], k, a[k], o[k], t[k])
<1> DEFINE f == CHOOSE f : IsMerge(f, st, a, o, t, MaxKey)
<1>0. MaxKey \in Nat
  BY KeysAre
<1>1. IsMerge(f, st, a, o, t, MaxKey)
  BY <1>0, MergeExists
<1>2. MergeRows(st, a, o, t) = f[MaxKey]
  BY DEF MergeRows, IsMerge
<1> HIDE DEF f
<1>3. \A k \in 0..MaxKey : f[k] = IF k = 0 THEN st ELSE MergeRow(f[k - 1], k, a[k], o[k], t[k])
  BY <1>1 DEF IsMerge
<1>4. 0 \in 0..MaxKey /\ \A k \in 1..MaxKey : k \in 0..MaxKey /\ k # 0
  BY <1>0
<1>5. f[0] = st /\ \A k \in 1..MaxKey : f[k] = MergeRow(f[k - 1], k, a[k], o[k], t[k])
  BY <1>3, <1>4
<1> QED BY <1>2, <1>5

\* the merge has come as far as c: it was given up, or it has the rows of M
MergeOk(st, R, M, A, O, T, E, lo, c) ==
  \/ ~st.ok
  \/ Full(st.ch)
  \/ Holds(st.ch, R, E) /\ NoClash(A, O, T, lo, c)

LEMMA MergeRowStep ==
  ASSUME NEW st, NEW R, NEW A \in Table, NEW O \in Table, NEW T \in Table, NEW M, M = Merged(A, O, T), NEW E,
         NEW Q, \A r \in Q, k \in Has(M) : r.key < k,
         NEW k \in Keys, MergeOk(st, Q \cup Span(M, 0, k - 1), M, A, O, T, E, 0, k - 1),
         NEW to, to = MergeRow(st, k, A[k], O[k], T[k])
  PROVE  MergeOk(to, Q \cup Span(M, 0, k), M, A, O, T, E, 0, k)
<1>0. M \in Table /\ M[k] = Resolve(A[k], O[k], T[k]) /\ k \in Nat \ {0}
  BY MergedIs, KeysAre DEF Merged
<1>1. CASE ~st.ok \/ Full(st.ch)
  BY <1>1 DEF MergeRow, MergeOk
<1>2. CASE st.ok /\ ~Full(st.ch) /\ Clash(A[k], O[k], T[k])
  BY <1>2 DEF MergeRow, MergeOk
<1>3. CASE st.ok /\ ~Full(st.ch) /\ ~Clash(A[k], O[k], T[k])
  <2>1. to = [st EXCEPT !.ch = AddRow(st.ch, k, M[k])]
    BY <1>0, <1>3 DEF MergeRow
  <2>2. to.ch = AddRow(st.ch, k, M[k]) \/ ~to.ok \/ Full(to.ch)
    BY <2>1
  <2>3. Holds(st.ch, Q \cup Span(M, 0, k - 1), E) /\ NoClash(A, O, T, 0, k - 1)
    BY <1>3 DEF MergeOk
  <2>4. M[k] # Absent => \A r \in Q \cup Span(M, 0, k - 1) : r.key < k
    <3>1. M[k] # Absent => k \in Has(M)
      BY DEF Has
    <3>2. \A r \in Span(M, 0, k - 1) : r.key \in Nat /\ r.key <= k - 1
      BY <1>0, SpanIs
    <3>3. \A r \in Span(M, 0, k - 1) : r.key < k
      BY <1>0, <3>2
    <3> QED BY <3>1, <3>3
  <2>5. M[k] \in Vals \cup {Absent}
    BY <1>0, TableHas
  <2>6. Holds(AddRow(st.ch, k, M[k]), (Q \cup Span(M, 0, k - 1)) \cup RowOf(k, M[k]), E)
    BY <2>3, <2>4, <2>5, AddRowHolds
  <2>7. (Q \cup Span(M, 0, k - 1)) \cup RowOf(k, M[k]) = Q \cup Span(M, 0, k)
    BY <1>0, SpanStep
  <2>8. NoClash(A, O, T, 0, k)
    <3> SUFFICES ASSUME NEW j \in Keys, 0 < j, j <= k PROVE ~Clash(A[j], O[j], T[j])
      BY DEF NoClash
    <3>1. CASE j = k
      BY <1>3, <3>1
    <3>2. CASE j # k
      <4>1. j \in Nat /\ j <= k - 1
        BY <1>0, <3>2, KeysAre
      <4> QED BY <2>3, <4>1 DEF NoClash
    <3> QED BY <3>1, <3>2
  <2> QED BY <2>2, <2>6, <2>7, <2>8 DEF MergeOk
<1> QED BY <1>1, <1>2, <1>3

LEMMA MergeRowsHold ==
  ASSUME NEW st, NEW A \in Table, NEW O \in Table, NEW T \in Table, NEW M, M = Merged(A, O, T), NEW E,
         NEW Q, \A r \in Q, k \in Has(M) : r.key < k, Holds(st.ch, Q, E)
  PROVE  MergeOk(MergeRows(st, A, O, T), Q \cup Span(M, 0, MaxKey), M, A, O, T, E, 0, MaxKey)
<1>0. MaxKey \in Nat /\ M \in Table /\ Keys = 1..MaxKey
  BY MergedIs, KeysAre DEF Keys
<1>1. PICK f : /\ f[0] = st /\ MergeRows(st, A, O, T) = f[MaxKey]
               /\ \A k \in 1..MaxKey : f[k] = MergeRow(f[k - 1], k, A[k], O[k], T[k])
  BY MergeRowsIs
<1> DEFINE Ok(k) == MergeOk(f[k], Q \cup Span(M, 0, k), M, A, O, T, E, 0, k)
           S == {k \in Nat : k <= MaxKey => Ok(k)}
<1>2. 0 \in S
  <2>1. Span(M, 0, 0) = {}
    <3>1. \A k \in Has(M) : k \in Nat
      BY <1>0, TableHas
    <3>2. \A k \in Has(M) : ~(0 < k /\ k <= 0)
      BY <3>1
    <3> QED BY <1>0, <3>2, SpanNone
  <2>2. NoClash(A, O, T, 0, 0)
    <3>1. \A k \in Keys : k \in Nat
      BY KeysAre
    <3>2. \A k \in Keys : ~(0 < k /\ k <= 0)
      BY <3>1
    <3> QED BY <3>2 DEF NoClash
  <2>3. Holds(f[0].ch, Q \cup Span(M, 0, 0), E)
    BY <1>1, <2>1
  <2>4. Ok(0)
    BY <2>2, <2>3 DEF MergeOk
  <2> HIDE DEF Ok
  <2> QED BY <2>4
<1>3. ASSUME NEW n \in Nat, n \in S PROVE n + 1 \in S
  <2> SUFFICES ASSUME n + 1 <= MaxKey PROVE Ok(n + 1)
    <3> HIDE DEF Ok
    <3> QED OBVIOUS
  <2> DEFINE k == n + 1
  <2>1. k \in Keys /\ k \in 1..MaxKey /\ k - 1 = n
    BY <1>0
  <2>2. Ok(n)
    <3> HIDE DEF Ok
    <3>1. n <= MaxKey
      BY <1>0
    <3> QED BY <1>3, <3>1
  <2>3. f[k] = MergeRow(f[n], k, A[k], O[k], T[k])
    BY <1>1, <2>1
  <2> HIDE DEF k
  <2>4. MergeOk(f[n], Q \cup Span(M, 0, k - 1), M, A, O, T, E, 0, k - 1)
    BY <2>1, <2>2
  <2>5. MergeOk(f[k], Q \cup Span(M, 0, k), M, A, O, T, E, 0, k)
    BY <2>1, <2>3, <2>4, MergeRowStep
  <2> QED BY <2>5 DEF k
<1> HIDE DEF S
<1>4. Nat \subseteq S
  BY <1>2, <1>3, NumberInduction
<1>5. MaxKey \in S
  BY <1>0, <1>4
<1> HIDE DEF Ok
<1>6. Ok(MaxKey)
  BY <1>0, <1>5 DEF S
<1> QED BY <1>1, <1>6 DEF Ok

-----------------------------------------------------------------------------
(* The parts of a merge.                                                   *)

\* the node reaches as far as its tree
AtEdge(n, root) == LastKey(n) = LastKey(root)

\* what a part says of one of its nodes
SideOk(root, T, n, from, to, seek) ==
  /\ n \in NodesOf(root)
  /\ seek = 0 => Rows(n) = Span(T, from, to)
  /\ seek # 0 => After(n, seek) = Span(T, from, to)

\* what is spliced in is below the root and ends with the part
SpliceOk(n, x) == LastKey(n) = x.to /\ n.level + 1 \in Levels

PartOk(x, a, o, t, A, O, T) ==
  /\ x.from \in Nat /\ x.to \in Nat /\ x.from < x.to /\ x.to <= MaxKey
  /\ SideOk(a, A, x.anc, x.from, x.to, x.seek)
  /\ SideOk(o, O, x.ours, x.from, x.to, x.seek)
  /\ SideOk(t, T, x.theirs, x.from, x.to, x.seek)
  /\ AtEdge(x.anc, a) <=> AtEdge(x.ours, o)
  /\ AtEdge(x.anc, a) <=> AtEdge(x.theirs, t)
  /\ Settled(x) => x.seek = 0 /\ SpliceOk(x.anc, x) /\ SpliceOk(x.ours, x) /\ SpliceOk(x.theirs, x)

Three(a, o, t, A, O, T) ==
  /\ A \in Table /\ O \in Table /\ T \in Table
  /\ Good(a) /\ TableOf(a) = A /\ Good(o) /\ TableOf(o) = O /\ Good(t) /\ TableOf(t) = T

\* the rows of a node that is the only one changed are the merged rows
LEMMA SettledIs ==
  ASSUME NEW a, NEW o, NEW t, NEW A, NEW O, NEW T, Three(a, o, t, A, O, T), NEW M, M = Merged(A, O, T),
         NEW x, PartOk(x, a, o, t, A, O, T), Settled(x),
         NEW whole, whole = (IF x.ours = x.anc THEN x.theirs ELSE x.ours)
  PROVE  /\ Rows(whole) = Span(M, x.from, x.to)
         /\ NoClash(A, O, T, x.from, x.to)
         /\ Whole(whole) /\ whole.level + 1 \in Levels /\ whole.level \in Nat /\ LastKey(whole) = x.to
         /\ Tidy(whole, Ends(M))
<1>0. A \in Table /\ O \in Table /\ T \in Table /\ M \in Table
  BY MergedIs DEF Three
<1>1. /\ x.anc \in NodesOf(a) /\ x.ours \in NodesOf(o) /\ x.theirs \in NodesOf(t)
      /\ Rows(x.anc) = Span(A, x.from, x.to) /\ Rows(x.ours) = Span(O, x.from, x.to)
      /\ Rows(x.theirs) = Span(T, x.from, x.to)
      /\ x.from \in Nat /\ x.to \in Nat
  BY DEF PartOk, SideOk
<1>2. x.ours = x.anc => \A k \in Keys : x.from < k /\ k <= x.to => O[k] = A[k]
  <2> SUFFICES ASSUME x.ours = x.anc PROVE \A k \in Keys : x.from < k /\ k <= x.to => O[k] = A[k]
    OBVIOUS
  <2>1. Span(O, x.from, x.to) = Span(A, x.from, x.to)
    BY <1>1
  <2> QED BY <1>0, <2>1, SpanEqual
<1>3. x.theirs = x.anc => \A k \in Keys : x.from < k /\ k <= x.to => T[k] = A[k]
  <2> SUFFICES ASSUME x.theirs = x.anc PROVE \A k \in Keys : x.from < k /\ k <= x.to => T[k] = A[k]
    OBVIOUS
  <2>1. Span(T, x.from, x.to) = Span(A, x.from, x.to)
    BY <1>1
  <2> QED BY <1>0, <2>1, SpanEqual
<1>4. x.ours = x.theirs => \A k \in Keys : x.from < k /\ k <= x.to => O[k] = T[k]
  <2> SUFFICES ASSUME x.ours = x.theirs PROVE \A k \in Keys : x.from < k /\ k <= x.to => O[k] = T[k]
    OBVIOUS
  <2>1. Span(O, x.from, x.to) = Span(T, x.from, x.to)
    BY <1>1
  <2> QED BY <1>0, <2>1, SpanEqual
<1>5. \A k \in Keys : M[k] = IF O[k] = A[k] THEN T[k] ELSE O[k]
  BY <1>0, MergedIs
<1>6. NoClash(A, O, T, x.from, x.to)
  BY <1>2, <1>3, <1>4 DEF NoClash, Clash, Settled
<1>7. Rows(whole) = Span(M, x.from, x.to)
  <2>1. CASE x.ours = x.anc
    <3>1. \A k \in Keys : x.from < k /\ k <= x.to => T[k] = M[k]
      BY <1>2, <1>5, <2>1
    <3>2. Span(T, x.from, x.to) = Span(M, x.from, x.to)
      BY <1>0, <3>1, SpanSame
    <3> QED BY <1>1, <2>1, <3>2
  <2>2. CASE x.ours # x.anc
    <3>1. \A k \in Keys : x.from < k /\ k <= x.to => O[k] = M[k]
      BY <1>3, <1>4, <1>5, <2>2 DEF Settled
    <3>2. Span(O, x.from, x.to) = Span(M, x.from, x.to)
      BY <1>0, <3>1, SpanSame
    <3> QED BY <1>1, <2>2, <3>2
  <2> QED BY <2>1, <2>2
<1>8. SpliceOk(whole, x)
  BY DEF PartOk
<1>9. PICK root : Good(root) /\ whole \in NodesOf(root) /\ root \in {o, t}
                  /\ (AtEdge(whole, root) <=> AtEdge(x.anc, a))
  BY <1>1 DEF Three, PartOk
<1>10. root.level \in Nat /\ Whole(root)
  BY <1>9, GoodIs
<1>11. Whole(whole) /\ whole.level \in Nat
  BY <1>9, <1>10, NodesIn
<1>12. Tidy(whole, Ends(M))
  <2>1. CASE ~AtEdge(whole, root)
    <3>1. \A E : Tidy(whole, E)
      BY <1>9, <2>1, TidyIn DEF AtEdge
    <3> QED BY <3>1
  <2>2. CASE AtEdge(whole, root)
    <3>1. AtEdge(x.anc, a) /\ AtEdge(x.ours, o) /\ AtEdge(x.theirs, t)
      BY <1>9, <2>2 DEF PartOk
    <3>2. LastKey(x.anc) = x.to /\ LastKey(x.ours) = x.to /\ LastKey(x.theirs) = x.to
      BY DEF PartOk, SpliceOk
    <3>3. LastKey(a) = x.to /\ LastKey(o) = x.to /\ LastKey(t) = x.to
      BY <3>1, <3>2 DEF AtEdge
    <3>4. /\ \A k \in Has(A) : k <= x.to
          /\ \A k \in Has(O) : k <= x.to
          /\ \A k \in Has(T) : k <= x.to
      BY <3>3, GoodIs, TableIs DEF Three
    <3>5. Has(M) \subseteq Has(O) \cup Has(T)
      BY <1>5 DEF Has
    <3>6. \A k \in Has(M) : k <= x.to
      BY <3>4, <3>5
    <3>7. x.to \in Has(M)
      <4>1. LastKey(whole) \in KeysOf(Rows(whole))
        BY <1>11, RowsAre DEF RowsOk
      <4>2. \A r \in Rows(whole) : r.key \in Has(M)
        BY <1>0, <1>7, SpanIs
      <4> QED BY <1>8, <4>1, <4>2 DEF KeysOf, SpliceOk
    <3>8. Ends(M) = {x.to}
      BY <1>0, <3>6, <3>7, EndsIs
    <3>9. LastKey(root) = x.to
      BY <1>8, <2>2 DEF AtEdge, SpliceOk
    <3>10. Tidy(whole, {LastKey(root)})
      BY <1>9, TidyIn
    <3> QED BY <3>8, <3>9, <3>10
  <2> QED BY <2>1, <2>2
<1> QED BY <1>6, <1>7, <1>8, <1>11, <1>12 DEF SpliceOk

\* the rows of a part, in all of its three nodes
LEMMA RowsFromIs ==
  ASSUME NEW root, NEW T \in Table, NEW n, NEW from, NEW to, NEW seek, SideOk(root, T, n, from, to, seek)
  PROVE  RowsFrom(n, seek) = Within(T, from, to)
<1>1. (IF seek = 0 THEN Rows(n) ELSE After(n, seek)) = Span(T, from, to)
  BY DEF SideOk
<1> QED BY <1>1, AsTableSpan DEF RowsFrom

LEMMA MergedWithin ==
  ASSUME NEW A \in Table, NEW O \in Table, NEW T \in Table, NEW lo, NEW hi
  PROVE  /\ Merged(Within(A, lo, hi), Within(O, lo, hi), Within(T, lo, hi)) = Within(Merged(A, O, T), lo, hi)
         /\ NoClash(Within(A, lo, hi), Within(O, lo, hi), Within(T, lo, hi), 0, MaxKey) => NoClash(A, O, T, lo, hi)
<1> DEFINE a == Within(A, lo, hi)
           o == Within(O, lo, hi)
           t == Within(T, lo, hi)
<1>1. \A k \in Keys : IF lo < k /\ k <= hi THEN a[k] = A[k] /\ o[k] = O[k] /\ t[k] = T[k]
                      ELSE a[k] = Absent /\ o[k] = Absent /\ t[k] = Absent
  BY DEF Within
<1> HIDE DEF a, o, t
<1>2. \A k \in Keys : Resolve(a[k], o[k], t[k]) = IF lo < k /\ k <= hi THEN Resolve(A[k], O[k], T[k]) ELSE Absent
  BY <1>1 DEF Resolve
<1>3. Merged(a, o, t) = Within(Merged(A, O, T), lo, hi)
  BY <1>2 DEF Merged, Within
<1>4. ASSUME NoClash(a, o, t, 0, MaxKey) PROVE NoClash(A, O, T, lo, hi)
  <2> SUFFICES ASSUME NEW k \in Keys, lo < k, k <= hi PROVE ~Clash(A[k], O[k], T[k])
    BY DEF NoClash
  <2>0. k \in Nat \ {0} /\ k <= MaxKey
    BY KeysAre
  <2>1. 0 < k /\ k <= MaxKey
    BY <2>0
  <2>2. ~Clash(a[k], o[k], t[k])
    BY <1>4, <2>1 DEF NoClash
  <2>3. a[k] = A[k] /\ o[k] = O[k] /\ t[k] = T[k]
    BY <1>1
  <2> QED BY <2>2, <2>3
<1> QED BY <1>3, <1>4 DEF a, o, t

\* A part is merged when all that comes before it has been.
LEMMA PartMerged ==
  ASSUME NEW a, NEW o, NEW t, NEW A, NEW O, NEW T, Three(a, o, t, A, O, T), NEW M, M = Merged(A, O, T),
         NEW x, PartOk(x, a, o, t, A, O, T),
         NEW st, Holds(st.ch, Span(M, 0, x.from), Ends(M)), NoClash(A, O, T, 0, x.from),
         NEW to, to = MergePart(st, x)
  PROVE  MergeOk(to, Span(M, 0, x.to), M, A, O, T, Ends(M), 0, x.to)
<1> DEFINE E == Ends(M)
           R == Span(M, 0, x.from)
<1>0. A \in Table /\ O \in Table /\ T \in Table /\ M \in Table
  BY MergedIs DEF Three
<1>1. x.from \in Nat /\ x.to \in Nat /\ x.from < x.to /\ x.to <= MaxKey
  BY DEF PartOk
<1>2. Span(M, 0, x.to) = R \cup Span(M, x.from, x.to)
  <2> DEFINE f == x.from
             h == x.to
  <2>1. f \in Nat /\ h \in Nat /\ f < h
    BY <1>1
  <2> HIDE DEF f, h
  <2>2. 0 \in Nat /\ 0 <= f /\ f <= h
    BY <2>1
  <2>3. Span(M, 0, h) = Span(M, 0, f) \cup Span(M, f, h)
    BY <1>0, <2>1, <2>2, SpanJoin
  <2> QED BY <2>3 DEF f, h
<1>3. \A r \in R, s \in Span(M, x.from, x.to) : r.key < s.key
  <2>1. \A r \in R : r.key \in Nat /\ r.key <= x.from
    BY <1>0, SpanIs
  <2>2. \A s \in Span(M, x.from, x.to) : s.key \in Nat /\ x.from < s.key
    BY <1>0, SpanIs
  <2> HIDE DEF R
  <2> TAKE r \in R, s \in Span(M, x.from, x.to)
  <2> DEFINE i == r.key
             j == s.key
             f == x.from
  <2>3. i \in Nat /\ i <= f /\ j \in Nat /\ f < j /\ f \in Nat
    BY <1>1, <2>1, <2>2
  <2> HIDE DEF i, j, f
  <2>4. i < j
    BY <2>3
  <2> QED BY <2>4 DEF i, j
<1>4. NoClash(A, O, T, x.from, x.to) => NoClash(A, O, T, 0, x.to)
  <2> SUFFICES ASSUME NoClash(A, O, T, x.from, x.to), NEW k \in Keys, k <= x.to PROVE ~Clash(A[k], O[k], T[k])
    BY DEF NoClash
  <2>0. k \in Nat \ {0}
    BY KeysAre
  <2>1. CASE k <= x.from
    <3>1. 0 < k
      BY <2>0
    <3> QED BY <2>1, <3>1 DEF NoClash
  <2>2. CASE ~(k <= x.from)
    <3>1. x.from < k
      BY <1>1, <2>0, <2>2
    <3> QED BY <3>1 DEF NoClash
  <2> QED BY <2>1, <2>2
<1> HIDE DEF R, E
<1>5. CASE ~st.ok \/ Full(st.ch)
  BY <1>5 DEF MergePart, MergeOk
<1>6. CASE st.ok /\ ~Full(st.ch) /\ Settled(x)
  <2> DEFINE whole == IF x.ours = x.anc THEN x.theirs ELSE x.ours
             l == whole.level + 1
             it == [key |-> x.to, child |-> whole]
             ch == IF Aligned(st.ch, l) THEN AddTo(st.ch, l, it) ELSE AddRows(st.ch, TableOf(whole))
  <2>1. to = [st EXCEPT !.ch = ch]
    BY <1>6 DEF MergePart
  <2>2. to.ch = ch \/ ~to.ok \/ Full(to.ch)
    <3> HIDE DEF ch
    <3> QED BY <2>1
  <2> HIDE DEF whole
  <2>3. /\ Rows(whole) = Span(M, x.from, x.to) /\ NoClash(A, O, T, x.from, x.to)
        /\ Whole(whole) /\ l \in Levels /\ whole.level \in Nat /\ LastKey(whole) = x.to /\ Tidy(whole, E)
    BY <1>6, SettledIs DEF whole, E
  <2>4. CASE Aligned(st.ch, l)
    <3>1. l # 0 /\ l - 1 = whole.level
      BY <2>3
    <3>2. it = Up(whole) /\ it.child = whole
      BY <2>3 DEF Up
    <3>3. Fits(l, it, E)
      BY <2>3, <3>1, <3>2 DEF Fits
    <3>4. ItemRows(l, it) = Rows(whole)
      BY <3>1, <3>2 DEF ItemRows
    <3>5. \A m \in Levels : m < l => st.ch.at[m] = <<>>
      <4> SUFFICES ASSUME NEW m \in Levels, m < l PROVE st.ch.at[m] = <<>>
        OBVIOUS
      <4>1. m \in Nat /\ l \in Nat
        BY <2>3, LevelsAre
      <4> HIDE DEF l
      <4>2. m \in 0..(l - 1)
        BY <4>1
      <4> QED BY <2>4, <4>2 DEF Aligned
    <3> HIDE DEF l, it
    <3>6. \A r \in R, s \in ItemRows(l, it) : r.key < s.key
      BY <1>3, <2>3, <3>4
    <3>7. Holds(st.ch, R, E)
      BY DEF R, E
    <3>8. Holds(AddTo(st.ch, l, it), R \cup ItemRows(l, it), E)
      BY <2>3, <3>3, <3>5, <3>6, <3>7, AddToHolds
    <3>9. ch = AddTo(st.ch, l, it)
      BY <2>4
    <3> HIDE DEF ch
    <3>10. to.ch = ch => Holds(to.ch, Span(M, 0, x.to), E)
      BY <1>2, <2>3, <3>4, <3>8, <3>9
    <3> QED BY <1>4, <2>2, <2>3, <3>10 DEF MergeOk, E
  <2>5. CASE ~Aligned(st.ch, l)
    <3>1. TableOf(whole) = Within(M, x.from, x.to)
      BY <1>0, <2>3, AsTableSpan DEF TableOf
    <3>2. Within(M, x.from, x.to) \in Table /\ Span(Within(M, x.from, x.to), 0, MaxKey) = Span(M, x.from, x.to)
      BY <1>0, WithinSpan
    <3>3. \A r \in R, k \in Has(Within(M, x.from, x.to)) : r.key < k
      <4>1. \A k \in Has(Within(M, x.from, x.to)) : k \in Has(M) /\ x.from < k /\ k <= x.to
        BY DEF Has, Within
      <4>2. \A k \in Has(Within(M, x.from, x.to)) : Row(k, M[k]) \in Span(M, x.from, x.to) /\ Row(k, M[k]).key = k
        BY <1>0, <4>1, SpanIs DEF Row
      <4> QED BY <1>3, <4>2
    <3>4. Holds(st.ch, R, E)
      BY DEF R, E
    <3>5. Holds(AddRows(st.ch, TableOf(whole)), R \cup Span(M, x.from, x.to), E)
      <4> DEFINE W == Within(M, x.from, x.to)
      <4>1. W \in Table /\ \A r \in R, k \in Has(W) : r.key < k
        BY <3>2, <3>3
      <4> HIDE DEF W
      <4>2. Holds(AddRows(st.ch, W), R \cup Span(W, 0, MaxKey), E)
        BY <3>4, <4>1, AddRowsHolds
      <4> QED BY <3>1, <3>2, <4>2 DEF W
    <3>6. ch = AddRows(st.ch, TableOf(whole))
      BY <2>5
    <3> HIDE DEF ch
    <3>7. to.ch = ch => Holds(to.ch, Span(M, 0, x.to), E)
      BY <1>2, <3>5, <3>6
    <3> QED BY <1>4, <2>2, <2>3, <3>7 DEF MergeOk, E
  <2> QED BY <2>4, <2>5
<1>7. CASE st.ok /\ ~Full(st.ch) /\ ~Settled(x) /\ ~OneLevel(x)
  BY <1>7 DEF MergePart, MergeOk
<1>8. CASE st.ok /\ ~Full(st.ch) /\ ~Settled(x) /\ OneLevel(x)
  <2> DEFINE W(U) == Within(U, x.from, x.to)
  <2>1. RowsFrom(x.anc, x.seek) = W(A) /\ RowsFrom(x.ours, x.seek) = W(O) /\ RowsFrom(x.theirs, x.seek) = W(T)
    BY <1>0, RowsFromIs DEF PartOk
  <2>2. to = MergeRows(st, W(A), W(O), W(T))
    BY <1>8, <2>1 DEF MergePart
  <2>3. /\ Merged(W(A), W(O), W(T)) = W(M)
        /\ NoClash(W(A), W(O), W(T), 0, MaxKey) => NoClash(A, O, T, x.from, x.to)
    BY <1>0, MergedWithin
  <2>4. W(A) \in Table /\ W(O) \in Table /\ W(T) \in Table /\ Span(W(M), 0, MaxKey) = Span(M, x.from, x.to)
    BY <1>0, WithinSpan
  <2>5. \A r \in R, k \in Has(W(M)) : r.key < k
    <3>1. \A k \in Has(W(M)) : k \in Has(M) /\ x.from < k /\ k <= x.to
      BY DEF Has, Within
    <3>2. \A k \in Has(W(M)) : Row(k, M[k]) \in Span(M, x.from, x.to) /\ Row(k, M[k]).key = k
      BY <1>0, <3>1, SpanIs DEF Row
    <3> QED BY <1>3, <3>2
  <2>6. Holds(st.ch, R, E)
    BY DEF R, E
  <2> HIDE DEF W
  <2>7. MergeOk(to, R \cup Span(W(M), 0, MaxKey), W(M), W(A), W(O), W(T), E, 0, MaxKey)
    BY <2>2, <2>3, <2>4, <2>5, <2>6, MergeRowsHold
  <2> QED BY <1>2, <1>4, <2>3, <2>4, <2>7 DEF MergeOk, E
<1> QED BY <1>5, <1>6, <1>7, <1>8

-----------------------------------------------------------------------------
(* Walking three inner nodes.                                              *)

IsSide(root, T, n, lo, hi) ==
  /\ T \in Table /\ Whole(n) /\ n.level \in Nat /\ Shaped(n) /\ Sorted(n) /\ n \in NodesOf(root)
  /\ root.level \in Nat /\ Whole(root) /\ Rows(n) = Span(T, lo, hi)
  /\ Len(n.items) \in Nat \ {0}
  /\ LastKey(n) = n.items[Len(n.items)].key
  /\ \A i, j \in 1..Len(n.items) : i < j => n.items[i].key < n.items[j].key
  /\ LastKey(n) \in Nat /\ LastKey(root) \in Nat /\ LastKey(n) <= LastKey(root)

LEMMA SideIs ==
  ASSUME NEW root, Good(root), NEW T, T = TableOf(root), NEW n, NEW lo \in Nat, NEW hi \in Nat,
         SideOk(root, T, n, lo, hi, 0), n.level > 0
  PROVE  IsSide(root, T, n, lo, hi)
<1>1. root.level \in Nat /\ Whole(root) /\ T \in Table
  BY GoodIs
<1>2. n \in NodesOf(root) /\ Rows(n) = Span(T, lo, hi)
  BY DEF SideOk
<1>3. Whole(n) /\ n.level \in Nat /\ Shaped(n) /\ Sorted(n)
  BY <1>1, <1>2, NodesIn
<1>4. LastKey(n) \in Nat /\ LastKey(n) <= LastKey(root) /\ LastKey(root) \in Nat
  BY <1>1, <1>2, RootIn, NodeIn
<1> QED BY <1>1, <1>2, <1>3, <1>4, ItemsAre DEF IsSide

ChildOk(root, T, n, c, f, h, lo, hi, last) ==
  /\ SideOk(root, T, c, f, h, 0)
  /\ f \in Nat /\ h \in Nat /\ lo <= f /\ f < h /\ h <= hi
  /\ LastKey(c) = h /\ c.level + 1 \in Levels
  /\ AtEdge(c, root) <=> (last /\ AtEdge(n, root))

\* the child under an item
LEMMA SideChild ==
  ASSUME NEW root, Good(root), NEW T, T = TableOf(root), NEW n, NEW lo \in Nat, NEW hi \in Nat,
         SideOk(root, T, n, lo, hi, 0), n.level > 0, NEW i \in 1..Len(n.items),
         NEW c, c = n.items[i].child
  PROVE  ChildOk(root, T, n, c, From(n, i, lo), n.items[i].key, lo, hi, i = Len(n.items))
<1>0. IsSide(root, T, n, lo, hi)
  BY SideIs
<1>1. /\ T \in Table /\ Whole(n) /\ n.level \in Nat /\ Shaped(n) /\ Sorted(n) /\ n \in NodesOf(root)
      /\ root.level \in Nat /\ Whole(root) /\ Rows(n) = Span(T, lo, hi)
      /\ Len(n.items) \in Nat \ {0} /\ LastKey(n) = n.items[Len(n.items)].key
      /\ LastKey(n) \in Nat /\ LastKey(root) \in Nat /\ LastKey(n) <= LastKey(root)
  BY <1>0 DEF IsSide
<1>2. \A j, k \in 1..Len(n.items) : j < k => n.items[j].key < n.items[k].key
  BY <1>0 DEF IsSide
<1>3. /\ RowsAt(n, i) = Span(T, From(n, i, lo), n.items[i].key)
      /\ From(n, i, lo) \in Nat /\ n.items[i].key \in Nat
      /\ lo <= From(n, i, lo) /\ From(n, i, lo) < n.items[i].key /\ n.items[i].key <= hi
  BY <1>1, ItemSpan
<1>4. c \in Children(n) /\ c.level = n.level - 1 /\ LastKey(c) = n.items[i].key
  BY <1>1, ChildrenAre
<1>5. c \in NodesOf(root)
  BY <1>1, <1>4, WholeChild, NodesIn
<1>6. RowsAt(n, i) = Rows(c)
  BY DEF RowsAt
<1>7. c.level + 1 \in Levels
  <2>1. n.level \in Levels
    BY <1>1, ItemsAre
  <2>2. c.level + 1 = n.level
    BY <1>1, <1>4
  <2> QED BY <2>1, <2>2
<1>8. AtEdge(c, root) <=> (i = Len(n.items) /\ AtEdge(n, root))
  <2>1. CASE i = Len(n.items)
    BY <1>1, <1>4, <2>1 DEF AtEdge
  <2>2. CASE i # Len(n.items)
    <3>1. Len(n.items) \in 1..Len(n.items) /\ i < Len(n.items)
      BY <1>1, <2>2
    <3>2. n.items[i].key < LastKey(n)
      BY <1>1, <1>2, <3>1
    <3> DEFINE p == n.items[i].key
               q == LastKey(n)
               r == LastKey(root)
    <3>3. p \in Nat /\ q \in Nat /\ r \in Nat /\ p < q /\ q <= r
      BY <1>1, <1>3, <3>2
    <3>4. LastKey(c) = p
      BY <1>4
    <3> HIDE DEF p, q, r
    <3>5. p # r
      BY <3>3
    <3> QED BY <2>2, <3>4, <3>5 DEF AtEdge, r
  <2> QED BY <2>1, <2>2
<1> QED BY <1>3, <1>4, <1>5, <1>6, <1>7, <1>8 DEF SideOk, ChildOk

RestOk(root, T, n, K, lo, hi, last) ==
  /\ K \in Nat \ {0} /\ lo <= K
  /\ SideOk(root, T, n, K, hi, K)
  /\ ~last => K < hi

\* the rows behind an item
LEMMA SideRest ==
  ASSUME NEW root, Good(root), NEW T, T = TableOf(root), NEW n, NEW lo \in Nat, NEW hi \in Nat,
         SideOk(root, T, n, lo, hi, 0), n.level > 0, NEW i \in 1..Len(n.items), NEW K, K = n.items[i].key
  PROVE  RestOk(root, T, n, K, lo, hi, i = Len(n.items))
<1>0. IsSide(root, T, n, lo, hi)
  BY SideIs
<1>1. /\ T \in Table /\ Whole(n) /\ n.level \in Nat /\ Shaped(n) /\ Sorted(n) /\ n \in NodesOf(root)
      /\ Rows(n) = Span(T, lo, hi) /\ Len(n.items) \in Nat \ {0}
  BY <1>0 DEF IsSide
<1>2. \A j, k \in 1..Len(n.items) : j < k => n.items[j].key < n.items[k].key
  BY <1>0 DEF IsSide
<1>3. \A j \in 1..Len(n.items) :
        /\ RowsAt(n, j) = Span(T, From(n, j, lo), n.items[j].key)
        /\ From(n, j, lo) \in Nat /\ n.items[j].key \in Nat
        /\ lo <= From(n, j, lo) /\ From(n, j, lo) < n.items[j].key /\ n.items[j].key <= hi
  BY <1>1, ItemSpan
<1>4. K \in Nat \ {0} /\ lo <= K /\ K <= hi
  <2> DEFINE f == From(n, i, lo)
  <2>1. f \in Nat /\ K \in Nat /\ lo <= f /\ f < K /\ K <= hi
    BY <1>3
  <2> HIDE DEF f
  <2> QED BY <2>1
<1>5. i # Len(n.items) => K < hi
  <2> SUFFICES ASSUME i # Len(n.items) PROVE K < hi
    OBVIOUS
  <2>1. i + 1 \in 1..Len(n.items) /\ i < i + 1
    BY <1>1
  <2> DEFINE q == n.items[i + 1].key
  <2>2. q \in Nat /\ K < q /\ q <= hi
    BY <1>2, <1>3, <2>1
  <2> HIDE DEF q
  <2> QED BY <1>4, <2>2
<1>6. K \in KeysOf(Rows(n))
  <2>1. n.level > 0 => \A c \in Children(n) : RowsOk(c)
    BY <1>1, WholeChild, RowsAre
  <2>2. K \in KeysOf(RowsAt(n, i))
    BY <1>1, <2>1, RowsAtAre
  <2>3. RowsAt(n, i) \subseteq Rows(n)
    BY <1>1, RowsByItem
  <2> QED BY <2>2, <2>3 DEF KeysOf
<1>7. After(n, K) = {r \in Rows(n) : r.key > K}
  BY <1>1, <1>6, AfterIs
<1>8. \A r \in Rows(n) : r.key \in Nat /\ r.key <= hi
  BY <1>1, SpanIs
<1>9. {r \in Span(T, lo, hi) : K < r.key /\ r.key <= hi} = Span(T, K, hi)
  <2>1. hi <= hi
    OBVIOUS
  <2> QED BY <1>1, <1>4, <2>1, SpanCut
<1>10. \A r \in Rows(n) : r.key > K <=> (K < r.key /\ r.key <= hi)
  BY <1>4, <1>8
<1>11. After(n, K) = Span(T, K, hi)
  BY <1>1, <1>7, <1>9, <1>10
<1> QED BY <1>1, <1>4, <1>5, <1>11 DEF SideOk, RestOk

\* there is no row behind the last item
LEMMA SideLast ==
  ASSUME NEW root, Good(root), NEW T, T = TableOf(root), NEW n, NEW lo \in Nat, NEW hi \in Nat,
         SideOk(root, T, n, lo, hi, 0), n.level > 0, NEW k \in Has(T), lo < k, k <= hi
  PROVE  k <= n.items[Len(n.items)].key
<1>0. IsSide(root, T, n, lo, hi)
  BY SideIs
<1>1. /\ T \in Table /\ Whole(n) /\ n.level \in Nat /\ Rows(n) = Span(T, lo, hi)
      /\ LastKey(n) = n.items[Len(n.items)].key
  BY <1>0 DEF IsSide
<1>2. Row(k, T[k]) \in Rows(n) /\ Row(k, T[k]).key = k
  BY <1>1, SpanIs DEF Row
<1>3. \A r \in Rows(n) : r.key <= LastKey(n)
  BY <1>1, RowsAre DEF RowsOk
<1> QED BY <1>1, <1>2, <1>3

Apart2(y, z) == y.to <= z.from \/ z.to <= y.from

\* the pieces of a part take its place
SplitOk(P, x, a, o, t, A, O, T) ==
  /\ \A y \in P : PartOk(y, a, o, t, A, O, T) /\ x.from <= y.from /\ y.to <= x.to
  /\ \A y, z \in P : y = z \/ Apart2(y, z)
  /\ \A k \in Has(A) \cup Has(O) \cup Has(T) : x.from < k /\ k <= x.to =>
       \E y \in P : y.from < k /\ k <= y.to

LEMMA WalkedIs ==
  ASSUME NEW x, Walked(x), Len(x.anc.items) \in Nat, DOMAIN x.anc.items = 1..Len(x.anc.items)
  PROVE  /\ Max(Walks(x)) \in 1..Len(x.anc.items)
         /\ \A j \in 1..Max(Walks(x)) : OneBound(x, j)
<1> DEFINE L == Len(x.anc.items)
<1>1. Walks(x) \subseteq 1..L /\ Walks(x) # {}
  BY DEF Walks, Walked
<1>2. Max(Walks(x)) \in Walks(x)
  BY <1>1, MaxIs
<1> QED BY <1>1, <1>2 DEF Walks

LEMMA SplitIs ==
  ASSUME NEW a, NEW o, NEW t, NEW A, NEW O, NEW T, Three(a, o, t, A, O, T),
         NEW x, PartOk(x, a, o, t, A, O, T)
  PROVE  SplitOk(Split(x), x, a, o, t, A, O, T)
<1>0. /\ Good(a) /\ A = TableOf(a) /\ Good(o) /\ O = TableOf(o) /\ Good(t) /\ T = TableOf(t)
      /\ A \in Table /\ O \in Table /\ T \in Table
  BY DEF Three
<1>00. x.from \in Nat /\ x.to \in Nat /\ x.from < x.to /\ x.to <= MaxKey
  BY DEF PartOk
<1>1. CASE ~Walked(x)
  <2>1. Split(x) = {x}
    BY <1>1 DEF Split
  <2>2. x.from <= x.from /\ x.to <= x.to
    BY <1>00
  <2> QED BY <2>1, <2>2 DEF SplitOk
<1>2. CASE Walked(x)
  <2> DEFINE n == Max(Walks(x))
             L == Len(x.anc.items)
             lo == x.from
             hi == x.to
             child(i) == Part(Bound(x, i - 1), Bound(x, i), 0, x.anc.items[i].child,
                              x.ours.items[i].child, x.theirs.items[i].child)
             rest == Part(Bound(x, n), x.to, Bound(x, n), x.anc, x.ours, x.theirs)
  <2>1. Split(x) = {child(i) : i \in 1..n} \cup (IF n = L THEN {} ELSE {rest})
    BY <1>2 DEF Split
  <2>2. /\ ~Settled(x) /\ x.seek = 0 /\ x.anc.level > 0 /\ x.ours.level > 0 /\ x.theirs.level > 0
        /\ Len(x.ours.items) = L /\ Len(x.theirs.items) = L
    BY <1>2 DEF Walked, OneLevel, OneLength
  <2>3. SideOk(a, A, x.anc, lo, hi, 0) /\ SideOk(o, O, x.ours, lo, hi, 0) /\ SideOk(t, T, x.theirs, lo, hi, 0)
    BY <2>2 DEF PartOk
  <2>4. /\ L \in Nat \ {0} /\ Shaped(x.anc) /\ Sorted(x.anc)
        /\ \A i, j \in 1..L : i < j => x.anc.items[i].key < x.anc.items[j].key
    <3>1. IsSide(a, A, x.anc, lo, hi)
      BY <1>0, <1>00, <2>2, <2>3, SideIs
    <3> QED BY <3>1 DEF IsSide
  <2>5. DOMAIN x.anc.items = 1..L
    BY <2>4, ItemsAre
  <2>6. n \in 1..L /\ \A j \in 1..n : OneBound(x, j)
    BY <1>2, <2>4, <2>5, WalkedIs
  <2> HIDE DEF n, L
  <2>7. \A i \in 1..n : i \in 1..L /\ x.ours.items[i].key = x.anc.items[i].key /\ x.theirs.items[i].key = x.anc.items[i].key
    BY <2>4, <2>6 DEF OneBound
  <2>8. \A i \in 1..n : i # 1 => i - 1 \in 1..n
    BY <2>6
  <2>9. \A i \in 1..n : /\ From(x.anc, i, lo) = Bound(x, i - 1) /\ From(x.ours, i, lo) = Bound(x, i - 1)
                        /\ From(x.theirs, i, lo) = Bound(x, i - 1) /\ Bound(x, i) = x.anc.items[i].key
    <3> TAKE i \in 1..n
    <3>0. i # 0 /\ (i # 1 => i - 1 # 0) /\ (i = 1 => i - 1 = 0)
      BY <2>6
    <3>1. Bound(x, i) = x.anc.items[i].key
      BY <3>0 DEF Bound
    <3>2. CASE i = 1
      BY <3>0, <3>1, <3>2 DEF From, Bound
    <3>3. CASE i # 1
      BY <2>7, <2>8, <3>0, <3>1, <3>3 DEF From, Bound
    <3> QED BY <3>2, <3>3
  <2>10. \A i \in 1..n : /\ child(i).from = Bound(x, i - 1) /\ child(i).to = Bound(x, i) /\ child(i).seek = 0
                         /\ child(i).anc = x.anc.items[i].child /\ child(i).ours = x.ours.items[i].child
                         /\ child(i).theirs = x.theirs.items[i].child
    BY DEF Part
  <2>12. /\ rest.from = Bound(x, n) /\ rest.seek = Bound(x, n) /\ rest.to = x.to
         /\ rest.anc = x.anc /\ rest.ours = x.ours /\ rest.theirs = x.theirs
    BY DEF Part
  <2> HIDE DEF child, rest
  <2>13. ASSUME NEW i \in 1..n PROVE PartOk(child(i), a, o, t, A, O, T) /\ lo <= child(i).from /\ child(i).to <= hi
    <3>0. i \in 1..L
      BY <2>7
    <3> DEFINE f == Bound(x, i - 1)
               h == Bound(x, i)
               ca == x.anc.items[i].child
               co == x.ours.items[i].child
               ct == x.theirs.items[i].child
    <3>1. From(x.anc, i, lo) = f /\ From(x.ours, i, lo) = f /\ From(x.theirs, i, lo) = f
          /\ x.anc.items[i].key = h /\ x.ours.items[i].key = h /\ x.theirs.items[i].key = h
      BY <2>7, <2>9
    <3>8. ca = x.anc.items[i].child /\ co = x.ours.items[i].child /\ ct = x.theirs.items[i].child
      OBVIOUS
    <3> HIDE DEF f, h, ca, co, ct
    <3>9. lo \in Nat /\ hi \in Nat /\ i \in 1..Len(x.anc.items) /\ i \in 1..Len(x.ours.items) /\ i \in 1..Len(x.theirs.items)
          /\ L = Len(x.anc.items)
      BY <1>00, <2>2, <3>0 DEF L
    <3> HIDE DEF lo, hi
    <3>2. ChildOk(a, A, x.anc, ca, f, h, lo, hi, i = L)
      <4>1. ChildOk(a, A, x.anc, ca, From(x.anc, i, lo), x.anc.items[i].key, lo, hi, i = Len(x.anc.items))
        BY <1>0, <2>2, <2>3, <3>8, <3>9, SideChild
      <4> QED BY <3>1, <3>9, <4>1
    <3>3. ChildOk(o, O, x.ours, co, f, h, lo, hi, i = L)
      <4>1. ChildOk(o, O, x.ours, co, From(x.ours, i, lo), x.ours.items[i].key, lo, hi, i = Len(x.ours.items))
        BY <1>0, <2>2, <2>3, <3>8, <3>9, SideChild
      <4> QED BY <2>2, <3>1, <4>1
    <3>4. ChildOk(t, T, x.theirs, ct, f, h, lo, hi, i = L)
      <4>1. ChildOk(t, T, x.theirs, ct, From(x.theirs, i, lo), x.theirs.items[i].key, lo, hi, i = Len(x.theirs.items))
        BY <1>0, <2>2, <2>3, <3>8, <3>9, SideChild
      <4> QED BY <2>2, <3>1, <4>1
    <3> USE DEF lo, hi
    <3>5. (AtEdge(x.anc, a) <=> AtEdge(x.ours, o)) /\ (AtEdge(x.anc, a) <=> AtEdge(x.theirs, t))
      BY DEF PartOk
    <3>6. /\ child(i).from = f /\ child(i).to = h /\ child(i).seek = 0
          /\ child(i).anc = ca /\ child(i).ours = co /\ child(i).theirs = ct
      BY <2>10 DEF f, h, ca, co, ct
    <3>7. h <= MaxKey
      <4>1. h \in Nat /\ h <= x.to /\ MaxKey \in Nat
        BY <3>2, KeysAre DEF ChildOk
      <4> DEFINE q == x.to
      <4>2. q \in Nat /\ h <= q /\ q <= MaxKey
        BY <1>00, <4>1
      <4> HIDE DEF q
      <4> QED BY <4>1, <4>2
    <3> QED BY <3>2, <3>3, <3>4, <3>5, <3>6, <3>7 DEF PartOk, SpliceOk, ChildOk
  <2>14. ASSUME n # L PROVE PartOk(rest, a, o, t, A, O, T) /\ lo <= rest.from /\ rest.to <= hi
    <3> DEFINE K == Bound(x, n)
    <3>0. n \in 1..L /\ n \in 1..n
      BY <2>4, <2>6
    <3>1. x.anc.items[n].key = K /\ x.ours.items[n].key = K /\ x.theirs.items[n].key = K
      BY <2>7, <2>9, <3>0
    <3> HIDE DEF K
    <3>9. lo \in Nat /\ hi \in Nat /\ n \in 1..Len(x.anc.items) /\ n \in 1..Len(x.ours.items) /\ n \in 1..Len(x.theirs.items)
          /\ n # Len(x.anc.items)
      BY <1>00, <2>2, <2>14, <3>0 DEF L
    <3> HIDE DEF lo, hi
    <3>2. RestOk(a, A, x.anc, K, lo, hi, n = Len(x.anc.items))
      BY <1>0, <2>2, <2>3, <3>1, <3>9, SideRest
    <3>3. RestOk(o, O, x.ours, K, lo, hi, n = Len(x.ours.items))
      BY <1>0, <2>2, <2>3, <3>1, <3>9, SideRest
    <3>4. RestOk(t, T, x.theirs, K, lo, hi, n = Len(x.theirs.items))
      BY <1>0, <2>2, <2>3, <3>1, <3>9, SideRest
    <3> USE DEF lo, hi
    <3>5. ~Settled(rest)
      BY <2>2, <2>12 DEF Settled
    <3>6. /\ rest.from = K /\ rest.to = hi /\ rest.seek = K
          /\ rest.anc = x.anc /\ rest.ours = x.ours /\ rest.theirs = x.theirs
      BY <2>12 DEF K
    <3>7. (AtEdge(x.anc, a) <=> AtEdge(x.ours, o)) /\ (AtEdge(x.anc, a) <=> AtEdge(x.theirs, t))
      BY DEF PartOk
    <3>8. hi <= hi
      BY <1>00
    <3> QED BY <1>00, <3>2, <3>3, <3>4, <3>5, <3>6, <3>7, <3>8, <3>9 DEF PartOk, RestOk
  <2>15. \A i, j \in 1..n : i < j => child(i).to <= child(j).from
    <3> TAKE i, j \in 1..n
    <3> HAVE i < j
    <3>1. j # 1 /\ j - 1 \in 1..n /\ j - 1 \in 1..L /\ i \in 1..L /\ (i = j - 1 \/ i < j - 1) /\ j - 1 # 0
      BY <2>4, <2>6
    <3>2. child(i).to = x.anc.items[i].key /\ child(j).from = x.anc.items[j - 1].key
      BY <2>9, <2>10, <3>1 DEF Bound
    <3>3. x.anc.items[i].key \in Nat /\ x.anc.items[j - 1].key \in Nat
      BY <2>4, <3>1, ItemsAre DEF L
    <3> QED BY <2>4, <3>1, <3>2, <3>3
  <2>16. ASSUME NEW i \in 1..n, n # L PROVE child(i).to <= rest.from
    <3>1. n \in 1..n /\ n \in 1..L /\ i \in 1..L /\ (i = n \/ i < n)
      BY <2>4, <2>6
    <3>2. child(i).to = x.anc.items[i].key /\ rest.from = x.anc.items[n].key
      BY <2>9, <2>10, <2>12, <3>1
    <3>3. x.anc.items[i].key \in Nat /\ x.anc.items[n].key \in Nat
      BY <2>4, <3>1, ItemsAre DEF L
    <3> QED BY <2>4, <3>1, <3>2, <3>3
  <2>17. ASSUME NEW k \in Has(A) \cup Has(O) \cup Has(T), lo < k, k <= hi
         PROVE  \E y \in Split(x) : y.from < k /\ k <= y.to
    <3>0. k \in Nat
      BY <1>0, TableHas
    <3>1. n \in 1..n /\ n \in 1..L
      BY <2>4, <2>6
    <3>2. CASE \E i \in 1..n : k <= x.anc.items[i].key
      <4> DEFINE I == {i \in 1..n : k <= x.anc.items[i].key}
      <4>1. I \in SUBSET Nat /\ I # {}
        BY <3>2
      <4>2. PICK i \in I : \A j \in I : i <= j
        BY <4>1, LeastNumber
      <4>3. i \in 1..n /\ k <= x.anc.items[i].key
        BY <4>2
      <4>4. Bound(x, i - 1) < k
        <5>1. CASE i = 1
          <6>1. i - 1 = 0
            BY <5>1
          <6> QED BY <2>17, <6>1 DEF Bound
        <5>2. CASE i # 1
          <6>1. i - 1 \in 1..n /\ ~(i <= i - 1) /\ i - 1 # 0
            BY <2>6, <4>3, <5>2
          <6>2. ~(k <= x.anc.items[i - 1].key)
            BY <4>2, <6>1
          <6>3. x.anc.items[i - 1].key \in Nat
            BY <2>4, <2>7, <6>1, ItemsAre DEF L
          <6>4. Bound(x, i - 1) = x.anc.items[i - 1].key
            BY <6>1 DEF Bound
          <6> QED BY <3>0, <6>2, <6>3, <6>4
        <5> QED BY <5>1, <5>2
      <4>5. child(i) \in Split(x) /\ child(i).from < k /\ k <= child(i).to
        BY <2>1, <2>9, <2>10, <4>3, <4>4
      <4> QED BY <4>5
    <3>3. CASE ~\E i \in 1..n : k <= x.anc.items[i].key
      <4>1. n # L
        <5> SUFFICES ASSUME n = L PROVE FALSE
          OBVIOUS
        <5>1. x.anc.items[L].key = x.ours.items[L].key /\ x.anc.items[L].key = x.theirs.items[L].key
          BY <2>7, <3>1
        <5>2. CASE k \in Has(A)
          <6>1. k <= x.anc.items[L].key
            BY <1>0, <1>00, <2>2, <2>3, <2>17, <5>2, SideLast DEF L
          <6> QED BY <3>1, <3>3, <6>1
        <5>3. CASE k \in Has(O)
          <6>1. k <= x.ours.items[L].key
            BY <1>0, <1>00, <2>2, <2>3, <2>17, <5>3, SideLast
          <6> QED BY <3>1, <3>3, <5>1, <6>1
        <5>4. CASE k \in Has(T)
          <6>1. k <= x.theirs.items[L].key
            BY <1>0, <1>00, <2>2, <2>3, <2>17, <5>4, SideLast
          <6> QED BY <3>1, <3>3, <5>1, <6>1
        <5> QED BY <5>2, <5>3, <5>4
      <4>2. ~(k <= x.anc.items[n].key) /\ x.anc.items[n].key \in Nat
        BY <2>4, <3>1, <3>3, ItemsAre DEF L
      <4>3. rest \in Split(x) /\ rest.from = x.anc.items[n].key /\ rest.to = hi
        BY <2>1, <2>9, <2>12, <3>1, <4>1
      <4>4. rest.from < k
        BY <3>0, <4>2, <4>3
      <4> QED BY <2>17, <4>3, <4>4
    <3> QED BY <3>2, <3>3
  <2>18. \A y \in Split(x) : (\E i \in 1..n : y = child(i)) \/ (y = rest /\ n # L)
    BY <2>1
  <2>19. \A y, z \in Split(x) : y = z \/ Apart2(y, z)
    <3> TAKE y, z \in Split(x)
    <3>1. CASE (\E i \in 1..n : y = child(i)) /\ (\E i \in 1..n : z = child(i))
      <4>1. PICK i \in 1..n, j \in 1..n : y = child(i) /\ z = child(j)
        BY <3>1
      <4>2. i = j \/ i < j \/ j < i
        BY <2>6
      <4> QED BY <2>15, <4>1, <4>2 DEF Apart2
    <3>2. CASE y = rest /\ n # L
      BY <2>16, <2>18, <3>2 DEF Apart2
    <3>3. CASE z = rest /\ n # L
      BY <2>16, <2>18, <3>3 DEF Apart2
    <3> QED BY <2>18, <3>1, <3>2, <3>3
  <2>20. \A y \in Split(x) : PartOk(y, a, o, t, A, O, T) /\ x.from <= y.from /\ y.to <= x.to
    BY <2>13, <2>14, <2>18
  <2> QED BY <2>17, <2>19, <2>20 DEF SplitOk
<1> QED BY <1>1, <1>2

-----------------------------------------------------------------------------
(* All parts of a merge.                                                   *)

PartsOk(P, a, o, t, A, O, T) ==
  /\ \A x \in P : PartOk(x, a, o, t, A, O, T)
  /\ \A x, y \in P : x = y \/ Apart2(x, y)
  /\ \A k \in Has(A) \cup Has(O) \cup Has(T) : \E x \in P : x.from < k /\ k <= x.to

LEMMA PartsStep ==
  ASSUME NEW a, NEW o, NEW t, NEW A, NEW O, NEW T, Three(a, o, t, A, O, T),
         NEW P, PartsOk(P, a, o, t, A, O, T), NEW Q, Q = UNION {Split(x) : x \in P}
  PROVE  PartsOk(Q, a, o, t, A, O, T)
<1>1. \A x \in P : SplitOk(Split(x), x, a, o, t, A, O, T)
  BY SplitIs DEF PartsOk
<1>2. \A y \in Q : PartOk(y, a, o, t, A, O, T)
  BY <1>1 DEF SplitOk
<1>3. ASSUME NEW y \in Q, NEW z \in Q PROVE y = z \/ Apart2(y, z)
  <2>1. PICK x \in P, w \in P : y \in Split(x) /\ z \in Split(w)
    OBVIOUS
  <2>2. CASE x = w
    BY <1>1, <2>1, <2>2 DEF SplitOk
  <2>3. CASE x # w
    <3>1. x.to <= w.from \/ w.to <= x.from
      BY <2>3 DEF PartsOk, Apart2
    <3>2. x.from <= y.from /\ y.to <= x.to /\ w.from <= z.from /\ z.to <= w.to
      BY <1>1, <2>1 DEF SplitOk
    <3> DEFINE yf == y.from
               yt == y.to
               zf == z.from
               zt == z.to
               xf == x.from
               xt == x.to
               wf == w.from
               wt == w.to
    <3>3. yf \in Nat /\ yt \in Nat /\ zf \in Nat /\ zt \in Nat
      BY <1>2 DEF PartOk
    <3>4. xf \in Nat /\ xt \in Nat /\ wf \in Nat /\ wt \in Nat
      BY DEF PartOk, PartsOk
    <3>5. (xt <= wf \/ wt <= xf) /\ xf <= yf /\ yt <= xt /\ wf <= zf /\ zt <= wt
      BY <3>1, <3>2
    <3> HIDE DEF yf, yt, zf, zt, xf, xt, wf, wt
    <3>6. yt <= zf \/ zt <= yf
      BY <3>3, <3>4, <3>5
    <3> QED BY <3>6 DEF Apart2, yf, yt, zf, zt
  <2> QED BY <2>2, <2>3
<1>4. ASSUME NEW k \in Has(A) \cup Has(O) \cup Has(T) PROVE \E y \in Q : y.from < k /\ k <= y.to
  <2>1. PICK x \in P : x.from < k /\ k <= x.to
    BY DEF PartsOk
  <2>2. PICK y \in Split(x) : y.from < k /\ k <= y.to
    BY <1>1, <2>1 DEF SplitOk
  <2> QED BY <2>2
<1> QED BY <1>2, <1>3, <1>4 DEF PartsOk

LEMMA PartsFirst ==
  ASSUME NEW a, NEW o, NEW t, NEW A, NEW O, NEW T, Three(a, o, t, A, O, T),
         o # t, o # a, t # a
  PROVE  PartsOk({Part(0, MaxKey, 0, a, o, t)}, a, o, t, A, O, T)
<1> DEFINE x == Part(0, MaxKey, 0, a, o, t)
<1>1. x.from = 0 /\ x.to = MaxKey /\ x.seek = 0 /\ x.anc = a /\ x.ours = o /\ x.theirs = t
  BY DEF Part
<1> HIDE DEF x
<1>2. /\ Rows(a) = Span(A, 0, MaxKey) /\ Rows(o) = Span(O, 0, MaxKey) /\ Rows(t) = Span(T, 0, MaxKey)
      /\ a \in NodesOf(a) /\ o \in NodesOf(o) /\ t \in NodesOf(t)
  BY GoodIs, RootIn DEF Three
<1>3. 0 \in Nat /\ MaxKey \in Nat /\ 0 < MaxKey
  <2>1. LastKey(a) \in Keys
    BY GoodIs, TableIs DEF Three
  <2> DEFINE l == LastKey(a)
  <2>2. l \in Nat \ {0} /\ l <= MaxKey /\ MaxKey \in Nat
    BY <2>1, KeysAre
  <2> HIDE DEF l
  <2> QED BY <2>2
<1>4. PartOk(x, a, o, t, A, O, T)
  BY <1>1, <1>2, <1>3 DEF PartOk, SideOk, AtEdge, Settled
<1>5. \A k \in Has(A) \cup Has(O) \cup Has(T) : 0 < k /\ k <= MaxKey
  <2>1. \A k \in Has(A) \cup Has(O) \cup Has(T) : k \in Keys
    BY TableHas DEF Three
  <2>2. \A k \in Keys : k \in Nat \ {0} /\ k <= MaxKey
    BY KeysAre
  <2>3. \A k \in Keys : 0 < k /\ k <= MaxKey
    BY <2>2
  <2> QED BY <2>1, <2>3
<1>6. PartsOk({x}, a, o, t, A, O, T)
  BY <1>1, <1>4, <1>5 DEF PartsOk
<1> QED BY <1>6 DEF x

\* the parts, level by level
IsParts(f, a, o, t, n) == f = [k \in 0..n |-> IF k = 0 THEN {Part(0, MaxKey, 0, a, o, t)} ELSE UNION {Split(x) : x \in f[k - 1]}]

LEMMA PartsExists == ASSUME NEW a, NEW o, NEW t PROVE \A n \in Nat : \E f : IsParts(f, a, o, t, n)
<1> DEFINE T == {n \in Nat : \E f : IsParts(f, a, o, t, n)}
<1>1. 0 \in T
  <2> DEFINE f == [k \in 0..0 |-> {Part(0, MaxKey, 0, a, o, t)}]
  <2>1. IsParts(f, a, o, t, 0)
    BY DEF IsParts
  <2> QED BY <2>1
<1>2. ASSUME NEW n \in Nat, n \in T PROVE n + 1 \in T
  <2>1. PICK f : IsParts(f, a, o, t, n)
    BY <1>2
  <2> DEFINE g == [k \in 0..(n + 1) |-> IF k = n + 1 THEN UNION {Split(x) : x \in f[n]} ELSE f[k]]
  <2>2. \A k \in 0..(n + 1) : g[k] = IF k = 0 THEN {Part(0, MaxKey, 0, a, o, t)} ELSE UNION {Split(x) : x \in g[k - 1]}
    <3> TAKE k \in 0..(n + 1)
    <3>1. CASE k = n + 1
      <4>1. k # 0 /\ k - 1 = n /\ k - 1 \in 0..(n + 1) /\ k - 1 # n + 1
        BY <3>1
      <4>2. g[k] = UNION {Split(x) : x \in f[n]} /\ g[k - 1] = f[n]
        BY <3>1, <4>1
      <4> QED BY <4>1, <4>2
    <3>2. CASE k # n + 1 /\ k # 0
      <4>1. k \in 0..n /\ k - 1 \in 0..(n + 1) /\ k - 1 # n + 1
        BY <3>2
      <4>2. g[k] = f[k] /\ g[k - 1] = f[k - 1]
        BY <3>2, <4>1
      <4>3. f[k] = UNION {Split(x) : x \in f[k - 1]}
        BY <2>1, <3>2, <4>1 DEF IsParts
      <4> QED BY <3>2, <4>2, <4>3
    <3>3. CASE k = 0
      <4>1. k \in 0..n /\ k # n + 1
        BY <3>3
      <4> QED BY <2>1, <3>3, <4>1 DEF IsParts
    <3> QED BY <3>1, <3>2, <3>3
  <2>3. g = [k \in 0..(n + 1) |-> g[k]]
    OBVIOUS
  <2> HIDE DEF g
  <2>4. IsParts(g, a, o, t, n + 1)
    BY <2>2, <2>3 DEF IsParts
  <2> QED BY <2>4
<1> HIDE DEF T
<1>3. Nat \subseteq T
  BY <1>1, <1>2, NumberInduction
<1> QED BY <1>3 DEF T

LEMMA PartsAre ==
  ASSUME NEW a, NEW o, NEW t, NEW A, NEW O, NEW T, Three(a, o, t, A, O, T),
         o # t, o # a, t # a
  PROVE  PartsOk(Parts(a, o, t), a, o, t, A, O, T)
<1>0. a.level \in Nat
  BY GoodIs DEF Three
<1> DEFINE f == CHOOSE f : IsParts(f, a, o, t, a.level)
<1>1. IsParts(f, a, o, t, a.level)
  BY <1>0, PartsExists
<1>2. Parts(a, o, t) = f[a.level]
  BY DEF Parts, IsParts
<1> HIDE DEF f
<1>3. \A k \in 0..a.level : f[k] = IF k = 0 THEN {Part(0, MaxKey, 0, a, o, t)} ELSE UNION {Split(x) : x \in f[k - 1]}
  BY <1>1 DEF IsParts
<1>31. 0 \in 0..a.level /\ \A k \in 1..a.level : k \in 0..a.level /\ k # 0
  BY <1>0
<1>32. f[0] = {Part(0, MaxKey, 0, a, o, t)}
  BY <1>3, <1>31
<1>33. \A k \in 1..a.level : f[k] = UNION {Split(x) : x \in f[k - 1]}
  BY <1>3, <1>31
<1> DEFINE Ok(k) == PartsOk(f[k], a, o, t, A, O, T)
           S == {k \in Nat : k <= a.level => Ok(k)}
<1>4. 0 \in S
  <2>2. Ok(0)
    BY <1>32, PartsFirst
  <2> HIDE DEF Ok
  <2> QED BY <2>2
<1>5. ASSUME NEW n \in Nat, n \in S PROVE n + 1 \in S
  <2> SUFFICES ASSUME n + 1 <= a.level PROVE Ok(n + 1)
    <3> HIDE DEF Ok
    <3> QED OBVIOUS
  <2>1. n + 1 \in 1..a.level /\ n + 1 - 1 = n /\ n <= a.level
    BY <1>0
  <2>2. Ok(n)
    <3> HIDE DEF Ok
    <3> QED BY <1>5, <2>1
  <2>3. f[n + 1] = UNION {Split(x) : x \in f[n]}
    BY <1>33, <2>1
  <2>4. \A P, Q : PartsOk(P, a, o, t, A, O, T) /\ Q = UNION {Split(x) : x \in P} => PartsOk(Q, a, o, t, A, O, T)
    BY PartsStep
  <2> QED BY <2>2, <2>3, <2>4
<1> HIDE DEF S
<1>6. Nat \subseteq S
  BY <1>4, <1>5, NumberInduction
<1> HIDE DEF Ok
<1>7. Ok(a.level)
  BY <1>0, <1>6 DEF S
<1> QED BY <1>2, <1>7 DEF Ok

-----------------------------------------------------------------------------
(* The parts are merged in the order of their keys.                        *)

\* the parts are merged one after the other
IsRun(f, P, n) == f = [k \in 0..n |-> MergeFrom(IF k = 0 THEN [ok |-> TRUE, ch |-> NoItems] ELSE f[k - 1], P, k)]

LEMMA RunExists == ASSUME NEW P PROVE \A n \in Nat : \E f : IsRun(f, P, n)
<1> DEFINE st == [ok |-> TRUE, ch |-> NoItems]
           M(s, k) == MergeFrom(s, P, k)
           Is(f, n) == f = [k \in 0..n |-> M(IF k = 0 THEN st ELSE f[k - 1], k)]
           T == {n \in Nat : \E f : Is(f, n)}
<1> HIDE DEF st, M
<1>1. 0 \in T
  <2> DEFINE f == [k \in 0..0 |-> M(st, k)]
  <2>1. \A k \in 0..0 : k = 0
    OBVIOUS
  <2>2. Is(f, 0)
    BY <2>1
  <2> QED BY <2>2
<1>2. ASSUME NEW n \in Nat, n \in T PROVE n + 1 \in T
  <2>1. PICK f : Is(f, n)
    BY <1>2
  <2> DEFINE g == [k \in 0..(n + 1) |-> IF k = n + 1 THEN M(f[n], k) ELSE f[k]]
  <2>2. \A k \in 0..(n + 1) : g[k] = M(IF k = 0 THEN st ELSE g[k - 1], k)
    <3> TAKE k \in 0..(n + 1)
    <3>1. CASE k = n + 1
      <4>1. k # 0 /\ k - 1 = n /\ k - 1 \in 0..(n + 1) /\ k - 1 # n + 1
        BY <3>1
      <4>2. g[k] = M(f[n], k) /\ g[k - 1] = f[n]
        BY <3>1, <4>1
      <4> QED BY <4>1, <4>2
    <3>2. CASE k # n + 1 /\ k # 0
      <4>1. k \in 0..n /\ k - 1 \in 0..(n + 1) /\ k - 1 # n + 1
        BY <3>2
      <4>2. g[k] = f[k] /\ g[k - 1] = f[k - 1]
        BY <3>2, <4>1
      <4>3. f[k] = M(f[k - 1], k)
        BY <2>1, <3>2, <4>1
      <4> QED BY <3>2, <4>2, <4>3
    <3>3. CASE k = 0
      <4>1. k \in 0..n /\ k # n + 1
        BY <3>3
      <4> QED BY <2>1, <3>3, <4>1
    <3> QED BY <3>1, <3>2, <3>3
  <2>3. g = [k \in 0..(n + 1) |-> g[k]]
    OBVIOUS
  <2> HIDE DEF g
  <2>4. Is(g, n + 1)
    BY <2>2, <2>3
  <2> QED BY <2>4
<1> HIDE DEF T
<1>3. Nat \subseteq T
  BY <1>1, <1>2, NumberInduction
<1> QED BY <1>3 DEF T, st, M, IsRun

LEMMA RunIs ==
  ASSUME NEW P
  PROVE  \E f : /\ MergeParts(P) = f[MaxKey]
                /\ f[0] = MergeFrom([ok |-> TRUE, ch |-> NoItems], P, 0)
                /\ \A k \in 1..MaxKey : f[k] = MergeFrom(f[k - 1], P, k)
<1> DEFINE f == CHOOSE f : IsRun(f, P, MaxKey)
<1>0. MaxKey \in Nat
  BY KeysAre
<1>1. IsRun(f, P, MaxKey)
  BY <1>0, RunExists
<1>2. MergeParts(P) = f[MaxKey]
  BY DEF MergeParts, IsRun
<1> HIDE DEF f
<1>3. \A k \in 0..MaxKey : f[k] = MergeFrom(IF k = 0 THEN [ok |-> TRUE, ch |-> NoItems] ELSE f[k - 1], P, k)
  BY <1>1 DEF IsRun
<1>4. 0 \in 0..MaxKey /\ \A k \in 1..MaxKey : k \in 0..MaxKey /\ k # 0
  BY <1>0
<1>5. f[0] = MergeFrom([ok |-> TRUE, ch |-> NoItems], P, 0)
  BY <1>3, <1>4
<1>6. \A k \in 1..MaxKey : f[k] = MergeFrom(f[k - 1], P, k)
  BY <1>3, <1>4
<1> QED BY <1>2, <1>5, <1>6

\* all parts that begin before k are merged, and nothing else
ComeTo(st, P, k, A, O, T, M) ==
  \/ ~st.ok
  \/ Full(st.ch)
  \/ \E c \in Nat : /\ c <= MaxKey /\ Holds(st.ch, Span(M, 0, c), Ends(M)) /\ NoClash(A, O, T, 0, c)
                    /\ \A x \in P : IF x.from < k THEN x.to <= c ELSE c <= x.from

\* between two parts there is nothing to merge
LEMMA GapIs ==
  ASSUME NEW a, NEW o, NEW t, NEW A, NEW O, NEW T, Three(a, o, t, A, O, T), NEW M, M = Merged(A, O, T),
         NEW P, PartsOk(P, a, o, t, A, O, T), NEW c \in Nat, NEW d \in Nat, c <= d,
         NoClash(A, O, T, 0, c), \A x \in P : x.to <= c \/ d <= x.from
  PROVE  Span(M, 0, d) = Span(M, 0, c) /\ NoClash(A, O, T, 0, d)
<1>0. A \in Table /\ O \in Table /\ T \in Table /\ M \in Table
  BY MergedIs DEF Three
<1>1. ASSUME NEW k \in Has(A) \cup Has(O) \cup Has(T), c < k, k <= d PROVE FALSE
  <2>1. PICK x \in P : x.from < k /\ k <= x.to
    BY DEF PartsOk
  <2>2. x.to <= c \/ d <= x.from
    OBVIOUS
  <2>3. k \in Nat
    BY <1>0, TableHas
  <2> DEFINE f == x.from
             h == x.to
  <2>4. f \in Nat /\ h \in Nat
    BY DEF PartsOk, PartOk
  <2>5. f < k /\ k <= h /\ (h <= c \/ d <= f)
    BY <2>1, <2>2
  <2> HIDE DEF f, h
  <2> QED BY <1>1, <2>3, <2>4, <2>5
<1>2. \A k \in Keys : c < k /\ k <= d => A[k] = Absent /\ O[k] = Absent /\ T[k] = Absent
  BY <1>1 DEF Has
<1>3. \A k \in Keys : M[k] = IF O[k] = A[k] THEN T[k] ELSE O[k]
  BY <1>0, MergedIs
<1>4. \A k \in Has(M) : ~(c < k /\ k <= d)
  BY <1>2, <1>3 DEF Has
<1>5. Span(M, c, d) = {}
  BY <1>0, <1>4, SpanNone
<1>6. Span(M, 0, d) = Span(M, 0, c) \cup Span(M, c, d)
  <2>1. 0 \in Nat /\ 0 <= c
    OBVIOUS
  <2> QED BY <1>0, <2>1, SpanJoin
<1>7. NoClash(A, O, T, 0, d)
  <2> SUFFICES ASSUME NEW k \in Keys, 0 < k, k <= d PROVE ~Clash(A[k], O[k], T[k])
    BY DEF NoClash
  <2>1. k \in Nat
    BY KeysAre
  <2>2. CASE k <= c
    BY <2>2 DEF NoClash
  <2>3. CASE ~(k <= c)
    <3>1. c < k
      BY <2>1, <2>3
    <3> QED BY <1>2, <3>1 DEF Clash
  <2> QED BY <2>2, <2>3
<1> QED BY <1>5, <1>6, <1>7

LEMMA RunStep ==
  ASSUME NEW a, NEW o, NEW t, NEW A, NEW O, NEW T, Three(a, o, t, A, O, T), NEW M, M = Merged(A, O, T),
         NEW P, PartsOk(P, a, o, t, A, O, T), NEW k \in Nat,
         NEW st, ComeTo(st, P, k, A, O, T, M), NEW to, to = MergeFrom(st, P, k)
  PROVE  ComeTo(to, P, k + 1, A, O, T, M)
<1>0. \A x \in P : x.from \in Nat /\ x.to \in Nat /\ x.from < x.to /\ x.to <= MaxKey
  BY DEF PartsOk, PartOk
<1>1. CASE ~st.ok \/ Full(st.ch)
  <2>1. to = st
    BY <1>1 DEF MergeFrom, MergePart
  <2> QED BY <1>1, <2>1 DEF ComeTo
<1>2. CASE st.ok /\ ~Full(st.ch)
  <2>1. PICK c \in Nat : /\ c <= MaxKey /\ Holds(st.ch, Span(M, 0, c), Ends(M)) /\ NoClash(A, O, T, 0, c)
                         /\ \A x \in P : IF x.from < k THEN x.to <= c ELSE c <= x.from
    BY <1>2 DEF ComeTo
  <2>2. CASE ~\E x \in P : x.from = k
    <3>1. to = st
      BY <2>2 DEF MergeFrom
    <3>2. \A x \in P : x.from < k + 1 <=> x.from < k
      BY <1>0, <2>2
    <3> QED BY <2>1, <3>1, <3>2 DEF ComeTo
  <2>3. CASE \E x \in P : x.from = k
    <3> DEFINE x == CHOOSE x \in P : x.from = k
    <3>1. x \in P /\ x.from = k
      BY <2>3
    <3>2. to = MergePart(st, x)
      BY <2>3 DEF MergeFrom
    <3> HIDE DEF x
    <3> DEFINE h == x.to
    <3>3. h \in Nat /\ k < h /\ h <= MaxKey /\ PartOk(x, a, o, t, A, O, T)
      BY <1>0, <3>1 DEF PartsOk
    <3> HIDE DEF h
    <3>4. c <= k
      BY <2>1, <3>1
    <3>5. \A y \in P : y.to <= c \/ k <= y.from
      BY <1>0, <2>1
    <3>6. Span(M, 0, k) = Span(M, 0, c) /\ NoClash(A, O, T, 0, k)
      BY <2>1, <3>4, <3>5, GapIs
    <3>7. Holds(st.ch, Span(M, 0, x.from), Ends(M)) /\ NoClash(A, O, T, 0, x.from)
      BY <2>1, <3>1, <3>6
    <3>8. MergeOk(to, Span(M, 0, h), M, A, O, T, Ends(M), 0, h)
      BY <3>2, <3>3, <3>7, PartMerged DEF h
    <3>9. \A y \in P : IF y.from < k + 1 THEN y.to <= h ELSE h <= y.from
      <4> TAKE y \in P
      <4>1. CASE y = x
        <5>1. y.from = k /\ y.to = h
          BY <3>1, <4>1 DEF h
        <5>2. k < k + 1 /\ h <= h
          BY <3>3
        <5> QED BY <5>1, <5>2
      <4>2. CASE y # x
        <5>1. h <= y.from \/ y.to <= k
          BY <3>1, <4>2 DEF PartsOk, Apart2, h
        <5> DEFINE yf == y.from
                   yt == y.to
        <5>2. yf \in Nat /\ yt \in Nat /\ yf < yt /\ (h <= yf \/ yt <= k)
          BY <1>0, <5>1
        <5> HIDE DEF yf, yt
        <5>3. IF yf < k + 1 THEN yt <= h ELSE h <= yf
          BY <3>3, <5>2
        <5> QED BY <5>3 DEF yf, yt
      <4> QED BY <4>1, <4>2
    <3>10. CASE ~to.ok \/ Full(to.ch)
      BY <3>10 DEF ComeTo
    <3>11. CASE to.ok /\ ~Full(to.ch)
      <4>1. Holds(to.ch, Span(M, 0, h), Ends(M)) /\ NoClash(A, O, T, 0, h)
        BY <3>8, <3>11 DEF MergeOk
      <4> QED BY <3>3, <3>9, <4>1 DEF ComeTo
    <3> QED BY <3>10, <3>11
  <2> QED BY <2>2, <2>3
<1> QED BY <1>1, <1>2

LEMMA FullFails == ASSUME NEW ch, Full(ch) PROVE Finish(ch) = Failed
<1>1. PICK f : /\ f[0] = ch /\ \A k \in 1..Depth : f[k] = Close(f[k - 1], k - 1)
               /\ Finish(ch) = IF Full(f[Depth]) THEN Failed
                               ELSE IF f[Depth] = NoItems THEN Empty
                               ELSE LET top == CHOOSE l \in Levels : f[Depth].at[l] # <<>>
                                    IN Node(top, f[Depth].at[top])
  BY FinishIs
<1> DEFINE S == {k \in Nat : k <= Depth => f[k] = ch}
<1>2. Depth \in Nat
  BY LevelsAre
<1>3. 0 \in S
  BY <1>1
<1>4. ASSUME NEW n \in Nat, n \in S PROVE n + 1 \in S
  <2> SUFFICES ASSUME n + 1 <= Depth PROVE f[n + 1] = ch
    OBVIOUS
  <2>1. n + 1 \in 1..Depth /\ n + 1 - 1 = n /\ f[n] = ch
    BY <1>2, <1>4
  <2>2. f[n + 1] = Close(ch, n)
    BY <1>1, <2>1
  <2> QED BY <2>2 DEF Close
<1> HIDE DEF S
<1>5. Nat \subseteq S
  BY <1>3, <1>4, NumberInduction
<1>6. f[Depth] = ch
  BY <1>2, <1>5 DEF S
<1> QED BY <1>1, <1>6

LEMMA RunEnds ==
  ASSUME NEW a, NEW o, NEW t, NEW A, NEW O, NEW T, Three(a, o, t, A, O, T), NEW M, M = Merged(A, O, T),
         NEW P, PartsOk(P, a, o, t, A, O, T), NEW end, end = MergeParts(P), end.ok
  PROVE  Finish(end.ch) = Failed \/ (IsTree(Finish(end.ch), M) /\ NoClash(A, O, T, 0, MaxKey))
<1>0. MaxKey \in Nat /\ M \in Table
  BY KeysAre, MergedIs DEF Three
<1>1. PICK f : /\ MergeParts(P) = f[MaxKey]
               /\ f[0] = MergeFrom([ok |-> TRUE, ch |-> NoItems], P, 0)
               /\ \A k \in 1..MaxKey : f[k] = MergeFrom(f[k - 1], P, k)
  BY RunIs
<1> DEFINE Ok(k) == ComeTo(f[k], P, k + 1, A, O, T, M)
           S == {k \in Nat : k <= MaxKey => Ok(k)}
<1>2. 0 \in S
  <2> DEFINE st == [ok |-> TRUE, ch |-> NoItems]
  <2>1. st.ch = NoItems
    OBVIOUS
  <2>2. Span(M, 0, 0) = {}
    <3>1. \A k \in Has(M) : k \in Nat
      BY <1>0, TableHas
    <3>2. \A k \in Has(M) : ~(0 < k /\ k <= 0)
      BY <3>1
    <3> QED BY <1>0, <3>2, SpanNone
  <2>3. NoClash(A, O, T, 0, 0)
    <3>1. \A k \in Keys : k \in Nat
      BY KeysAre
    <3>2. \A k \in Keys : ~(0 < k /\ k <= 0)
      BY <3>1
    <3> QED BY <3>2 DEF NoClash
  <2>4. Holds(st.ch, Span(M, 0, 0), Ends(M))
    BY <2>1, <2>2, NothingHeld
  <2>5. \A x \in P : IF x.from < 0 THEN x.to <= 0 ELSE 0 <= x.from
    <3>1. \A x \in P : x.from \in Nat
      BY DEF PartsOk, PartOk
    <3> QED BY <3>1
  <2>6. 0 \in Nat /\ 0 <= MaxKey /\ 0 + 1 = 1
    BY <1>0
  <2> HIDE DEF st
  <2>7. ComeTo(st, P, 0, A, O, T, M)
    BY <2>3, <2>4, <2>5, <2>6 DEF ComeTo
  <2>8. ComeTo(f[0], P, 0 + 1, A, O, T, M)
    BY <1>1, <2>6, <2>7, RunStep DEF st
  <2> HIDE DEF Ok
  <2> QED BY <2>8 DEF Ok
<1>3. ASSUME NEW n \in Nat, n \in S PROVE n + 1 \in S
  <2> SUFFICES ASSUME n + 1 <= MaxKey PROVE Ok(n + 1)
    <3> HIDE DEF Ok
    <3> QED OBVIOUS
  <2> DEFINE k == n + 1
  <2>1. k \in 1..MaxKey /\ k - 1 = n /\ n <= MaxKey /\ k \in Nat
    BY <1>0
  <2>2. Ok(n)
    <3> HIDE DEF Ok
    <3> QED BY <1>3, <2>1
  <2>3. f[k] = MergeFrom(f[n], P, k)
    BY <1>1, <2>1
  <2>4. ComeTo(f[n], P, k, A, O, T, M)
    BY <2>2
  <2> HIDE DEF k
  <2>5. ComeTo(f[k], P, k + 1, A, O, T, M)
    BY <2>1, <2>3, <2>4, RunStep
  <2> QED BY <2>5 DEF k
<1> HIDE DEF S
<1>4. Nat \subseteq S
  BY <1>2, <1>3, NumberInduction
<1> HIDE DEF Ok
<1>5. Ok(MaxKey)
  BY <1>0, <1>4 DEF S
<1>6. ComeTo(end, P, MaxKey + 1, A, O, T, M)
  BY <1>1, <1>5 DEF Ok
<1>7. CASE Full(end.ch)
  <2>1. Holds(end.ch, Span(M, 0, MaxKey), Ends(M))
    BY <1>7 DEF Holds
  <2>2. Finish(end.ch) = Failed
    BY <1>7, FullFails
  <2> QED BY <2>2
<1>8. CASE ~Full(end.ch)
  <2>1. PICK c \in Nat : /\ c <= MaxKey /\ Holds(end.ch, Span(M, 0, c), Ends(M)) /\ NoClash(A, O, T, 0, c)
                         /\ \A x \in P : IF x.from < MaxKey + 1 THEN x.to <= c ELSE c <= x.from
    BY <1>6, <1>8 DEF ComeTo
  <2>2. \A x \in P : x.to <= c
    <3>1. \A x \in P : x.from \in Nat /\ x.to \in Nat /\ x.from < x.to /\ x.to <= MaxKey
      BY DEF PartsOk, PartOk
    <3>2. \A x \in P : x.from < MaxKey + 1
      BY <1>0, <3>1
    <3> QED BY <2>1, <3>2
  <2>3. Span(M, 0, MaxKey) = Span(M, 0, c) /\ NoClash(A, O, T, 0, MaxKey)
    BY <1>0, <2>1, <2>2, GapIs
  <2>4. Holds(end.ch, Span(M, 0, MaxKey), Ends(M))
    BY <2>1, <2>3
  <2> QED BY <1>0, <2>3, <2>4, TreeFrom
<1> QED BY <1>7, <1>8

-----------------------------------------------------------------------------
(* The merge of three trees.                                               *)

Clashes(A, O, T) == {k \in Keys : O[k] # A[k] /\ T[k] # A[k] /\ O[k] # T[k]}

\* A merge that is handled has found no clash.
LEMMA FastIs ==
  ASSUME NEW a, NEW A \in Table, IsTree(a, A), NEW o, NEW O \in Table, IsTree(o, O),
         NEW t, NEW T \in Table, IsTree(t, T), NEW M, M = Merged(A, O, T),
         NEW fast, fast = FastMerge(a, o, t), fast.handled
  PROVE  fast.root = Failed \/ (IsTree(fast.root, M) /\ Clashes(A, O, T) = {})
<1>0. TableOf(a) = A /\ TableOf(o) = O /\ TableOf(t) = T
  BY TreeIs
<1>1. M \in Table /\ M = [k \in Keys |-> M[k]] /\ \A k \in Keys : M[k] = IF O[k] = A[k] THEN T[k] ELSE O[k]
  BY MergedIs DEF Table
<1>2. A = [k \in Keys |-> A[k]] /\ O = [k \in Keys |-> O[k]] /\ T = [k \in Keys |-> T[k]]
  BY TableHas
<1>3. \A r : Handled(r).root = r /\ Handled(r).handled = TRUE /\ NotHandled.handled = FALSE
  BY DEF Handled, NotHandled
<1>4. CASE o = t
  <2>1. fast = Handled(o)
    BY <1>4 DEF FastMerge
  <2>2. O = T
    BY <1>0, <1>4
  <2>3. M = O
    BY <1>1, <1>2, <2>2
  <2> QED BY <1>3, <2>1, <2>2, <2>3 DEF Clashes
<1>5. CASE o # t /\ o = a
  <2>1. fast = Handled(t)
    BY <1>5 DEF FastMerge
  <2>2. O = A
    BY <1>0, <1>5
  <2>3. M = T
    BY <1>1, <1>2, <2>2
  <2> QED BY <1>3, <2>1, <2>2, <2>3 DEF Clashes
<1>6. CASE o # t /\ o # a /\ t = a
  <2>1. fast = Handled(o)
    BY <1>6 DEF FastMerge
  <2>2. T = A
    BY <1>0, <1>6
  <2>3. M = O
    BY <1>1, <1>2, <2>2
  <2> QED BY <1>3, <2>1, <2>2, <2>3 DEF Clashes
<1>7. CASE o # t /\ o # a /\ t # a
  <2> DEFINE P == Parts(a, o, t)
             end == MergeParts(P)
  <2>1. /\ Empty \notin {a, o, t}
        /\ fast = IF end.ok THEN Handled(Finish(end.ch)) ELSE NotHandled
    <3>1. fast = IF Empty \in {a, o, t} THEN NotHandled
                 ELSE IF o.level # a.level \/ t.level # a.level THEN NotHandled
                 ELSE IF end.ok THEN Handled(Finish(end.ch)) ELSE NotHandled
      BY <1>7 DEF FastMerge
    <3> HIDE DEF end
    <3> QED BY <1>3, <3>1
  <2> HIDE DEF end, P
  <2>2. fast = Handled(Finish(end.ch)) /\ end.ok
    BY <1>3, <2>1
  <2>3. Three(a, o, t, A, O, T)
    <3>1. a # Empty /\ o # Empty /\ t # Empty
      BY <2>1
    <3>2. Good(a) /\ Good(o) /\ Good(t)
      BY <3>1 DEF IsTree
    <3> QED BY <1>0, <3>2 DEF Three
  <2>4. PartsOk(P, a, o, t, A, O, T)
    BY <1>7, <2>3, PartsAre DEF P
  <2>5. Finish(end.ch) = Failed \/ (IsTree(Finish(end.ch), M) /\ NoClash(A, O, T, 0, MaxKey))
    BY <2>2, <2>3, <2>4, RunEnds DEF end
  <2>6. NoClash(A, O, T, 0, MaxKey) => Clashes(A, O, T) = {}
    <3>1. \A k \in Keys : k \in Nat \ {0} /\ k <= MaxKey
      BY KeysAre
    <3>2. \A k \in Keys : 0 < k /\ k <= MaxKey
      BY <3>1
    <3> QED BY <3>2 DEF NoClash, Clash, Clashes
  <2> QED BY <1>3, <2>2, <2>5, <2>6
<1> QED BY <1>4, <1>5, <1>6, <1>7

LEMMA SlowIs ==
  ASSUME NEW a, NEW A \in Table, IsTree(a, A), NEW o, NEW O \in Table, IsTree(o, O),
         NEW t, NEW T \in Table, IsTree(t, T), NEW M, M = Merged(A, O, T),
         NEW slow, slow = SlowMerge(a, o, t)
  PROVE  /\ slow.root = Failed \/ IsTree(slow.root, M)
         /\ slow.conflicts = Clashes(A, O, T)
<1>0. TableOf(a) = A /\ TableOf(o) = O /\ TableOf(t) = T
  BY TreeIs
<1>1. M \in Table /\ M = [k \in Keys |-> M[k]] /\ \A k \in Keys : M[k] = IF O[k] = A[k] THEN T[k] ELSE O[k]
  BY MergedIs DEF Table
<1> DEFINE only == Changed(a, t) \ Changed(a, o)
           both == Changed(a, t) \cap Changed(a, o)
           edits == [k \in only |-> TableOf(t)[k]]
<1>2. slow = [root |-> Flush(o, edits), conflicts |-> {k \in both : TableOf(o)[k] # TableOf(t)[k]}]
  BY DEF SlowMerge
<1>3. /\ only = {k \in Keys : A[k] # T[k] /\ A[k] = O[k]}
      /\ both = {k \in Keys : A[k] # T[k] /\ A[k] # O[k]}
  BY <1>0 DEF Changed
<1>4. slow.conflicts = Clashes(A, O, T)
  BY <1>0, <1>2, <1>3 DEF Clashes
<1>5. DOMAIN edits = only /\ only \subseteq Keys /\ \A k \in only : edits[k] = T[k]
  BY <1>0, <1>3
<1>6. slow.root = Flush(o, edits)
  BY <1>2
<1> HIDE DEF edits, only
<1>7. IsBatch(edits)
  BY <1>5, TableHas DEF IsBatch
<1>8. Flush(o, edits) = Failed \/ IsTree(Flush(o, edits), Edited(O, edits))
  BY <1>7, FlushIs
<1>9. Edited(O, edits) = M
  <2>1. Edited(O, edits) = [k \in Keys |-> IF k \in DOMAIN edits THEN edits[k] ELSE O[k]]
    BY DEF Edited
  <2>2. \A k \in Keys : (IF k \in DOMAIN edits THEN edits[k] ELSE O[k]) = M[k]
    BY <1>1, <1>3, <1>5
  <2>3. Edited(O, edits) = [k \in Keys |-> M[k]]
    BY <2>1, <2>2
  <2> QED BY <1>1, <2>3
<1> QED BY <1>4, <1>6, <1>8, <1>9

LEMMA MergeIs ==
  ASSUME NEW a, NEW A \in Table, IsTree(a, A), NEW o, NEW O \in Table, IsTree(o, O),
         NEW t, NEW T \in Table, IsTree(t, T), NEW M, M = Merged(A, O, T),
         NEW result, result = MergeTables(a, o, t), result.root # Failed
  PROVE  IsTree(result.root, M) /\ result.conflicts = Clashes(A, O, T)
<1> DEFINE fast == FastMerge(a, o, t)
<1>1. CASE fast.handled
  <2>1. result.root = fast.root /\ result.conflicts = {}
    BY <1>1 DEF MergeTables
  <2>2. fast.root = Failed \/ (IsTree(fast.root, M) /\ Clashes(A, O, T) = {})
    <3> HIDE DEF fast
    <3>1. fast = FastMerge(a, o, t)
      BY DEF fast
    <3> QED BY <1>1, <3>1, FastIs
  <2> QED BY <2>1, <2>2
<1>2. CASE ~fast.handled
  <2>1. result = SlowMerge(a, o, t)
    BY <1>2 DEF MergeTables
  <2> QED BY <2>1, SlowIs
<1> QED BY <1>1, <1>2

-----------------------------------------------------------------------------
(* The specification.                                                      *)

\* where the nodes are cut does not change
LEMMA TreeStays ==
  ASSUME NEW root, NEW T, ends' = ends
  PROVE  /\ IsTree(root, T)' <=> IsTree(root, T)
         /\ Good(root)' <=> Good(root)
<1>1. \A l, items : Splits(l, items)' <=> Splits(l, items)
  BY DEF Splits
<1>2. \A n, E : Cut(n, E)' <=> Cut(n, E)
  BY <1>1 DEF Cut
<1>3. \A n, E : Tidy(n, E)' <=> Tidy(n, E)
  BY <1>2 DEF Tidy
<1>4. Good(root)' <=> Good(root)
  BY <1>3 DEF Good
<1>5. Uncut(root)' <=> Uncut(root)
  BY <1>1 DEF Uncut
<1> QED BY <1>4, <1>5 DEF IsTree

TreesOk ==
  /\ ends \in Hashes
  /\ written \in [Versions -> Table] /\ DOMAIN tree = Versions
  /\ \A v \in Versions : IsTree(tree[v], written[v])
  /\ stage \in {"base", "anc", "ours", "theirs", "merged"}

LEMMA BatchIs ==
  ASSUME NEW v \in Versions, NEW edits \in Edits(v)
  PROVE  IsBatch(edits)
<1>1. PICK n \in 0..Batch[v] : \E S \in kSubset(n, Keys) : edits \in [S -> Vals \cup {Absent}]
  BY DEF Edits
<1>2. PICK S \in kSubset(n, Keys) : edits \in [S -> Vals \cup {Absent}]
  BY <1>1
<1>3. S \subseteq Keys
  BY DEF kSubset
<1> QED BY <1>2, <1>3 DEF IsBatch

LEMMA TreesInit == ASSUME Init PROVE TreesOk
<1>1. PICK base \in Bases : /\ tree = [v \in Versions |-> Build(base)]
                            /\ written = [v \in Versions |-> base]
  BY DEF Init
<1>2. ends \in Hashes /\ stage = "base" /\ tree.anc # Failed /\ "anc" \in Versions
  BY DEF Init, Versions
<1>3. base \in Table
  BY ProllyTreeAssumption
<1>4. Build(base) # Failed
  BY <1>1, <1>2
<1>5. IsTree(Build(base), base)
  BY <1>3, <1>4, BuildIs
<1> QED BY <1>1, <1>2, <1>3, <1>5 DEF TreesOk

\* one transaction reaches the trees of some versions
LEMMA WriteKeeps ==
  ASSUME TreesOk, ends' = ends, NEW vs \in SUBSET Versions, NEW edits, IsBatch(edits), Write(vs, edits)
  PROVE  /\ written' \in [Versions -> Table] /\ DOMAIN tree' = Versions
         /\ \A v \in Versions : IsTree(tree[v], written[v])'
<1>1. CASE \E v \in vs : Flush(tree[v], edits) = Failed
  <2>1. tree' = tree /\ written' = written
    BY <1>1 DEF Write
  <2> QED BY <2>1, TreeStays DEF TreesOk
<1>2. CASE ~\E v \in vs : Flush(tree[v], edits) = Failed
  <2>1. /\ tree' = [v \in Versions |-> IF v \in vs THEN Flush(tree[v], edits) ELSE tree[v]]
        /\ written' = [v \in Versions |-> IF v \in vs THEN Edited(written[v], edits) ELSE written[v]]
    BY <1>2 DEF Write
  <2>2. \A v \in Versions : written[v] \in Table /\ IsTree(tree[v], written[v])
    BY DEF TreesOk
  <2>3. \A v \in Versions : Edited(written[v], edits) \in Table
    BY <2>2, EditedIs
  <2>4. ASSUME NEW v \in Versions PROVE IsTree(tree[v], written[v])'
    <3>1. CASE v \in vs
      <4>1. Flush(tree[v], edits) # Failed
        BY <1>2, <3>1
      <4>2. IsTree(Flush(tree[v], edits), Edited(written[v], edits))
        BY <2>2, <4>1, FlushIs
      <4>3. PICK r, T : r = Flush(tree[v], edits) /\ T = Edited(written[v], edits)
        OBVIOUS
      <4>4. IsTree(r, T)'
        BY <4>2, <4>3, TreeStays
      <4>5. tree'[v] = r /\ written'[v] = T
        BY <2>1, <3>1, <4>3
      <4> QED BY <4>4, <4>5
    <3>2. CASE v \notin vs
      <4>1. tree'[v] = tree[v] /\ written'[v] = written[v]
        BY <2>1, <3>2
      <4>2. PICK r, T : r = tree[v] /\ T = written[v]
        OBVIOUS
      <4>3. IsTree(r, T)'
        BY <2>2, <4>2, TreeStays
      <4> QED BY <4>1, <4>2, <4>3
    <3> QED BY <3>1, <3>2
  <2> QED BY <2>1, <2>2, <2>3, <2>4
<1> QED BY <1>1, <1>2

LEMMA TreesStep == ASSUME TreesOk, [Next]_vars PROVE TreesOk'
<1>0. "anc" \in Versions /\ "ours" \in Versions /\ "theirs" \in Versions
  BY DEF Versions
<1>1. CASE UNCHANGED vars
  BY <1>1, TreeStays DEF TreesOk, vars
<1>2. CASE WriteAncestor
  <2>1. PICK edits \in Edits("anc") : Write(Versions, edits)
    BY <1>2 DEF WriteAncestor
  <2>2. ends' = ends /\ stage' = "anc"
    BY <1>2 DEF WriteAncestor
  <2>3. IsBatch(edits)
    BY <1>0, BatchIs
  <2> QED BY <2>1, <2>2, <2>3, WriteKeeps DEF TreesOk
<1>3. CASE WriteOurs
  <2>1. PICK edits \in Edits("ours") : Write({"ours"}, edits)
    BY <1>3 DEF WriteOurs
  <2>2. ends' = ends /\ stage' = "ours"
    BY <1>3 DEF WriteOurs
  <2>3. IsBatch(edits) /\ {"ours"} \in SUBSET Versions
    BY <1>0, BatchIs
  <2> QED BY <2>1, <2>2, <2>3, WriteKeeps DEF TreesOk
<1>4. CASE WriteTheirs
  <2>1. PICK edits \in Edits("theirs") : Write({"theirs"}, edits)
    BY <1>4 DEF WriteTheirs
  <2>2. ends' = ends /\ stage' = "theirs"
    BY <1>4 DEF WriteTheirs
  <2>3. IsBatch(edits) /\ {"theirs"} \in SUBSET Versions
    BY <1>0, BatchIs
  <2> QED BY <2>1, <2>2, <2>3, WriteKeeps DEF TreesOk
<1>5. CASE MergeTheirs
  <2>1. ends' = ends /\ tree' = tree /\ written' = written /\ stage' \in {stage, "merged"}
    BY <1>5 DEF MergeTheirs
  <2> QED BY <2>1, TreeStays DEF TreesOk
<1> QED BY <1>1, <1>2, <1>3, <1>4, <1>5 DEF Next

\* what the merge was given and what it gave
MergeOkNow ==
  /\ full \in BOOLEAN
  /\ stage # "merged" => merged = NotMerged
  /\ stage = "merged" =>
       /\ IsTree(merged.root, Merged(written["anc"], written["ours"], written["theirs"]))
       /\ merged.conflicts = Clashes(written["anc"], written["ours"], written["theirs"])

IInv == TreesOk /\ MergeOkNow

LEMMA IInvInit == ASSUME Init PROVE IInv
<1>1. stage = "base" /\ merged = NotMerged /\ full = FALSE
  BY DEF Init
<1> QED BY <1>1, TreesInit DEF IInv, MergeOkNow

LEMMA MergeStep ==
  ASSUME IInv, MergeTheirs
  PROVE  MergeOkNow'
<1>0. "anc" \in Versions /\ "ours" \in Versions /\ "theirs" \in Versions
  BY DEF Versions
<1> DEFINE A == written["anc"]
           O == written["ours"]
           T == written["theirs"]
           M == Merged(A, O, T)
           result == MergeTables(tree.anc, tree.ours, tree.theirs)
<1>1. /\ A \in Table /\ IsTree(tree.anc, A) /\ O \in Table /\ IsTree(tree.ours, O)
      /\ T \in Table /\ IsTree(tree.theirs, T)
  BY <1>0 DEF IInv, TreesOk
<1>2. ends' = ends /\ written' = written /\ stage = "theirs" /\ full \in BOOLEAN /\ merged = NotMerged
  BY DEF MergeTheirs, IInv, MergeOkNow
<1>3. CASE result.root = Failed
  <2>1. full' = TRUE /\ stage' = stage /\ merged' = merged
    BY <1>3 DEF MergeTheirs
  <2> QED BY <1>2, <2>1 DEF MergeOkNow
<1>4. CASE result.root # Failed
  <2>1. stage' = "merged" /\ merged' = result /\ full' = full
    BY <1>4 DEF MergeTheirs
  <2> HIDE DEF A, O, T, M, result
  <2>2. result = MergeTables(tree.anc, tree.ours, tree.theirs) /\ M = Merged(A, O, T)
    BY DEF result, M
  <2>3. IsTree(result.root, M) /\ result.conflicts = Clashes(A, O, T)
    BY <1>1, <1>4, <2>2, MergeIs
  <2>4. PICK r, U : r = result.root /\ U = M
    OBVIOUS
  <2>5. IsTree(r, U)'
    BY <1>2, <2>3, <2>4, TreeStays
  <2>6. merged'.root = r /\ merged'.conflicts = Clashes(A, O, T)
    BY <2>1, <2>3, <2>4
  <2>7. U = Merged(written'["anc"], written'["ours"], written'["theirs"])
        /\ Clashes(A, O, T) = Clashes(written'["anc"], written'["ours"], written'["theirs"])
    BY <1>2, <2>4 DEF A, O, T, M
  <2> QED BY <1>2, <2>1, <2>5, <2>6, <2>7 DEF MergeOkNow
<1> QED BY <1>3, <1>4

LEMMA IInvStep == ASSUME IInv, [Next]_vars PROVE IInv'
<1>1. TreesOk'
  BY TreesStep DEF IInv
<1>2. CASE UNCHANGED vars
  <2>1. ends' = ends /\ written' = written /\ stage' = stage /\ merged' = merged /\ full' = full
    BY <1>2 DEF vars
  <2>2. PICK r, U : r = merged.root /\ U = Merged(written["anc"], written["ours"], written["theirs"])
    OBVIOUS
  <2>3. IsTree(r, U)' <=> IsTree(r, U)
    BY <2>1, TreeStays
  <2>4. MergeOkNow'
    BY <2>1, <2>2, <2>3 DEF IInv, MergeOkNow
  <2> QED BY <1>1, <2>4 DEF IInv
<1>3. CASE WriteAncestor \/ WriteOurs \/ WriteTheirs
  <2>1. merged' = merged /\ stage # "merged" /\ stage' # "merged" /\ full' \in {full, TRUE}
    BY <1>3 DEF WriteAncestor, WriteOurs, WriteTheirs, Write
  <2> QED BY <1>1, <2>1 DEF IInv, MergeOkNow
<1>4. CASE MergeTheirs
  BY <1>1, <1>4, MergeStep DEF IInv
<1> QED BY <1>1, <1>2, <1>3, <1>4 DEF IInv, Next

LEMMA TreesAre ==
  ASSUME TreesOk
  PROVE  /\ \A v \in Versions : written[v] \in Table /\ IsTree(tree[v], written[v])
         /\ stage # "merged" => Newest \in Versions
BY DEF TreesOk, Newest, Versions

\* a cursor sought for a key stands at the first row from it on
LEMMA SeekFirst ==
  ASSUME NEW root, NEW T \in Table, IsTree(root, T), NEW k \in Keys,
         NEW later, later = {j \in Keys : j >= k /\ T[j] # Absent}, later # {}
  PROVE  KeysOf(Seek(root, k)) = later
<1>1. PICK j \in later : TRUE
  OBVIOUS
<1>2. j \in Has(T) /\ j >= k /\ k \in Nat /\ j \in Nat
  BY <1>1, KeysAre DEF Has
<1>3. root # Empty /\ Good(root) /\ TableOf(root) = T /\ Rows(root) = Span(T, 0, MaxKey)
  BY <1>2, TreeIs
<1>4. root.level \in Nat /\ Whole(root)
  BY <1>3, GoodIs
<1>5. LastKey(root) \in Keys /\ j <= LastKey(root)
  BY <1>2, <1>3, <1>4, TableIs
<1>6. k <= LastKey(root)
  <2> DEFINE l == LastKey(root)
  <2>1. l \in Nat /\ j <= l
    BY <1>5, KeysAre
  <2> HIDE DEF l
  <2>2. k <= l
    BY <1>2, <2>1
  <2> QED BY <2>2 DEF l
<1>7. Seek(root, k) = {r \in Rows(root) : r.key >= k}
  BY <1>2, <1>4, <1>6, SeekIs
<1>8. KeysOf(Rows(root)) = Has(T)
  BY <1>3, <1>4, TableIs
<1>9. KeysOf(Seek(root, k)) = {i \in Has(T) : i >= k}
  BY <1>7, <1>8 DEF KeysOf
<1> QED BY <1>9 DEF Has

LEMMA TreesHold == ASSUME TreesOk PROVE HoldsWritten
<1> SUFFICES ASSUME stage # "merged"
             PROVE  /\ TableOf(tree[Newest]) = written[Newest]
                    /\ \A k \in Keys :
                         LET later == {j \in Keys : j >= k /\ written[Newest][j] # Absent}
                         IN later # {} => Min(KeysOf(Seek(tree[Newest], k))) = Min(later)
  BY DEF HoldsWritten
<1>1. written[Newest] \in Table /\ IsTree(tree[Newest], written[Newest])
  BY TreesAre
<1> QED BY <1>1, TreeIs, SeekFirst

LEMMA TreesDiffer == ASSUME TreesOk PROVE DiffIsComplete
<1>1. \A v, w \in Versions : Agrees(v, w)
  BY TreesAre, DiffIs DEF Agrees
<1> QED BY <1>1, TreesAre DEF DiffIsComplete

LEMMA MergedExact == ASSUME IInv PROVE MergeIsExact
<1> SUFFICES ASSUME stage = "merged"
             PROVE  LET a == written.anc
                        o == written.ours
                        t == written.theirs
                    IN /\ merged.conflicts = {k \in Keys : o[k] # a[k] /\ t[k] # a[k] /\ o[k] # t[k]}
                       /\ TableOf(merged.root) = [k \in Keys |-> IF o[k] = a[k] THEN t[k] ELSE o[k]]
  BY DEF MergeIsExact
<1>0. "anc" \in Versions /\ "ours" \in Versions /\ "theirs" \in Versions
  BY DEF Versions
<1>1. written["anc"] \in Table /\ written["ours"] \in Table /\ written["theirs"] \in Table
  BY <1>0 DEF IInv, TreesOk
<1>2. /\ IsTree(merged.root, Merged(written["anc"], written["ours"], written["theirs"]))
      /\ merged.conflicts = Clashes(written["anc"], written["ours"], written["theirs"])
  BY DEF IInv, MergeOkNow
<1>3. TableOf(merged.root) = Merged(written["anc"], written["ours"], written["theirs"])
  BY <1>1, <1>2, MergedIs, TreeIs
<1> QED BY <1>2, <1>3 DEF Merged, Resolve, Clashes

LEMMA WellFormedIs == ASSUME NEW root, NEW T \in Table, IsTree(root, T) PROVE root = Empty \/ WellFormed(root)
<1>1. CASE root # Empty
  <2>1. Good(root)
    BY <1>1 DEF IsTree
  <2>2. root.level \in Levels /\ Whole(root)
    BY <2>1, GoodIs
  <2> QED BY <2>2 DEF WellFormed, Whole
<1> QED BY <1>1

LEMMA TypesHold == ASSUME IInv PROVE TypeOK
<1>0. "anc" \in Versions /\ "ours" \in Versions /\ "theirs" \in Versions
  BY DEF Versions
<1>1. ASSUME NEW root \in Roots PROVE root = Empty \/ WellFormed(root)
  <2>1. CASE stage = "merged"
    <3>1. root = merged.root /\ IsTree(merged.root, Merged(written["anc"], written["ours"], written["theirs"]))
      BY <2>1 DEF Roots, IInv, MergeOkNow
    <3>2. written["anc"] \in Table /\ written["ours"] \in Table /\ written["theirs"] \in Table
      BY <1>0 DEF IInv, TreesOk
    <3> QED BY <3>1, <3>2, MergedIs, WellFormedIs
  <2>2. CASE stage # "merged"
    <3>1. Newest \in Versions /\ root = tree[Newest]
      BY <2>2, TreesAre DEF Roots, IInv
    <3> QED BY <3>1, TreesAre, WellFormedIs DEF IInv
  <2> QED BY <2>1, <2>2
<1>2. merged.conflicts \subseteq Keys
  BY DEF IInv, MergeOkNow, NotMerged, Clashes
<1> QED BY <1>1, <1>2 DEF IInv, TreesOk, MergeOkNow, TypeOK

LEMMA Invariant == Spec => []IInv
<1>1. Init => IInv
  BY IInvInit
<1>2. IInv /\ [Next]_vars => IInv'
  BY IInvStep
<1> QED BY <1>1, <1>2, PTL DEF Spec

\* Every node of every tree is sorted, its children are one level below it and
\* have the rows its items' keys say, and the levels fit a cursor
\* (prollyChunkerAdd, prollyChunkerFinish, streamingMerge).
THEOREM TreesAreWellFormed == Spec => []TypeOK
<1>1. IInv => TypeOK
  BY TypesHold
<1> QED BY <1>1, Invariant, PTL

\* The tree of each version has the rows that were written, and a cursor finds
\* the first of them from any key on, next to what a batch did not read as well
\* (streamingMerge, prollyCursorSeekBlob).
THEOREM TreesHoldWritten == Spec => []HoldsWritten
<1>1. IInv => HoldsWritten
  BY TreesHold DEF IInv
<1> QED BY <1>1, Invariant, PTL

\* A comparison of two versions tells every row that differs and no other,
\* wherever it leaves the nodes for the rows (prollyDiffIterStep).
THEOREM DiffsAreComplete == Spec => []DiffIsComplete
<1>1. IInv => DiffIsComplete
  BY TreesDiffer DEF IInv
<1> QED BY <1>1, Invariant, PTL

\* A merge is the merge of the rows, whichever way it took and wherever the
\* three trees are cut (prollyThreeWayMergeFast, mergeTableRows).
THEOREM MergesAreExact == Spec => []MergeIsExact
<1>1. IInv => MergeIsExact
  BY MergedExact
<1> QED BY <1>1, Invariant, PTL

-----------------------------------------------------------------------------
(* The rows alone say where a tree is cut.                                 *)

\* E has no key that a later one of the table follows
Final(T, E) == \A e \in E, k \in Has(T) : k <= e

\* the node has the rows of the table from lo on
Runs(n, T, lo) == Rows(n) = Span(T, lo, LastKey(n))

LEMMA TidyChild ==
  ASSUME NEW n, NEW E, Tidy(n, E), NEW c \in Children(n)
  PROVE  Tidy(c, E) /\ c.level = n.level - 1 /\ n.level > 0 /\ NodesOf(c) \subseteq NodesOf(n)
<1>1. n.level \in Nat /\ Whole(n) /\ n.level \in Levels
  BY TidyIs
<1>2. Whole(c) /\ c.level \in Nat /\ c.level = n.level - 1 /\ NodesOf(c) \subseteq NodesOf(n) /\ n.level > 0
  BY <1>1, WholeChild
<1>3. c.level \in Levels
  BY <1>1, <1>2, LevelsAre
<1> QED BY <1>2, <1>3 DEF Tidy

\* the row or the child that comes next in two nodes of one table
LEMMA SameItem ==
  ASSUME NEW T \in Table, NEW lo \in Nat, NEW x, NEW y, NEW E, Tidy(x, E), Tidy(y, E), x.level = y.level,
         Runs(x, T, lo), Runs(y, T, lo), NEW i \in 1..Len(x.items), i \in 1..Len(y.items),
         From(x, i, lo) = From(y, i, lo),
         x.level > 0 => \A from \in Nat :
           LET c == x.items[i].child
               d == y.items[i].child
           IN Tidy(c, E) /\ Tidy(d, E) /\ c.level = d.level /\ Runs(c, T, from) /\ Runs(d, T, from) => c = d
  PROVE  x.items[i] = y.items[i]
<1> DEFINE from == From(x, i, lo)
<1>1. /\ x.level \in Nat /\ Whole(x) /\ Shaped(x) /\ Sorted(x) /\ RowsOk(x)
      /\ y.level \in Nat /\ Whole(y) /\ Shaped(y) /\ Sorted(y) /\ RowsOk(y)
  BY TidyIs
<1>2. LastKey(x) \in Nat /\ LastKey(y) \in Nat
  BY <1>1, TableIs, KeysAre
<1>3. RowsAt(x, i) = Span(T, from, x.items[i].key) /\ from \in Nat /\ from < x.items[i].key /\ x.items[i].key \in Nat
  BY <1>1, <1>2, ItemSpan DEF Runs
<1>4. RowsAt(y, i) = Span(T, from, y.items[i].key) /\ from < y.items[i].key /\ y.items[i].key \in Nat
  BY <1>1, <1>2, ItemSpan DEF Runs
<1> HIDE DEF from
<1>5. CASE x.level = 0
  <2> DEFINE r == x.items[i]
             s == y.items[i]
  <2>1. {r} = Span(T, from, r.key) /\ {s} = Span(T, from, s.key)
    BY <1>3, <1>4, <1>5 DEF RowsAt
  <2>2. r.key \in Has(T) /\ s.key \in Has(T) /\ r = Row(r.key, T[r.key]) /\ s = Row(s.key, T[s.key])
    BY <2>1, SpanIs
  <2>3. r.key <= s.key => r \in Span(T, from, s.key)
    BY <1>3, <2>2, SpanIs
  <2>4. s.key <= r.key => s \in Span(T, from, r.key)
    BY <1>4, <2>2, SpanIs
  <2>5. r.key <= s.key \/ s.key <= r.key
    BY <1>3, <1>4
  <2> QED BY <2>1, <2>3, <2>4, <2>5
<1>6. CASE x.level > 0
  <2> DEFINE c == x.items[i].child
             d == y.items[i].child
  <2>1. /\ c \in Children(x) /\ x.items[i] = Up(c) /\ x.items[i].key = LastKey(c)
        /\ d \in Children(y) /\ y.items[i] = Up(d) /\ y.items[i].key = LastKey(d)
    BY <1>1, <1>6, ChildrenAre
  <2>2. Tidy(c, E) /\ Tidy(d, E) /\ c.level = d.level
    BY <2>1, TidyChild
  <2>3. Rows(c) = RowsAt(x, i) /\ Rows(d) = RowsAt(y, i)
    BY <1>6 DEF RowsAt
  <2>4. Runs(c, T, from) /\ Runs(d, T, from)
    BY <1>3, <1>4, <2>1, <2>3 DEF Runs
  <2>5. c = d
    BY <1>3, <1>6, <2>2, <2>4
  <2> QED BY <2>1, <2>5
<1> QED BY <1>1, <1>5, <1>6

\* neither of two nodes that begin alike ends before the other
LEMMA NotShorter ==
  ASSUME NEW T \in Table, NEW lo \in Nat, NEW x, NEW y, NEW E, Final(T, E), Tidy(x, E), Tidy(y, E),
         x.level = y.level, Runs(y, T, lo), Len(x.items) <= Len(y.items),
         \A i \in 1..Len(x.items) : x.items[i] = y.items[i]
  PROVE  x = y
<1> DEFINE a == Len(x.items)
           b == Len(y.items)
<1>1. /\ x.level \in Nat /\ Whole(x) /\ Shaped(x) /\ Sorted(x)
      /\ y.level \in Nat /\ Whole(y) /\ Shaped(y) /\ Sorted(y) /\ RowsOk(y)
  BY TidyIs
<1>2. /\ a \in Nat \ {0} /\ b \in Nat \ {0} /\ DOMAIN x.items = 1..a /\ DOMAIN y.items = 1..b
      /\ LastKey(x) = x.items[a].key /\ LastKey(y) = y.items[b].key
      /\ \A i, j \in 1..b : i < j => y.items[i].key < y.items[j].key
      /\ \A i \in 1..b : y.items[i].key \in Nat
  BY <1>1, ItemsAre
<1>3. x = Node(x.level, x.items) /\ y = Node(y.level, y.items) /\ x.items \in Seq(Range(x.items)) /\ y.items \in Seq(Range(y.items))
  BY <1>1 DEF Shaped
<1>4. x.items = [j \in 1..a |-> x.items[j]] /\ y.items = [j \in 1..b |-> y.items[j]]
  BY <1>2, <1>3
<1>5. CASE a = b
  <2>1. x.items = y.items
    BY <1>4, <1>5
  <2> QED BY <1>3, <2>1
<1>6. CASE a < b
  <2>1. x.items = Prefix(y.items, a)
    BY <1>4, <1>2 DEF Prefix
  <2>2. y \in NodesOf(y) /\ x \in NodesOf(x)
    BY <1>1, RootIn
  <2>3. Cut(x, E) /\ Cut(y, E)
    BY <2>2 DEF Tidy
  <2>4. a \in 1..b /\ a # b /\ b \in 1..b
    BY <1>2, <1>6
  <2>5. ~Splits(y.level, Prefix(y.items, a))
    BY <2>3, <2>4 DEF Cut
  <2>6. LastKey(x) \in E
    BY <2>1, <2>3, <2>5 DEF Cut
  <2>7. LastKey(x) < LastKey(y) /\ LastKey(x) \in Nat /\ LastKey(y) \in Nat
    <3>1. x.items[a] = y.items[a]
      BY <1>2
    <3> HIDE DEF a, b
    <3> QED BY <1>2, <1>6, <2>4, <3>1
  <2>8. PICK r \in Rows(y) : r.key = LastKey(y)
    BY <1>1 DEF RowsOk, KeysOf
  <2>9. LastKey(y) \in Has(T)
    BY <2>8, SpanIs DEF Runs
  <2> QED BY <2>6, <2>7, <2>9 DEF Final
<1> HIDE DEF a, b
<1> QED BY <1>2, <1>5, <1>6 DEF a, b

\* Two nodes of one level that begin with one row of a table are the same.
LEMMA SameNode ==
  ASSUME NEW T \in Table, NEW E, Final(T, E), NEW n, Tidy(n, E),
         NEW m, Tidy(m, E), m.level = n.level, NEW lo \in Nat, Runs(n, T, lo), Runs(m, T, lo)
  PROVE  n = m
<1> DEFINE S == {x \in NodesOf(n) : \A y, from : Tidy(x, E) /\ Tidy(y, E) /\ x.level = y.level /\ from \in Nat
                                                 /\ Runs(x, T, from) /\ Runs(y, T, from) => x = y}
<1>1. n.level \in Nat /\ Whole(n) /\ n \in NodesOf(n)
  BY TidyIs, RootIn
<1>2. ASSUME NEW x \in NodesOf(n), Whole(x), x.level \in Nat, Children(x) \subseteq S PROVE x \in S
  <2> SUFFICES ASSUME NEW y, NEW from, Tidy(x, E), Tidy(y, E), x.level = y.level, from \in Nat,
                      Runs(x, T, from), Runs(y, T, from)
               PROVE  x = y
    OBVIOUS
  <2> DEFINE a == Len(x.items)
             b == Len(y.items)
             I == {i \in Nat : i + 1 \in 1..a /\ i + 1 \in 1..b => x.items[i + 1] = y.items[i + 1]}
  <2>1. /\ Shaped(x) /\ Sorted(x) /\ Shaped(y) /\ Sorted(y)
        /\ a \in Nat \ {0} /\ b \in Nat \ {0}
    BY TidyIs, ItemsAre
  <2>2. ASSUME NEW i \in 1..a, i \in 1..b, From(x, i, from) = From(y, i, from) PROVE x.items[i] = y.items[i]
    <3>1. ASSUME x.level > 0, NEW lo2 \in Nat, Tidy(x.items[i].child, E), Tidy(y.items[i].child, E),
                 x.items[i].child.level = y.items[i].child.level,
                 Runs(x.items[i].child, T, lo2), Runs(y.items[i].child, T, lo2)
          PROVE  x.items[i].child = y.items[i].child
      <4>1. x.items[i].child \in Children(x)
        BY <2>1, <3>1, ChildrenAre
      <4> QED BY <1>2, <3>1, <4>1
    <3> QED BY <2>2, <3>1, SameItem
  <2>3. 0 \in I
    <3>1. From(x, 1, from) = From(y, 1, from)
      BY DEF From
    <3> QED BY <2>2, <3>1
  <2>4. ASSUME NEW i \in Nat, i \in I PROVE i + 1 \in I
    <3> SUFFICES ASSUME i + 1 + 1 \in 1..a, i + 1 + 1 \in 1..b PROVE x.items[i + 1 + 1] = y.items[i + 1 + 1]
      OBVIOUS
    <3>1. i + 1 \in 1..a /\ i + 1 \in 1..b /\ i + 1 + 1 # 1 /\ i + 1 + 1 - 1 = i + 1
      OBVIOUS
    <3>2. x.items[i + 1] = y.items[i + 1]
      BY <2>4, <3>1
    <3>3. From(x, i + 1 + 1, from) = From(y, i + 1 + 1, from)
      BY <3>1, <3>2 DEF From
    <3> QED BY <2>2, <3>3
  <2> HIDE DEF I
  <2>5. Nat \subseteq I
    BY <2>3, <2>4, NumberInduction
  <2>6. \A i \in 1..a : i \in 1..b => x.items[i] = y.items[i]
    <3> TAKE i \in 1..a
    <3>1. i - 1 \in I /\ i - 1 + 1 = i
      BY <2>5
    <3> HIDE DEF a, b
    <3> QED BY <3>1 DEF I
  <2>7. CASE a <= b
    <3>1. \A i \in 1..a : x.items[i] = y.items[i]
      BY <2>1, <2>6, <2>7
    <3> QED BY <2>7, <3>1, NotShorter
  <2>8. CASE b <= a
    <3>1. \A i \in 1..b : y.items[i] = x.items[i]
      BY <2>1, <2>6, <2>8
    <3> QED BY <2>8, <3>1, NotShorter
  <2> HIDE DEF a, b
  <2> QED BY <2>1, <2>7, <2>8
<1> HIDE DEF S
<1>3. NodesOf(n) \subseteq S
  BY <1>1, <1>2, NodeInduction
<1>4. n \in S
  BY <1>1, <1>3
<1> QED BY <1>4 DEF S

\* So a tree is a part of any deeper one that begins with the same row.
LEMMA Leftmost ==
  ASSUME NEW T \in Table, NEW E, Final(T, E), NEW root, Tidy(root, E), NEW lo \in Nat, Runs(root, T, lo),
         NEW w, Tidy(w, E), Runs(w, T, lo), root.level <= w.level
  PROVE  root \in NodesOf(w)
<1> DEFINE S == {x \in NodesOf(w) : Tidy(x, E) /\ Runs(x, T, lo) /\ root.level <= x.level => root \in NodesOf(x)}
<1>1. w.level \in Nat /\ Whole(w) /\ w \in NodesOf(w) /\ root.level \in Nat
  BY TidyIs, RootIn
<1>2. ASSUME NEW x \in NodesOf(w), Whole(x), x.level \in Nat, Children(x) \subseteq S PROVE x \in S
  <2> SUFFICES ASSUME Tidy(x, E), Runs(x, T, lo), root.level <= x.level PROVE root \in NodesOf(x)
    OBVIOUS
  <2>1. CASE root.level = x.level
    <3>1. root = x
      BY <2>1, SameNode
    <3> QED BY <1>2, <3>1, RootIn
  <2>2. CASE root.level # x.level
    <3> DEFINE c == x.items[1].child
    <3>1. x.level > 0 /\ root.level <= x.level - 1
      BY <1>1, <1>2, <2>2
    <3>2. Shaped(x) /\ Sorted(x) /\ Len(x.items) \in Nat \ {0} /\ RowsOk(x)
      BY TidyIs, ItemsAre
    <3>3. 1 \in 1..Len(x.items)
      BY <3>2
    <3>4. c \in Children(x) /\ x.items[1].key = LastKey(c)
      BY <3>1, <3>2, <3>3, ChildrenAre
    <3>5. LastKey(x) \in Nat
      BY <1>2, TableIs, KeysAre
    <3>6. RowsAt(x, 1) = Span(T, From(x, 1, lo), x.items[1].key)
      BY <1>2, <3>3, <3>5, ItemSpan DEF Runs
    <3>7. Runs(c, T, lo)
      BY <3>1, <3>4, <3>6 DEF Runs, RowsAt, From
    <3>8. Tidy(c, E) /\ c.level = x.level - 1 /\ NodesOf(c) \subseteq NodesOf(x)
      BY <3>4, TidyChild
    <3>9. c \in S
      BY <1>2, <3>4
    <3> QED BY <3>1, <3>7, <3>8, <3>9
  <2> QED BY <2>1, <2>2
<1> HIDE DEF S
<1>3. w \in S
  BY <1>1, <1>2, NodeInduction
<1> QED BY <1>3 DEF S

\* a node without its only child
Strip(n) == IF n.level > 0 /\ Len(n.items) = 1 THEN n.items[1].child ELSE n
IsTrim(f, root, n) == f = [d \in 0..n |-> IF d = 0 THEN root ELSE Strip(f[d - 1])]

LEMMA TrimExists == ASSUME NEW root PROVE \A n \in Nat : \E f : IsTrim(f, root, n)
<1> DEFINE T == {n \in Nat : \E f : IsTrim(f, root, n)}
<1>1. 0 \in T
  <2> DEFINE f == [k \in 0..0 |-> root]
  <2>1. IsTrim(f, root, 0)
    BY DEF IsTrim
  <2> QED BY <2>1
<1>2. ASSUME NEW n \in Nat, n \in T PROVE n + 1 \in T
  <2>1. PICK f : IsTrim(f, root, n)
    BY <1>2
  <2> DEFINE g == [k \in 0..(n + 1) |-> IF k = n + 1 THEN Strip(f[n]) ELSE f[k]]
  <2>2. \A k \in 0..(n + 1) : g[k] = IF k = 0 THEN root ELSE Strip(g[k - 1])
    <3> TAKE k \in 0..(n + 1)
    <3>1. CASE k = n + 1
      <4>1. k # 0 /\ k - 1 = n /\ k - 1 \in 0..(n + 1) /\ k - 1 # n + 1
        BY <3>1
      <4>2. g[k] = Strip(f[n]) /\ g[k - 1] = f[n]
        BY <3>1, <4>1
      <4> QED BY <4>1, <4>2
    <3>2. CASE k # n + 1 /\ k # 0
      <4>1. k \in 0..n /\ k - 1 \in 0..(n + 1) /\ k - 1 # n + 1
        BY <3>2
      <4>2. g[k] = f[k] /\ g[k - 1] = f[k - 1]
        BY <3>2, <4>1
      <4>3. f[k] = Strip(f[k - 1])
        BY <2>1, <3>2, <4>1 DEF IsTrim
      <4> QED BY <3>2, <4>2, <4>3
    <3>3. CASE k = 0
      <4>1. k \in 0..n /\ k # n + 1
        BY <3>3
      <4> QED BY <2>1, <3>3, <4>1 DEF IsTrim
    <3> QED BY <3>1, <3>2, <3>3
  <2>3. g = [k \in 0..(n + 1) |-> g[k]]
    OBVIOUS
  <2> HIDE DEF g
  <2>4. IsTrim(g, root, n + 1)
    BY <2>2, <2>3 DEF IsTrim
  <2> QED BY <2>4
<1> HIDE DEF T
<1>3. Nat \subseteq T
  BY <1>1, <1>2, NumberInduction
<1> QED BY <1>3 DEF T

LEMMA TrimIs ==
  ASSUME NEW root, root.level \in Nat
  PROVE  \E f : /\ f[0] = root /\ Trim(root) = f[root.level]
                /\ \A d \in 1..root.level : f[d] = Strip(f[d - 1])
<1> DEFINE f == CHOOSE f : IsTrim(f, root, root.level)
<1>1. IsTrim(f, root, root.level)
  BY TrimExists
<1>2. Trim(root) = f[root.level]
  BY DEF Trim, IsTrim, Strip
<1> HIDE DEF f
<1>3. \A d \in 0..root.level : f[d] = IF d = 0 THEN root ELSE Strip(f[d - 1])
  BY <1>1 DEF IsTrim
<1>4. 0 \in 0..root.level /\ \A d \in 1..root.level : d \in 0..root.level /\ d # 0
  OBVIOUS
<1>5. f[0] = root /\ \A d \in 1..root.level : f[d] = Strip(f[d - 1])
  BY <1>3, <1>4
<1> QED BY <1>2, <1>5

\* a root with one child is that child, for Trim
LEMMA TrimOne ==
  ASSUME NEW n, n.level \in Nat, n.level > 0, Len(n.items) = 1, NEW c, c = n.items[1].child, c.level = n.level - 1
  PROVE  Trim(n) = Trim(c)
<1>1. PICK f : /\ f[0] = n /\ Trim(n) = f[n.level]
               /\ \A d \in 1..n.level : f[d] = Strip(f[d - 1])
  BY TrimIs
<1>2. c.level \in Nat
  OBVIOUS
<1>3. PICK g : /\ g[0] = c /\ Trim(c) = g[c.level]
               /\ \A d \in 1..c.level : g[d] = Strip(g[d - 1])
  BY <1>2, TrimIs
<1> DEFINE S == {d \in Nat : d <= c.level => f[d + 1] = g[d]}
<1>4. 0 \in S
  <2>1. f[1] = Strip(f[0])
    BY <1>1
  <2> QED BY <1>1, <1>3, <2>1 DEF Strip
<1>5. ASSUME NEW d \in Nat, d \in S PROVE d + 1 \in S
  <2> SUFFICES ASSUME d + 1 <= c.level PROVE f[d + 1 + 1] = g[d + 1]
    OBVIOUS
  <2>1. d + 1 + 1 \in 1..n.level /\ d + 1 + 1 - 1 = d + 1 /\ d + 1 \in 1..c.level /\ d + 1 - 1 = d /\ d <= c.level
    BY <1>2
  <2>2. f[d + 1 + 1] = Strip(f[d + 1]) /\ g[d + 1] = Strip(g[d])
    BY <1>1, <1>3, <2>1
  <2> QED BY <1>5, <2>1, <2>2
<1> HIDE DEF S
<1>6. c.level \in S
  BY <1>2, <1>4, <1>5, NumberInduction
<1>7. f[c.level + 1] = g[c.level] /\ c.level + 1 = n.level
  BY <1>2, <1>6 DEF S
<1> QED BY <1>1, <1>3, <1>7

\* a node that has all the rows of the tree is under nodes with one child
LEMMA TrimAbove ==
  ASSUME NEW w, w.level \in Nat, Whole(w), NEW root \in NodesOf(w), Rows(root) = Rows(w)
  PROVE  Trim(w) = Trim(root)
<1> DEFINE S == {x \in NodesOf(w) : root \in NodesOf(x) /\ Rows(root) = Rows(x) => Trim(x) = Trim(root)}
<1>1. ASSUME NEW x \in NodesOf(w), Whole(x), x.level \in Nat, Children(x) \subseteq S PROVE x \in S
  <2> SUFFICES ASSUME root \in NodesOf(x), Rows(root) = Rows(x), x # root PROVE Trim(x) = Trim(root)
    OBVIOUS
  <2>1. Shaped(x) /\ Sorted(x)
    BY <1>1, WholeRoot
  <2>2. x.level > 0 /\ \E c \in Children(x) : root \in NodesOf(c)
    BY <1>1, <2>1, NodesUnfold
  <2>3. PICK c \in Children(x) : root \in NodesOf(c)
    BY <2>2
  <2>4. Whole(c) /\ c.level \in Nat /\ c.level = x.level - 1 /\ c \in S
    BY <1>1, <2>3, WholeChild
  <2>5. PICK i \in 1..Len(x.items) : c = x.items[i].child
    BY <2>1, <2>2, <2>3, ChildrenAre
  <2>6. Rows(root) \subseteq Rows(c)
    BY <2>3, <2>4, NodesIn
  <2>7. Rows(c) = RowsAt(x, i) /\ Rows(c) \subseteq Rows(x)
    <3>1. Rows(x) = UNION {RowsAt(x, j) : j \in 1..Len(x.items)}
      BY <2>1, RowsByItem
    <3>2. Rows(c) = RowsAt(x, i)
      BY <2>2, <2>5 DEF RowsAt
    <3> QED BY <3>1, <3>2
  <2>8. RowsAt(x, i) = Rows(x)
    <3>1. Rows(x) \subseteq Rows(c)
      BY <2>6
    <3>2. Rows(c) = Rows(x)
      BY <2>7, <3>1
    <3> QED BY <2>7, <3>2
  <2>9. ASSUME NEW j \in 1..Len(x.items), j # i PROVE FALSE
    <3>1. \A d \in Children(x) : RowsOk(d)
      BY <1>1, WholeChild, RowsAre
    <3>2. x.items[j].key \in KeysOf(RowsAt(x, j))
      BY <2>1, <3>1, RowsAtAre
    <3>3. PICK r \in RowsAt(x, j) : TRUE
      BY <3>2 DEF KeysOf
    <3>4. r \in RowsAt(x, i)
      <4>1. Rows(x) = UNION {RowsAt(x, k) : k \in 1..Len(x.items)}
        BY <2>1, RowsByItem
      <4> QED BY <2>8, <4>1
    <3>5. /\ Start(x, j) < r.key /\ r.key <= x.items[j].key
          /\ Start(x, i) < r.key /\ r.key <= x.items[i].key
      BY <2>1, <3>1, <3>4, RowsAtAre
    <3>6. r.key \in Nat
      <4>1. AreRows(RowsAt(x, j))
        BY <2>1, <3>1, RowsAtAre
      <4> QED BY <4>1, KeysAre DEF AreRows
    <3>7. /\ \A k \in 1..Len(x.items) : Start(x, k) \in Nat /\ x.items[k].key \in Nat
          /\ \A k, m \in 1..Len(x.items) : k < m => x.items[k].key <= Start(x, m)
      BY <2>1, RowsByItem
    <3>8. i < j \/ j < i
      BY <2>9
    <3> QED BY <3>5, <3>6, <3>7, <3>8
  <2>10. Len(x.items) = 1 /\ i = 1
    <3>1. Len(x.items) \in Nat \ {0}
      BY <2>1, ItemsAre
    <3>2. 1 \in 1..Len(x.items) /\ Len(x.items) \in 1..Len(x.items)
      BY <3>1
    <3> QED BY <2>9, <3>2
  <2>11. Trim(x) = Trim(c)
    BY <1>1, <2>2, <2>4, <2>5, <2>10, TrimOne
  <2> QED BY <2>3, <2>4, <2>6, <2>7, <2>11
<1> HIDE DEF S
<1>2. w \in NodesOf(w)
  BY RootIn
<1>3. w \in S
  BY <1>1, <1>2, NodeInduction
<1> QED BY <1>3 DEF S

\* Two trees of one table differ at most in single-child nodes at the top.
LEMMA TrimSame ==
  ASSUME NEW T \in Table, NEW x, IsTree(x, T), NEW y, IsTree(y, T)
  PROVE  Trim(x) = Trim(y)
<1>1. CASE Has(T) = {}
  BY <1>1, TreeIs
<1>2. CASE Has(T) # {}
  <2>1. /\ Good(x) /\ Good(y) /\ Ends(T) = {LastKey(x)} /\ Ends(T) = {LastKey(y)}
        /\ Rows(x) = Span(T, 0, MaxKey) /\ Rows(y) = Span(T, 0, MaxKey)
    BY <1>2, TreeIs
  <2>2. Tidy(x, Ends(T)) /\ Tidy(y, Ends(T))
    BY <2>1 DEF Good
  <2>3. Final(T, Ends(T))
    BY DEF Final, Ends
  <2>4. /\ LastKey(x) \in Nat /\ LastKey(x) = LastKey(y)
        /\ \A k \in Has(T) : k <= LastKey(x) /\ k <= MaxKey
    <3>1. LastKey(x) = LastKey(y) /\ LastKey(x) \in Has(T)
      BY <2>1 DEF Ends
    <3> QED BY <2>1, <2>3, <3>1, TableHas DEF Final
  <2>5. Span(T, 0, MaxKey) = Span(T, 0, LastKey(x))
    BY <2>4 DEF Span
  <2>6. Runs(x, T, 0) /\ Runs(y, T, 0)
    BY <2>1, <2>4, <2>5 DEF Runs
  <2>7. x.level \in Nat /\ y.level \in Nat /\ Whole(x) /\ Whole(y)
    BY <2>2, TidyIs
  <2>8. CASE x.level <= y.level
    <3>1. x \in NodesOf(y)
      BY <2>2, <2>3, <2>6, <2>8, Leftmost
    <3> QED BY <2>1, <2>7, <3>1, TrimAbove
  <2>9. CASE y.level <= x.level
    <3>1. y \in NodesOf(x)
      BY <2>2, <2>3, <2>6, <2>9, Leftmost
    <3> QED BY <2>1, <2>7, <3>1, TrimAbove
  <2> QED BY <2>7, <2>8, <2>9
<1> QED BY <1>1, <1>2

-----------------------------------------------------------------------------
(* A table that some tree holds is not refused when it is built.           *)

\* every node with the row of the key was cut because it was long enough
Lean(n, F) == \A v \in NodesOf(n) : F \in KeysOf(Rows(v)) => Splits(v.level, v.items)
LeanItem(l, it, F) == l > 0 => Lean(it.child, F)
LeanChunker(ch, F) == \A l \in Levels : \A i \in 1..Len(ch.at[l]) : LeanItem(l, ch.at[l][i], F)

\* the node that had nowhere to go
Spilt(R, E, F) == \E w : w.level = Depth - 1 /\ Tidy(w, E) /\ Lean(w, F) /\ Rows(w) = R

LEMMA LeanNode ==
  ASSUME NEW n, NEW E, Tidy(n, E), NEW F, F \in KeysOf(Rows(n)) => Splits(n.level, n.items),
         \A i \in 1..Len(n.items) : LeanItem(n.level, n.items[i], F)
  PROVE  Lean(n, F)
<1> SUFFICES ASSUME NEW v \in NodesOf(n), F \in KeysOf(Rows(v)) PROVE Splits(v.level, v.items)
  BY DEF Lean
<1>1. n.level \in Nat /\ Shaped(n) /\ Sorted(n)
  BY TidyIs
<1>2. CASE v = n
  BY <1>2
<1>3. CASE v # n
  <2>1. n.level > 0 /\ \E c \in Children(n) : v \in NodesOf(c)
    BY <1>1, <1>3, NodesUnfold
  <2>2. PICK i \in 1..Len(n.items) : v \in NodesOf(n.items[i].child)
    BY <1>1, <2>1, ChildrenAre
  <2>3. Lean(n.items[i].child, F)
    BY <2>1 DEF LeanItem
  <2> QED BY <2>2, <2>3 DEF Lean
<1> QED BY <1>2, <1>3

\* an item is added with the nodes it ends
LEMMA AddToLean ==
  ASSUME NEW E, NEW F, NEW ch, NEW l \in Levels, NEW it, NEW R, ReadyFor(ch, l, it, R, E),
         LeanChunker(ch, F), LeanItem(l, it, F)
  PROVE  IF Full(AddTo(ch, l, it)) THEN Spilt(R \cup ItemRows(l, it), E, F) ELSE LeanChunker(AddTo(ch, l, it), F)
<1> DEFINE Comes(c, k, x, Q) == IF Full(AddTo(c, k, x)) THEN Spilt(Q \cup ItemRows(k, x), E, F)
                                ELSE LeanChunker(AddTo(c, k, x), F)
           T == {d \in Nat : \A k \in Nat : k + d = Depth => \A c, x, Q :
                  ReadyFor(c, k, x, Q, E) /\ LeanChunker(c, F) /\ LeanItem(k, x, F) => Comes(c, k, x, Q)}
<1>1. 0 \in T
  <2> SUFFICES ASSUME NEW k \in Nat, k + 0 = Depth, NEW c, NEW x, NEW Q, ReadyFor(c, k, x, Q, E), LeanItem(k, x, F)
               PROVE  Comes(c, k, x, Q)
    OBVIOUS
  <2>1. k = Depth /\ k > 0 /\ IsChunker(c) /\ ~Full(c)
    BY LevelsAre DEF ReadyFor, Orderly
  <2>2. Full(AddTo(c, k, x))
    BY <2>1, AddToTop
  <2>3. x.child.level = Depth - 1 /\ Tidy(x.child, E) /\ ItemRows(k, x) = Rows(x.child)
    BY <2>1 DEF ReadyFor, Fits, ItemRows
  <2>4. Lean(x.child, F)
    BY <2>1 DEF LeanItem
  <2>5. Q = {}
    <3>1. \A m \in Levels : c.at[m] = <<>>
      BY <2>1, LevelsAre DEF ReadyFor
    <3>2. Content(c) = {}
      BY <3>1 DEF Content, Waits, WaitRows
    <3> QED BY <3>2 DEF ReadyFor
  <2>6. Q \cup ItemRows(k, x) = Rows(x.child)
    BY <2>3, <2>5
  <2> QED BY <2>2, <2>3, <2>4, <2>6 DEF Spilt
<1>2. ASSUME NEW d \in Nat, d \in T PROVE d + 1 \in T
  <2> SUFFICES ASSUME NEW k \in Nat, k + (d + 1) = Depth, NEW c, NEW x, NEW Q, ReadyFor(c, k, x, Q, E),
                      LeanChunker(c, F), LeanItem(k, x, F)
               PROVE  Comes(c, k, x, Q)
    OBVIOUS
  <2>1. k \in Levels /\ k + 1 + d = Depth /\ k + 1 \in Nat /\ k + 1 > 0
    BY LevelsAre
  <2> DEFINE old == c.at[k]
             items == Append(old, x)
             n == Node(k, items)
             e == Put(c, k, <<>>)
  <2>2. AddedTo(c, k, x, Q, E, items, n, e)
    BY <2>1, AddToNext
  <2>3. IsChunker(c) /\ old \in Seq(Range(old))
    <3>1. old = <<>> \/ Open(Node(k, old), E)
      BY <2>1 DEF ReadyFor, Orderly
    <3>2. Open(Node(k, old), E) => old \in Seq(Range(old))
      BY NodeIs DEF Open, Shaped
    <3>3. <<>> \in Seq(Range(<<>>))
      OBVIOUS
    <3>4. IsChunker(c)
      BY DEF ReadyFor, Orderly
    <3> HIDE DEF old
    <3> QED BY <3>1, <3>2, <3>3, <3>4
  <2>4. \A i \in 1..Len(items) : LeanItem(k, items[i], F)
    <3>1. \A i \in 1..Len(old) : LeanItem(k, old[i], F)
      BY <2>1 DEF LeanChunker
    <3> HIDE DEF old
    <3>2. /\ Len(items) = Len(old) + 1 /\ Len(old) \in Nat
          /\ \A i \in 1..Len(old) : items[i] = old[i]
          /\ items[Len(old) + 1] = x
      BY <2>3, AppendIs
    <3> HIDE DEF items
    <3>3. \A i \in 1..Len(items) : i \in 1..Len(old) \/ i = Len(old) + 1
      BY <3>2
    <3> QED BY <3>1, <3>2, <3>3
  <2>5. e.at[k] = <<>> /\ \A m \in Levels : m # k => e.at[m] = c.at[m]
    BY <2>1, <2>3, PutIs
  <2> HIDE DEF n, items, e, old
  <2>6. /\ Put(c, k, items).at[k] = items
        /\ \A m \in Levels : m # k => Put(c, k, items).at[m] = c.at[m]
    BY <2>1, <2>3, PutIs
  <2>7. CASE ~Splits(k, items)
    <3> DEFINE p == Put(c, k, items)
    <3>1. AddTo(c, k, x) = p /\ ~Full(p)
      BY <2>2, <2>7 DEF AddedTo
    <3>2. p.at[k] = items /\ \A m \in Levels : m # k => p.at[m] = c.at[m]
      BY <2>6
    <3> HIDE DEF p
    <3>3. LeanChunker(p, F)
      BY <2>4, <3>2 DEF LeanChunker
    <3> QED BY <3>1, <3>3
  <2>8. CASE Splits(k, items)
    <3>1. /\ AddTo(c, k, x) = AddTo(e, k + 1, Up(n))
          /\ Tidy(n, E) /\ ReadyFor(e, k + 1, Up(n), Content(e), E)
          /\ Content(e) \cup ItemRows(k + 1, Up(n)) = Q \cup ItemRows(k, x)
          /\ n.level = k /\ n.items = items
      BY <2>2, <2>8 DEF AddedTo
    <3>2. Lean(n, F)
      BY <2>4, <2>8, <3>1, LeanNode
    <3>3. LeanItem(k + 1, Up(n), F)
      BY <3>2 DEF LeanItem, Up
    <3>4. LeanChunker(e, F)
      <4> SUFFICES ASSUME NEW m \in Levels, NEW i \in 1..Len(e.at[m]) PROVE LeanItem(m, e.at[m][i], F)
        BY DEF LeanChunker
      <4>1. m # k
        <5>1. Len(<<>>) = 0
          OBVIOUS
        <5>2. ~ \E j : j \in 1..0
          OBVIOUS
        <5> QED BY <2>5, <5>1, <5>2
      <4> QED BY <2>5, <4>1 DEF LeanChunker
    <3>5. Comes(e, k + 1, Up(n), Content(e))
      BY <1>2, <2>1, <3>1, <3>3, <3>4
    <3> QED BY <3>1, <3>5
  <2> QED BY <2>7, <2>8
<1> HIDE DEF T
<1>3. Nat \subseteq T
  BY <1>1, <1>2, NumberInduction
<1>4. l \in Nat /\ Depth - l \in Nat /\ l + (Depth - l) = Depth
  BY LevelsAre
<1>5. Depth - l \in T
  BY <1>3, <1>4
<1> QED BY <1>4, <1>5 DEF T

\* no node of a chunker ends before it must while rows are added one by one
LEMMA TidyLean == ASSUME NEW n, Tidy(n, {}), NEW F PROVE Lean(n, F)
BY DEF Lean, Tidy, Cut

LEMMA OrderlyLean == ASSUME NEW ch, Orderly(ch, {}), NEW F PROVE LeanChunker(ch, F)
<1> SUFFICES ASSUME NEW l \in Levels, NEW i \in 1..Len(ch.at[l]), l > 0 PROVE Lean(ch.at[l][i].child, F)
  BY DEF LeanChunker, LeanItem
<1> DEFINE n == Node(l, ch.at[l])
<1>1. ch.at[l] # <<>>
  <2>1. Len(<<>>) = 0
    OBVIOUS
  <2>2. ~ \E j : j \in 1..0
    OBVIOUS
  <2> QED BY <2>1, <2>2
<1>2. Open(n, {})
  BY <1>1 DEF Orderly
<1>3. n.level = l /\ n.items = ch.at[l]
  BY NodeIs
<1> HIDE DEF n
<1>4. n.items[i].child \in Children(n)
  BY <1>2, <1>3, ChildrenAre DEF Open
<1>5. Tidy(n.items[i].child, {})
  BY <1>2, <1>4 DEF Open
<1> QED BY <1>3, <1>5, TidyLean

\* the first rows of a table did not fit
Overflows(T, E, F) == \E c \in Nat : Spilt(Span(T, 0, c), E, F)

LEMMA AddRowsLean ==
  ASSUME NEW T \in Table, NEW F, Full(AddRows(NoItems, T))
  PROVE  Overflows(T, {}, F)
<1>1. PICK f : /\ f[0] = NoItems /\ AddRows(NoItems, T) = f[MaxKey]
               /\ \A k \in 1..MaxKey : f[k] = AddRow(f[k - 1], k, T[k])
  BY AddRowsIs
<1> DEFINE Ok(k) == Holds(f[k], Span(T, 0, k), {}) /\ (Full(f[k]) => Overflows(T, {}, F))
           S == {k \in Nat : k <= MaxKey => Ok(k)}
<1>2. 0 \in S
  <2>1. \A k \in Has(T) : ~(0 < k /\ k <= 0)
    BY TableHas
  <2>2. Span(T, 0, 0) = {}
    BY <2>1, SpanNone
  <2> QED BY <1>1, <2>2, NothingHeld
<1>3. ASSUME NEW k \in Nat, k \in S PROVE k + 1 \in S
  <2> SUFFICES ASSUME k + 1 <= MaxKey PROVE Ok(k + 1)
    OBVIOUS
  <2> DEFINE j == k + 1
             Q == Span(T, 0, k)
             r == Row(j, T[j])
  <2>1. j \in Keys /\ j \in 1..MaxKey /\ j - 1 = k /\ j \in Nat /\ k <= MaxKey
    BY KeysAre DEF Keys
  <2>2. Holds(f[k], Q, {}) /\ (Full(f[k]) => Overflows(T, {}, F))
    BY <1>3, <2>1
  <2>3. T[j] \in Vals \cup {Absent} /\ (T[j] # Absent => j \in Has(T))
    BY <2>1, TableHas DEF Has
  <2>4. \A q \in Q : q.key < j
    BY SpanIs
  <2> HIDE DEF Q, j, r
  <2>5. f[j] = AddRow(f[k], j, T[j])
    BY <1>1, <2>1
  <2>6. Span(T, 0, j) = Q \cup RowOf(j, T[j])
    BY <2>1, SpanStep DEF Q
  <2>7. Holds(f[j], Span(T, 0, j), {})
    BY <2>1, <2>2, <2>3, <2>4, <2>5, <2>6, AddRowHolds
  <2>8. CASE Full(f[k])
    <3>1. f[j] = f[k]
      BY <2>5, <2>8, AddToFull DEF AddRow
    <3> QED BY <2>2, <2>7, <2>8, <3>1 DEF j
  <2>9. CASE ~Full(f[k]) /\ T[j] = Absent
    <3>1. f[j] = f[k]
      BY <2>5, <2>9 DEF AddRow
    <3> QED BY <2>7, <2>9, <3>1 DEF j
  <2>10. CASE ~Full(f[k]) /\ T[j] # Absent
    <3>1. f[j] = AddTo(f[k], 0, r) /\ RowOf(j, T[j]) = {r}
      BY <2>5, <2>10 DEF AddRow, RowOf, r
    <3>2. r \in [key : Keys, val : Vals] /\ r.key = j
      BY <2>1, <2>3, <2>10 DEF Row, r
    <3>3. 0 \in Levels /\ \A m \in Levels : ~(m < 0)
      BY LevelsAre
    <3>4. ItemRows(0, r) = {r} /\ Fits(0, r, {}) /\ LeanItem(0, r, F)
      BY <3>2 DEF ItemRows, Fits, LeanItem
    <3>5. ReadyFor(f[k], 0, r, Q, {})
      BY <2>2, <2>4, <2>10, <3>2, <3>3, <3>4 DEF ReadyFor, Holds
    <3>6. LeanChunker(f[k], F)
      BY <2>2, <2>10, OrderlyLean DEF Holds
    <3>7. Full(f[j]) => Spilt(Q \cup ItemRows(0, r), {}, F)
      BY <3>1, <3>3, <3>4, <3>5, <3>6, AddToLean
    <3>8. Q \cup ItemRows(0, r) = Span(T, 0, j)
      BY <2>6, <3>1, <3>4
    <3>9. Full(f[j]) => Overflows(T, {}, F)
      BY <2>1, <3>7, <3>8 DEF Overflows
    <3> QED BY <2>7, <3>9 DEF j
  <2> QED BY <2>8, <2>9, <2>10
<1> HIDE DEF S
<1>4. MaxKey \in S /\ MaxKey \in Nat
  BY <1>2, <1>3, NumberInduction, KeysAre
<1>5. Ok(MaxKey)
  BY <1>4 DEF S
<1> QED BY <1>1, <1>5

\* no row of R comes before F
First(R, F) == \A r \in R : F <= r.key

\* what waits above a level has the first row
LEMMA CloseLean ==
  ASSUME NEW ch, NEW E, NEW R, Holds(ch, R, E), EndsIn(R, E), NEW l \in Levels, Full(ch) \/ Closed(ch, l),
         NEW F, First(R, F), IF Full(ch) THEN Spilt(R, E, F) ELSE LeanChunker(ch, F)
  PROVE  LET c == Close(ch, l) IN IF Full(c) THEN Spilt(R, E, F) ELSE LeanChunker(c, F)
<1>1. CASE Full(ch) \/ ch.at[l] = <<>> \/ ~Pending(ch, l)
  <2>1. Close(ch, l) = ch
    BY <1>1 DEF Close
  <2> QED BY <2>1
<1>2. CASE ~Full(ch) /\ ch.at[l] # <<>> /\ Pending(ch, l)
  <2> DEFINE n == Node(l, ch.at[l])
             e == Put(ch, l, <<>>)
             u == Up(n)
  <2>1. ClosedTo(ch, l, R, E, n, e)
    BY <1>2, CloseNext
  <2>2. Orderly(ch, E) /\ Content(ch) = R /\ LeanChunker(ch, F) /\ IsChunker(ch)
    BY <1>2 DEF Holds, Orderly
  <2>3. e.at[l] = <<>> /\ \A m \in Levels : m # l => e.at[m] = ch.at[m]
    BY <2>2, PutIs
  <2>4. l \in Nat /\ l + 1 \in Nat /\ l + 1 > 0
    BY LevelsAre
  <2> HIDE DEF n, e
  <2>5. /\ Close(ch, l) = AddTo(e, l + 1, u) /\ l + 1 \in Levels
        /\ n.level = l /\ n.items = ch.at[l] /\ Tidy(n, E) /\ Rows(n) = Waits(ch, l)
        /\ ReadyFor(e, l + 1, u, Content(e), E)
        /\ Content(e) \cup ItemRows(l + 1, u) = R
    BY <2>1 DEF ClosedTo
  <2>6. F \notin KeysOf(Rows(n))
    <3> SUFFICES ASSUME NEW r \in Rows(n), r.key = F PROVE FALSE
      BY DEF KeysOf
    <3>1. PICK a \in Levels : a > l /\ ch.at[a] # <<>>
      BY <1>2 DEF Pending
    <3>2. PICK s \in Waits(ch, a) : TRUE
      BY <2>2, <3>1, WaitsAre
    <3>3. l < a
      BY <2>4, <3>1, LevelsAre
    <3>4. s.key < r.key
      BY <2>2, <2>5, <3>2, <3>3 DEF Orderly
    <3>5. s \in R /\ r \in R
      BY <2>2, <2>5, <3>2 DEF Content
    <3>6. F <= s.key
      BY <3>5 DEF First
    <3>7. RowsOk(n) /\ RowsOk(Node(a, ch.at[a])) /\ s \in Rows(Node(a, ch.at[a]))
      BY <2>2, <2>5, <3>1, <3>2, WaitsAre, TidyIs
    <3>8. s.key \in Nat /\ r.key \in Nat
      BY <3>7, KeysAre DEF RowsOk, AreRows
    <3> QED BY <3>4, <3>6, <3>8
  <2>7. \A i \in 1..Len(n.items) : LeanItem(n.level, n.items[i], F)
    BY <2>2, <2>5 DEF LeanChunker
  <2>8. Lean(n, F)
    BY <2>5, <2>6, <2>7, LeanNode
  <2>9. LeanItem(l + 1, u, F)
    BY <2>8 DEF LeanItem, Up
  <2>10. LeanChunker(e, F)
    <3> SUFFICES ASSUME NEW m \in Levels, NEW i \in 1..Len(e.at[m]) PROVE LeanItem(m, e.at[m][i], F)
      BY DEF LeanChunker
    <3>1. m # l
      <4>1. Len(<<>>) = 0
        OBVIOUS
      <4>2. ~ \E j : j \in 1..0
        OBVIOUS
      <4> QED BY <2>3, <4>1, <4>2
    <3> QED BY <2>2, <2>3, <3>1 DEF LeanChunker
  <2> HIDE DEF u
  <2>11. IF Full(AddTo(e, l + 1, u)) THEN Spilt(Content(e) \cup ItemRows(l + 1, u), E, F)
         ELSE LeanChunker(AddTo(e, l + 1, u), F)
    BY <2>5, <2>9, <2>10, AddToLean
  <2> QED BY <2>5, <2>11
<1> QED BY <1>1, <1>2

\* if all rows could be added and the chunker is full in the end, the node that
\* had nowhere to go has all of them
LEMMA FinishLean ==
  ASSUME NEW ch, NEW E, NEW R, Holds(ch, R, E), EndsIn(R, E), NEW F, First(R, F),
         ~Full(ch), LeanChunker(ch, F), Finish(ch) = Failed
  PROVE  Spilt(R, E, F)
<1>1. PICK f : /\ f[0] = ch /\ \A k \in 1..Depth : f[k] = Close(f[k - 1], k - 1)
               /\ Finish(ch) = IF Full(f[Depth]) THEN Failed
                                ELSE IF f[Depth] = NoItems THEN Empty
                                ELSE LET top == CHOOSE l \in Levels : f[Depth].at[l] # <<>>
                                     IN Node(top, f[Depth].at[top])
  BY FinishIs
<1> DEFINE Ok(k) == /\ Holds(f[k], R, E) /\ (Full(f[k]) \/ Closed(f[k], k))
                    /\ IF Full(f[k]) THEN Spilt(R, E, F) ELSE LeanChunker(f[k], F)
           T == {k \in Nat : k <= Depth => Ok(k)}
<1>2. 0 \in T
  <2>1. \A m \in Levels : ~(m < 0)
    BY LevelsAre
  <2> QED BY <1>1, <2>1 DEF Closed
<1>3. ASSUME NEW k \in Nat, k \in T PROVE k + 1 \in T
  <2> SUFFICES ASSUME k + 1 <= Depth PROVE Ok(k + 1)
    OBVIOUS
  <2>1. k \in Levels /\ k + 1 \in 1..Depth /\ k + 1 - 1 = k /\ k <= Depth
    BY LevelsAre
  <2>2. f[k + 1] = Close(f[k], k)
    BY <1>1, <2>1
  <2>3. Ok(k)
    BY <1>3, <2>1
  <2>4. Holds(f[k + 1], R, E) /\ (Full(f[k + 1]) \/ Closed(f[k + 1], k + 1))
    BY <2>1, <2>2, <2>3, CloseHolds
  <2>5. IF Full(f[k + 1]) THEN Spilt(R, E, F) ELSE LeanChunker(f[k + 1], F)
    BY <2>1, <2>2, <2>3, CloseLean
  <2> QED BY <2>4, <2>5
<1> HIDE DEF T
<1> DEFINE end == f[Depth]
           top == CHOOSE l \in Levels : end.at[l] # <<>>
<1>4. Depth \in T /\ Depth \in Nat
  BY <1>2, <1>3, NumberInduction, LevelsAre
<1>5. Ok(Depth)
  BY <1>4 DEF T
<1>6. CASE Full(end)
  BY <1>5, <1>6
<1>7. CASE ~Full(end)
  <2>1. end # NoItems
    <3>1. Empty # Failed
      BY LevelsAre DEF Empty, Failed, Node
    <3> QED BY <1>1, <1>7, <3>1
  <2>2. IsChunker(end) /\ end.up = <<>>
    BY <1>5, <1>7 DEF Holds, Orderly, Full
  <2>3. Finish(ch) = Node(top, end.at[top])
    BY <1>1, <1>7, <2>1
  <2> HIDE DEF end
  <2>4. \E l \in Levels : end.at[l] # <<>>
    BY <2>1, <2>2, NoItemsIs, SameChunker DEF NoItems
  <2>5. top \in Levels
    BY <2>4
  <2> HIDE DEF top
  <2>6. Finish(ch).level = top /\ Failed.level = Depth
    BY <2>3, NodeIs DEF Failed
  <2> QED BY <2>5, <2>6, LevelsAre
<1> QED BY <1>6, <1>7

\* a table is refused when a node of the last level is cut; all nodes with the
\* first row were cut because they were long enough
LEMMA BuildSpills ==
  ASSUME NEW T \in Table, NEW F, \A k \in Has(T) : F <= k, Build(T) = Failed
  PROVE  Overflows(T, Ends(T), F)
<1> DEFINE ch == AddRows(NoItems, T)
           R == Span(T, 0, MaxKey)
<1>1. Holds(ch, R, {}) /\ Holds(ch, R, Ends(T))
  <2>1. \A E : Holds(NoItems, {}, E)
    BY NothingHeld
  <2>2. {} \cup R = R
    OBVIOUS
  <2> QED BY <2>1, <2>2, AddRowsHolds
<1>2. CASE Full(ch)
  <2>1. PICK c \in Nat : Spilt(Span(T, 0, c), {}, F)
    BY <1>2, AddRowsLean DEF Overflows
  <2>2. PICK w : w.level = Depth - 1 /\ Tidy(w, {}) /\ Lean(w, F) /\ Rows(w) = Span(T, 0, c)
    BY <2>1 DEF Spilt
  <2>3. Tidy(w, Ends(T))
    BY <2>2 DEF Tidy, Cut
  <2> QED BY <2>2, <2>3 DEF Overflows, Spilt
<1>3. CASE ~Full(ch)
  <2>1. First(R, F)
    BY SpanIs DEF First
  <2>2. LeanChunker(ch, F)
    BY <1>1, <1>3, OrderlyLean DEF Holds
  <2>3. Finish(ch) = Failed
    BY DEF Build
  <2> HIDE DEF ch, R
  <2>4. EndsIn(R, Ends(T))
    BY EndsInTable DEF R
  <2>5. Spilt(R, Ends(T), F)
    BY <1>1, <1>3, <2>1, <2>2, <2>3, <2>4, FinishLean
  <2> QED BY <2>5, KeysAre DEF Overflows, R
<1> HIDE DEF ch
<1> QED BY <1>2, <1>3

\* A table that a tree holds is not refused when it is built anew.
LEMMA BuildFits ==
  ASSUME NEW T \in Table, NEW root, IsTree(root, T)
  PROVE  Build(T) # Failed
<1> SUFFICES ASSUME Build(T) = Failed PROVE FALSE
  OBVIOUS
<1>1. PICK F : (\A k \in Has(T) : F <= k) /\ (Has(T) # {} => F \in Has(T))
  <2>1. CASE Has(T) = {}
    BY <2>1
  <2>2. CASE Has(T) # {}
    <3>1. Has(T) \in SUBSET Nat
      BY TableHas
    <3> QED BY <2>2, <3>1, LeastNumber
  <2> QED BY <2>1, <2>2
<1> DEFINE E == Ends(T)
<1>2. PICK c \in Nat : Spilt(Span(T, 0, c), E, F)
  BY <1>1, BuildSpills DEF Overflows
<1>3. PICK w : w.level = Depth - 1 /\ Tidy(w, E) /\ Lean(w, F) /\ Rows(w) = Span(T, 0, c)
  BY <1>2 DEF Spilt
<1>4. w.level \in Nat /\ Whole(w) /\ RowsOk(w)
  BY <1>3, TidyIs
<1>5. PICK r \in Rows(w) : r.key = LastKey(w)
  BY <1>4 DEF RowsOk, KeysOf
<1>6. LastKey(w) \in Has(T) /\ LastKey(w) <= c /\ LastKey(w) \in Nat
  BY <1>3, <1>5, SpanIs
<1>7. Runs(w, T, 0)
  <2>1. \A k \in Has(T) : 0 < k /\ k <= c => k <= LastKey(w)
    <3> SUFFICES ASSUME NEW k \in Has(T), 0 < k, k <= c PROVE k <= LastKey(w)
      OBVIOUS
    <3>1. Row(k, T[k]) \in Rows(w)
      BY <1>3, SpanIs
    <3> QED BY <1>4, <3>1 DEF RowsOk, Row
  <2>2. \A k \in Has(T) : k <= LastKey(w) => k <= c
    BY <1>6, TableHas
  <2>3. Span(T, 0, c) = Span(T, 0, LastKey(w))
    BY <2>1, <2>2 DEF Span
  <2> QED BY <1>3, <2>3 DEF Runs
<1>8. /\ Good(root) /\ Uncut(root) /\ E = {LastKey(root)} /\ Rows(root) = Span(T, 0, MaxKey)
  BY <1>6, TreeIs
<1>9. Tidy(root, E) /\ Final(T, E)
  BY <1>8 DEF Good, Final, Ends
<1>10. LastKey(root) \in Has(T) /\ \A k \in Has(T) : k <= LastKey(root) /\ k <= MaxKey
  BY <1>8, TableHas DEF Ends
<1>11. Runs(root, T, 0)
  <2>1. Span(T, 0, MaxKey) = Span(T, 0, LastKey(root))
    BY <1>10 DEF Span
  <2> QED BY <1>8, <2>1 DEF Runs
<1>12. root.level <= w.level
  BY <1>3, <1>9, LevelsAre DEF Tidy
<1> HIDE DEF E
<1>13. root \in NodesOf(w)
  BY <1>3, <1>7, <1>9, <1>11, <1>12, Leftmost
<1>14. F \in KeysOf(Rows(root))
  <2>1. F \in Has(T) /\ 0 < F /\ F <= MaxKey
    BY <1>1, <1>6, TableHas
  <2>2. Row(F, T[F]) \in Rows(root) /\ Row(F, T[F]).key = F
    BY <1>8, <2>1, SpanIs DEF Row
  <2> QED BY <2>2 DEF KeysOf
<1>15. Splits(root.level, root.items)
  BY <1>3, <1>13, <1>14 DEF Lean
<1> QED BY <1>8, <1>15 DEF Uncut

LEMMA SameTree ==
  ASSUME NEW T \in Table, NEW root, IsTree(root, T)
  PROVE  Trim(root) = Trim(Build(TableOf(root)))
<1>1. TableOf(root) = T
  BY TreeIs
<1>2. IsTree(Build(T), T)
  BY BuildIs, BuildFits
<1> QED BY <1>1, <1>2, TrimSame

LEMMA SameHold == ASSUME IInv PROVE SameChunks
<1> SUFFICES ASSUME NEW root \in Roots PROVE Trim(root) = Trim(Build(TableOf(root)))
  BY DEF SameChunks
<1>1. TreesOk /\ MergeOkNow
  BY DEF IInv
<1>2. \A v \in Versions : written[v] \in Table /\ IsTree(tree[v], written[v])
  BY <1>1, TreesAre
<1>3. CASE stage # "merged"
  <2>1. root = tree[Newest] /\ Newest \in Versions
    BY <1>1, <1>3, TreesAre DEF Roots
  <2> QED BY <1>2, <2>1, SameTree
<1>4. CASE stage = "merged"
  <2>1. root = merged.root
    BY <1>4 DEF Roots
  <2> DEFINE M == Merged(written["anc"], written["ours"], written["theirs"])
  <2>2. M \in Table
    BY <1>2, MergedIs DEF Versions
  <2>3. IsTree(root, M)
    BY <1>1, <1>4, <2>1 DEF MergeOkNow
  <2> QED BY <2>2, <2>3, SameTree
<1> QED BY <1>3, <1>4

\* Where the chunker cuts depends on the rows alone: a tree has the nodes of
\* the tree that is built from its rows at once, whatever batches and merges it
\* came from, but for nodes with one child at the top (prollyChunkerAdd,
\* prollyChunkerFinish, streamingMerge, prollyThreeWayMergeFast).
THEOREM TreesAreCanonical == Spec => []SameChunks
<1>1. IInv => SameChunks
  BY SameHold
<1> QED BY <1>1, Invariant, PTL
=============================================================================
