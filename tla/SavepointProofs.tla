--------------------------- MODULE SavepointProofs ---------------------------
(***************************************************************************)
(* That the Btree of Savepoints gives a client SQL's savepoints, however   *)
(* deep they nest and whatever is buffered, replaced, flushed and released *)
(* in between.  At the end: that the iterators on a prepared statement     *)
(* return the rows of one execution each.                                  *)
(***************************************************************************)
EXTENDS Savepoints, StatementIter, Lemmas

\* The undo log is in the order of its levels, and the records of one key are a
\* chain: an edit is as old as the record that its predecessor has left, and
\* what a record has replaced as old as the record before it, unless a release
\* has brought the two to one level
Sorted(m) ==
  \A i, j \in DOMAIN m.undo : i <= j => m.undo[i].level <= m.undo[j].level
Follows(m, i, j) ==
  /\ i < j /\ m.undo[j].key = m.undo[i].key
  /\ \A h \in DOMAIN m.undo : i < h /\ h < j => m.undo[h].key # m.undo[i].key
Newest(m, i) == \A h \in DOMAIN m.undo : i < h => m.undo[h].key # m.undo[i].key
Chained(m) ==
  /\ \A i, j \in DOMAIN m.undo : Follows(m, i, j) =>
       m.undo[i].level \in {m.undo[j].born, m.undo[j].level}
  /\ \A i \in DOMAIN m.undo : Newest(m, i) =>
       m.edits[m.undo[i].key].born = m.undo[i].level
MapOK(m) == m \in Map /\ Sorted(m) /\ Chained(m) /\ (~m.live => m = NoMap)

\* Nothing in the buffer claims a level above n
Within(m, n) ==
  /\ \A k \in Keys : m.edits[k].born <= n
  /\ \A i \in DOMAIN m.undo : m.undo[i].level <= n

\* The edits that are left of a buffer when a level is rolled back
View(m, l) == RollbackMap(m, l).edits

-----------------------------------------------------------------------------
(* Buffers.                                                                *)

LEMMA EditIs ==
  ASSUME NEW e \in Edit
  PROVE  /\ e.born \in -1..MaxDepth + 1 /\ e.val \in Row
         /\ e.born = -1 <=> e = NoEdit
<1>1. CASE e = NoEdit
  BY <1>1, ClientAssumption DEF NoEdit, Row
<1>2. CASE e \in [val : Row, born : Level]
  <2>1. e.born \in Level /\ e.val \in Row
    BY <1>2
  <2> QED BY <2>1, ClientAssumption DEF Level, NoEdit
<1> QED BY <1>1, <1>2 DEF Edit

LEMMA MapIs ==
  ASSUME NEW m \in Map
  PROVE  /\ m.live \in BOOLEAN /\ m.level \in Level
         /\ m.edits \in [Keys -> Edit] /\ m.undo \in Seq(UndoRec)
         /\ \A k \in Keys : m.edits[k] \in Edit /\ m.edits[k].born \in -1..MaxDepth + 1
         /\ Len(m.undo) \in Nat /\ DOMAIN m.undo = 1..Len(m.undo)
         /\ \A i \in DOMAIN m.undo :
              /\ m.undo[i] \in UndoRec /\ m.undo[i].key \in Keys /\ m.undo[i].val \in Row
              /\ m.undo[i].level \in Nat /\ m.undo[i].born \in Nat
              /\ m.undo[i].level \in Level /\ m.undo[i].born \in Level
<1>1. /\ m.live \in BOOLEAN /\ m.level \in Level
      /\ m.edits \in [Keys -> Edit] /\ m.undo \in Seq(UndoRec)
  BY DEF Map
<1>2. \A k \in Keys : m.edits[k] \in Edit /\ m.edits[k].born \in -1..MaxDepth + 1
  BY <1>1, EditIs
<1>3. Len(m.undo) \in Nat /\ DOMAIN m.undo = 1..Len(m.undo)
  BY <1>1
<1>4. \A i \in DOMAIN m.undo : m.undo[i] \in UndoRec
  BY <1>1, <1>3
<1>5. \A r \in UndoRec : /\ r.key \in Keys /\ r.val \in Row
                         /\ r.level \in Level /\ r.born \in Level
  BY DEF UndoRec
<1>6. \A l \in Level : l \in Nat
  BY ClientAssumption DEF Level
<1>7. \A i \in DOMAIN m.undo :
        /\ m.undo[i].key \in Keys /\ m.undo[i].val \in Row
        /\ m.undo[i].level \in Level /\ m.undo[i].born \in Level
  BY <1>4, <1>5
<1> QED BY <1>1, <1>2, <1>3, <1>4, <1>6, <1>7

LEMMA NoMapIs == MapOK(NoMap) /\ Within(NoMap, 0) /\ NoMap.level = 0 /\ ~NoMap.live
<1>1. NoMap \in Map
  <2>1. NoEdit \in Edit /\ 0 \in Level
    BY ClientAssumption DEF Edit, Level
  <2>2. <<>> \in Seq(UndoRec)
    OBVIOUS
  <2> QED BY <2>1, <2>2 DEF NoMap, Map
<1>2. DOMAIN NoMap.undo = {}
  BY DEF NoMap
<1>3. \A k \in Keys : NoMap.edits[k].born = -1
  BY DEF NoMap, NoEdit
<1>4. NoMap.level = 0 /\ NoMap.live = FALSE
  BY DEF NoMap
<1> QED BY <1>1, <1>2, <1>3, <1>4 DEF MapOK, Sorted, Chained, Within

\* The undo records a rollback leaves alone are those of outer levels
LEMMA KeptIs ==
  ASSUME NEW m \in Map, Sorted(m), NEW l \in Nat
  PROVE  /\ Kept(m, l) \in 0..Len(m.undo)
         /\ \A i \in DOMAIN m.undo : i <= Kept(m, l) <=> m.undo[i].level < l
<1> DEFINE n == Len(m.undo)
           T == {i \in DOMAIN m.undo : m.undo[i].level < l}
           S == {0} \cup T
<1>1. n \in Nat /\ DOMAIN m.undo = 1..n /\ \A i \in 1..n : m.undo[i].level \in Nat
  BY MapIs
<1>2. \E x \in S : \A y \in S : x >= y
  <2>1. CASE T = {}
    BY <2>1
  <2>2. CASE T # {}
    <3>1. T \in SUBSET (1..n)
      BY <1>1
    <3>2. PICK x \in T : \A y \in T : y <= x
      BY <1>1, <2>2, <3>1, GreatestNumber
    <3> QED BY <1>1, <3>1, <3>2
  <2> QED BY <2>1, <2>2
<1>3. Kept(m, l) \in S /\ \A y \in S : Kept(m, l) >= y
  <2>1. Kept(m, l) = Max(S)
    BY DEF Kept
  <2> HIDE DEF S
  <2> QED BY <1>2, <2>1 DEF Max
<1>4. Kept(m, l) \in 0..n
  BY <1>1, <1>3
<1>5. ASSUME NEW i \in DOMAIN m.undo PROVE i <= Kept(m, l) <=> m.undo[i].level < l
  <2>1. m.undo[i].level < l => i <= Kept(m, l)
    BY <1>1, <1>3, <1>4
  <2>2. ASSUME i <= Kept(m, l) PROVE m.undo[i].level < l
    <3>1. Kept(m, l) \in T
      BY <1>1, <1>3, <2>2
    <3>2. m.undo[i].level <= m.undo[Kept(m, l)].level
      BY <2>2, <3>1 DEF Sorted
    <3> QED BY <1>1, <3>1, <3>2
  <2> QED BY <2>1, <2>2
<1> QED BY <1>4, <1>5

\* the record that says what a key's edit was before the level
Before(m, l, k, j) ==
  /\ j \in DOMAIN m.undo /\ m.undo[j].key = k /\ m.undo[j].level >= l
  /\ \A h \in DOMAIN m.undo : h < j /\ m.undo[h].key = k => m.undo[h].level < l
Untouched(m, l, k) == \A h \in DOMAIN m.undo : m.undo[h].key = k => m.undo[h].level < l
Left(e, l) == IF e.born >= l THEN NoEdit ELSE e
Replaced(m, j) == [val |-> m.undo[j].val, born |-> m.undo[j].born]

LEMMA BeforeOr ==
  ASSUME NEW m \in Map, NEW l \in Nat, NEW k \in Keys
  PROVE  Untouched(m, l, k) \/ \E j \in DOMAIN m.undo : Before(m, l, k, j)
<1> SUFFICES ASSUME ~Untouched(m, l, k) PROVE \E j \in DOMAIN m.undo : Before(m, l, k, j)
  OBVIOUS
<1> DEFINE T == {h \in DOMAIN m.undo : m.undo[h].key = k /\ m.undo[h].level >= l}
<1>1. DOMAIN m.undo \subseteq Nat /\ \A i \in DOMAIN m.undo : m.undo[i].level \in Nat
  BY MapIs
<1>2. T \in SUBSET Nat /\ T # {}
  BY <1>1 DEF Untouched
<1>3. PICK j \in T : \A y \in T : j <= y
  BY <1>2, LeastNumber
<1>4. Before(m, l, k, j)
  BY <1>1, <1>3 DEF Before
<1> QED BY <1>4 DEF Before

LEMMA UndoneIs ==
  ASSUME NEW m \in Map, Sorted(m), NEW l \in Nat, NEW k \in Keys
  PROVE  /\ Untouched(m, l, k) => Undone(m, l)[k] = m.edits[k]
         /\ \A j : Before(m, l, k, j) => Undone(m, l)[k] = Replaced(m, j)
<1> DEFINE recs == {i \in DOMAIN m.undo : i > Kept(m, l) /\ m.undo[i].key = k}
<1>1. DOMAIN m.undo \subseteq Nat /\ \A i \in DOMAIN m.undo : m.undo[i].level \in Nat
  BY MapIs
<1>2. Kept(m, l) \in Nat /\ \A i \in DOMAIN m.undo : i <= Kept(m, l) <=> m.undo[i].level < l
  BY KeptIs
<1>3. recs = {i \in DOMAIN m.undo : m.undo[i].level >= l /\ m.undo[i].key = k}
  BY <1>1, <1>2
<1>4. Undone(m, l)[k] = IF recs = {} THEN m.edits[k]
                        ELSE [val |-> m.undo[Min(recs)].val, born |-> m.undo[Min(recs)].born]
  BY DEF Undone
<1>5. ASSUME Untouched(m, l, k) PROVE recs = {}
  BY <1>1, <1>3, <1>5 DEF Untouched
<1>6. ASSUME NEW j, Before(m, l, k, j) PROVE recs # {} /\ Min(recs) = j
  <2>1. j \in recs
    BY <1>3, <1>6 DEF Before
  <2>2. \A y \in recs : j <= y
    BY <1>1, <1>3, <1>6 DEF Before
  <2>3. \A x \in recs : (\A y \in recs : x =< y) => x = j
    BY <1>1, <1>3, <2>1, <2>2
  <2> HIDE DEF recs
  <2>4. Min(recs) = j
    BY <2>1, <2>2, <2>3 DEF Min
  <2> QED BY <2>1, <2>4
<1> HIDE DEF recs
<1> QED BY <1>4, <1>5, <1>6 DEF Replaced

LEMMA ViewIs ==
  ASSUME NEW m \in Map, Sorted(m), NEW l \in Nat
  PROVE  /\ View(m, l) = [k \in Keys |-> Left(Undone(m, l)[k], l)]
         /\ \A k \in Keys : Untouched(m, l, k) => View(m, l)[k] = Left(m.edits[k], l)
         /\ \A k \in Keys, j \in DOMAIN m.undo :
              Before(m, l, k, j) => View(m, l)[k] = Left(Replaced(m, j), l)
<1>1. View(m, l) = [k \in Keys |-> Left(Undone(m, l)[k], l)]
  BY MapIs DEF View, RollbackMap, Left, Map
<1>2. \A k \in Keys : View(m, l)[k] = Left(Undone(m, l)[k], l)
  BY <1>1
<1> QED BY <1>1, <1>2, UndoneIs

LEMMA SameView ==
  ASSUME NEW m \in Map, NEW p \in Map, Sorted(m), Sorted(p), NEW l \in Nat,
         \A k \in Keys : View(p, l)[k] = View(m, l)[k]
  PROVE  View(p, l) = View(m, l)
<1> DEFINE v == View(p, l)
           w == View(m, l)
<1>1. v = [k \in Keys |-> Left(Undone(p, l)[k], l)] /\ w = [k \in Keys |-> Left(Undone(m, l)[k], l)]
  BY ViewIs
<1>2. v = [k \in Keys |-> v[k]] /\ w = [k \in Keys |-> w[k]] /\ \A k \in Keys : v[k] = w[k]
  BY <1>1
<1> HIDE DEF v, w
<1>3. v = w
  BY <1>2
<1> QED BY <1>3 DEF v, w

LEMMA ReplacedIs ==
  ASSUME NEW m \in Map, NEW j \in DOMAIN m.undo
  PROVE  Replaced(m, j) \in Edit /\ Replaced(m, j).born = m.undo[j].born
                                /\ Replaced(m, j).val = m.undo[j].val
<1>1. m.undo[j].val \in Row /\ m.undo[j].born \in Level
  BY MapIs
<1> QED BY <1>1 DEF Replaced, Edit

LEMMA UndoneType ==
  ASSUME NEW m \in Map, Sorted(m), NEW l \in Nat
  PROVE  Undone(m, l) \in [Keys -> Edit]
<1>1. \A k \in Keys : Undone(m, l)[k] \in Edit
  <2> TAKE k \in Keys
  <2>1. CASE Untouched(m, l, k)
    BY <2>1, UndoneIs, MapIs
  <2>2. CASE \E j \in DOMAIN m.undo : Before(m, l, k, j)
    BY <2>2, UndoneIs, ReplacedIs
  <2> QED BY <2>1, <2>2, BeforeOr
<1> QED BY <1>1 DEF Undone

\* A rollback never drops an edit that has an undo record left: the edit is as
\* old as the newest of them
LEMMA KeptAreAlive ==
  ASSUME NEW m, MapOK(m), NEW l \in Nat, NEW i \in DOMAIN m.undo, m.undo[i].level < l,
         \A h \in DOMAIN m.undo : i < h /\ m.undo[h].key = m.undo[i].key => m.undo[h].level >= l
  PROVE  Undone(m, l)[m.undo[i].key].born = m.undo[i].level
<1> DEFINE k == m.undo[i].key
<1>0. m \in Map /\ Sorted(m) /\ Chained(m)
  BY DEF MapOK
<1>1. /\ DOMAIN m.undo \subseteq Nat /\ k \in Keys
      /\ \A h \in DOMAIN m.undo : m.undo[h].level \in Nat
  BY <1>0, MapIs
<1>2. CASE Untouched(m, l, k)
  <2>1. Newest(m, i)
    BY <1>1, <1>2 DEF Untouched, Newest
  <2>2. m.edits[k].born = m.undo[i].level
    BY <1>0, <2>1 DEF Chained
  <2> QED BY <1>0, <1>1, <1>2, <2>2, UndoneIs
<1>3. CASE \E j \in DOMAIN m.undo : Before(m, l, k, j)
  <2>1. PICK j \in DOMAIN m.undo : Before(m, l, k, j)
    BY <1>3
  <2>2. m.undo[j].key = k /\ m.undo[j].level >= l
        /\ \A h \in DOMAIN m.undo : h < j /\ m.undo[h].key = k => m.undo[h].level < l
    BY <2>1 DEF Before
  <2>3. i < j
    BY <1>0, <1>1, <2>2 DEF Sorted
  <2>4. Follows(m, i, j)
    BY <1>1, <2>2, <2>3 DEF Follows
  <2>5. m.undo[i].level \in {m.undo[j].born, m.undo[j].level}
    BY <1>0, <2>4 DEF Chained
  <2>6. m.undo[j].born = m.undo[i].level
    BY <1>1, <2>2, <2>5
  <2> QED BY <1>0, <1>1, <2>1, <2>6, UndoneIs, ReplacedIs
<1> QED BY <1>0, <1>1, <1>2, <1>3, BeforeOr

LEMMA NewestKept ==
  ASSUME NEW m, MapOK(m), NEW l \in Nat, NEW i \in DOMAIN m.undo, m.undo[i].level < l
  PROVE  Undone(m, l)[m.undo[i].key].born < l
<1>1. m \in Map /\ Sorted(m)
  BY DEF MapOK
<1> DEFINE n == Len(m.undo)
           T == {h \in DOMAIN m.undo : m.undo[h].key = m.undo[i].key /\ m.undo[h].level < l}
<1>2. n \in Nat /\ DOMAIN m.undo = 1..n /\ \A h \in DOMAIN m.undo : m.undo[h].level \in Nat
  BY <1>1, MapIs
<1>3. T \in SUBSET (1..n) /\ T # {}
  BY <1>2
<1>4. PICK x \in T : \A y \in T : y <= x
  BY <1>2, <1>3, GreatestNumber
<1>5. \A h \in DOMAIN m.undo : x < h /\ m.undo[h].key = m.undo[x].key => m.undo[h].level >= l
  BY <1>2, <1>4
<1>6. Undone(m, l)[m.undo[x].key].born = m.undo[x].level
  BY <1>4, <1>5, KeptAreAlive
<1> QED BY <1>4, <1>6

\* What a rollback leaves of a buffer
LEMMA RollbackIs ==
  ASSUME NEW m, MapOK(m), NEW l \in Nat
  PROVE  LET r == RollbackMap(m, l) IN
         /\ r.live = m.live /\ r.level = l - 1 /\ r.edits = View(m, l)
         /\ r.undo = [i \in 1..Kept(m, l) |-> m.undo[i]]
<1>1. m \in Map /\ Sorted(m)
  BY DEF MapOK
<1> DEFINE Dropped(k) == Undone(m, l)[k].born >= l
           undo == [i \in 1..Kept(m, l) |-> [m.undo[i] EXCEPT !.key =
                      IF Dropped(@) THEN NoEntry ELSE @]]
<1>2. RollbackMap(m, l).undo = undo
  BY <1>1 DEF RollbackMap, Map
<1>3. RollbackMap(m, l).live = m.live /\ RollbackMap(m, l).level = l - 1
  BY <1>1 DEF RollbackMap, Map
<1>4. \A i \in 1..Kept(m, l) : i \in DOMAIN m.undo /\ m.undo[i].level < l
  <2>1. Kept(m, l) \in 0..Len(m.undo) /\ Len(m.undo) \in Nat /\ DOMAIN m.undo = 1..Len(m.undo)
    BY <1>1, KeptIs, MapIs
  <2>2. \A i \in DOMAIN m.undo : i <= Kept(m, l) <=> m.undo[i].level < l
    BY <1>1, KeptIs
  <2> QED BY <2>1, <2>2
<1>5. ASSUME NEW i \in 1..Kept(m, l) PROVE undo[i] = m.undo[i]
  <2>1. m.undo[i] \in UndoRec /\ m.undo[i].key \in Keys
    BY <1>1, <1>4, MapIs
  <2>2. Undone(m, l)[m.undo[i].key].born < l
    BY <1>4, NewestKept
  <2>3. Undone(m, l)[m.undo[i].key].born \in Int
    BY <1>1, <2>1, UndoneType, EditIs
  <2>4. ~Dropped(m.undo[i].key)
    BY <2>2, <2>3
  <2>5. undo[i] = [m.undo[i] EXCEPT !.key = m.undo[i].key]
    BY <2>4
  <2>6. \A r \in UndoRec : [r EXCEPT !.key = r.key] = r
    BY DEF UndoRec
  <2> QED BY <2>1, <2>5, <2>6
<1> HIDE DEF undo
<1>6. undo = [i \in 1..Kept(m, l) |-> m.undo[i]]
  <2>1. undo = [i \in 1..Kept(m, l) |-> undo[i]]
    BY DEF undo
  <2> QED BY <1>5, <2>1
<1> QED BY <1>2, <1>3, <1>6 DEF View

\* It is well formed again, and a rollback to an outer savepoint finds in it
\* what it would have found before
LEMMA RollbackOK ==
  ASSUME NEW m, MapOK(m), m.live, NEW l \in 1..MaxDepth + 1
  PROVE  MapOK(RollbackMap(m, l)) /\ Within(RollbackMap(m, l), l - 1)
<1> DEFINE r == RollbackMap(m, l)
<1>0. l \in Nat /\ l - 1 \in Level /\ -1 < l
  BY ClientAssumption DEF Level
<1>1. m \in Map /\ Sorted(m) /\ Chained(m)
  BY DEF MapOK
<1>2. /\ r.live = m.live /\ r.level = l - 1 /\ r.edits = View(m, l)
      /\ r.undo = [i \in 1..Kept(m, l) |-> m.undo[i]]
  BY <1>0, RollbackIs
<1>3. \A i \in DOMAIN m.undo : i <= Kept(m, l) <=> m.undo[i].level < l
  BY <1>0, <1>1, KeptIs
<1>4. /\ Kept(m, l) \in 0..Len(m.undo) /\ Len(m.undo) \in Nat /\ DOMAIN m.undo = 1..Len(m.undo)
      /\ \A i \in DOMAIN m.undo : m.undo[i].level \in Nat /\ m.undo[i] \in UndoRec
                                  /\ m.undo[i].key \in Keys
  BY <1>0, <1>1, KeptIs, MapIs
<1>5. /\ DOMAIN r.undo = 1..Kept(m, l)
      /\ \A i \in DOMAIN r.undo : i \in DOMAIN m.undo /\ r.undo[i] = m.undo[i]
                                  /\ m.undo[i].level < l
  BY <1>2, <1>3, <1>4
<1>6. \A k \in Keys : /\ Undone(m, l)[k] \in Edit /\ Undone(m, l)[k].born \in Int
                      /\ r.edits[k] = Left(Undone(m, l)[k], l)
  BY <1>0, <1>1, <1>2, UndoneType, EditIs, ViewIs
<1>7. \A k \in Keys : r.edits[k] \in Edit /\ r.edits[k].born < l
  BY <1>0, <1>6 DEF Left, NoEdit, Edit
<1>8. r \in Map
  <2>1. r.edits \in [Keys -> Edit]
    BY <1>0, <1>1, <1>2, <1>7, ViewIs
  <2>2. r.undo \in Seq(UndoRec)
    <3>1. Kept(m, l) \in Nat /\ \A i \in 1..Kept(m, l) : m.undo[i] \in UndoRec
      BY <1>4, <1>5
    <3>2. r.undo \in [1..Kept(m, l) -> UndoRec]
      BY <1>2, <3>1
    <3> HIDE DEF r
    <3> QED BY <3>1, <3>2
  <2>3. r = [m EXCEPT !.edits = r.edits, !.undo = r.undo, !.level = r.level]
    BY <1>1 DEF RollbackMap, Map
  <2> HIDE DEF r
  <2>4. r.level \in Level
    BY <1>0, <1>2
  <2> QED BY <1>1, <2>1, <2>2, <2>3, <2>4 DEF Map
<1>9. Sorted(r)
  BY <1>1, <1>5 DEF Sorted
<1>10. ASSUME NEW i \in DOMAIN r.undo, Newest(r, i)
       PROVE  r.edits[r.undo[i].key].born = r.undo[i].level
  <2>1. \A h \in DOMAIN m.undo : i < h /\ m.undo[h].key = m.undo[i].key => m.undo[h].level >= l
    BY <1>3, <1>4, <1>5, <1>10 DEF Newest
  <2>2. Undone(m, l)[m.undo[i].key].born = m.undo[i].level
    BY <1>0, <1>5, <2>1, KeptAreAlive
  <2>3. m.undo[i].level < l /\ m.undo[i].key \in Keys /\ r.undo[i] = m.undo[i]
        /\ m.undo[i].level \in Nat
    BY <1>4, <1>5
  <2> QED BY <1>0, <1>6, <2>2, <2>3 DEF Left
<1>11. ASSUME NEW i \in DOMAIN r.undo, NEW j \in DOMAIN r.undo, Follows(r, i, j)
       PROVE  r.undo[i].level \in {r.undo[j].born, r.undo[j].level}
  <2>1. \A h \in DOMAIN m.undo : i < h /\ h < j => h \in DOMAIN r.undo
    BY <1>4, <1>5
  <2>2. Follows(m, i, j)
    BY <1>5, <1>11, <2>1 DEF Follows
  <2> QED BY <1>1, <1>5, <2>2 DEF Chained
<1>12. Chained(r)
  BY <1>10, <1>11 DEF Chained
<1>13. MapOK(r)
  BY <1>2, <1>8, <1>9, <1>12 DEF MapOK
<1>14. Within(r, l - 1)
  <2>1. \A k \in Keys : r.edits[k].born <= l - 1
    BY <1>7, EditIs
  <2>2. \A i \in DOMAIN r.undo : r.undo[i].level <= l - 1
    BY <1>4, <1>5
  <2> QED BY <2>1, <2>2 DEF Within
<1> QED BY <1>13, <1>14

LEMMA RollbackView ==
  ASSUME NEW m, MapOK(m), m.live, NEW l \in 1..MaxDepth + 1, NEW j \in 1..l
  PROVE  View(RollbackMap(m, l), j) = View(m, j)
<1> DEFINE r == RollbackMap(m, l)
<1>0. l \in Nat /\ j \in Nat
  OBVIOUS
<1>1. m \in Map /\ Sorted(m) /\ MapOK(r)
  BY RollbackOK DEF MapOK
<1>2. r.edits = View(m, l) /\ r.undo = [i \in 1..Kept(m, l) |-> m.undo[i]] /\ r \in Map /\ Sorted(r)
  BY <1>0, <1>1, RollbackIs DEF MapOK
<1>3. \A i \in DOMAIN m.undo : i <= Kept(m, l) <=> m.undo[i].level < l
  BY <1>0, <1>1, KeptIs
<1>4. /\ Kept(m, l) \in 0..Len(m.undo) /\ Len(m.undo) \in Nat /\ DOMAIN m.undo = 1..Len(m.undo)
      /\ \A i \in DOMAIN m.undo : m.undo[i].level \in Nat
  BY <1>0, <1>1, KeptIs, MapIs
<1>5. /\ DOMAIN r.undo \subseteq DOMAIN m.undo
      /\ \A i \in DOMAIN m.undo : i \in DOMAIN r.undo <=> m.undo[i].level < l
      /\ \A i \in DOMAIN r.undo : r.undo[i] = m.undo[i]
  BY <1>2, <1>3, <1>4
<1> HIDE DEF r
<1>6. ASSUME NEW k \in Keys PROVE View(r, j)[k] = View(m, j)[k]
  <2>1. CASE \E h \in DOMAIN r.undo : Before(r, j, k, h)
    <3>1. PICK h \in DOMAIN r.undo : Before(r, j, k, h)
      BY <2>1
    <3>2. Before(m, j, k, h)
      <4>1. h \in DOMAIN m.undo /\ m.undo[h].key = k /\ m.undo[h].level >= j
        BY <1>5, <3>1 DEF Before
      <4>2. ASSUME NEW g \in DOMAIN m.undo, g < h, m.undo[g].key = k PROVE m.undo[g].level < j
        <5>1. m.undo[g].level <= m.undo[h].level /\ m.undo[h].level < l
          BY <1>1, <1>4, <1>5, <4>1, <4>2 DEF Sorted
        <5>2. g \in DOMAIN r.undo /\ r.undo[g] = m.undo[g]
          BY <1>0, <1>4, <1>5, <4>1, <5>1
        <5> QED BY <3>1, <4>2, <5>2 DEF Before
      <4> QED BY <4>1, <4>2 DEF Before
    <3>3. Replaced(r, h) = Replaced(m, h) /\ h \in DOMAIN m.undo
      BY <1>5 DEF Replaced
    <3>4. View(r, j)[k] = Left(Replaced(r, h), j)
      BY <1>0, <1>2, <3>1, ViewIs
    <3>5. View(m, j)[k] = Left(Replaced(m, h), j)
      BY <1>0, <1>1, <3>2, <3>3, ViewIs
    <3> QED BY <3>3, <3>4, <3>5
  <2>2. CASE Untouched(r, j, k)
    <3>1. View(r, j)[k] = Left(View(m, l)[k], j)
      BY <1>0, <1>1, <1>2, <2>2, ViewIs
    <3>2. ASSUME NEW e \in Edit PROVE Left(Left(e, l), j) = Left(e, j)
      BY EditIs DEF Left, NoEdit
    <3>3. CASE Untouched(m, l, k)
      <4>1. Untouched(m, j, k)
        BY <1>0, <1>4, <1>5, <2>2, <3>3 DEF Untouched
      <4> QED BY <1>0, <1>1, <3>1, <3>2, <3>3, <4>1, ViewIs, MapIs
    <3>4. CASE \E h \in DOMAIN m.undo : Before(m, l, k, h)
      <4>1. PICK h \in DOMAIN m.undo : Before(m, l, k, h)
        BY <3>4
      <4>2. Before(m, j, k, h)
        <5>1. h \in DOMAIN m.undo /\ m.undo[h].key = k /\ m.undo[h].level >= j
          BY <1>0, <1>4, <4>1 DEF Before
        <5>2. ASSUME NEW g \in DOMAIN m.undo, g < h, m.undo[g].key = k PROVE m.undo[g].level < j
          <6>1. m.undo[g].level < l
            BY <4>1, <5>2 DEF Before
          <6>2. g \in DOMAIN r.undo /\ r.undo[g] = m.undo[g]
            BY <1>5, <6>1
          <6> QED BY <2>2, <5>2, <6>2 DEF Untouched
        <5> QED BY <5>1, <5>2 DEF Before
      <4>3. View(m, l)[k] = Left(Replaced(m, h), l) /\ View(m, j)[k] = Left(Replaced(m, h), j)
        BY <1>0, <1>1, <4>1, <4>2, ViewIs
      <4> QED BY <1>1, <3>1, <3>2, <4>3, ReplacedIs
    <3> QED BY <1>0, <1>1, <3>3, <3>4, BeforeOr
  <2> QED BY <1>0, <1>2, <2>1, <2>2, BeforeOr
<1> QED BY <1>0, <1>1, <1>2, <1>6, SameView DEF r

\* Only edits and undo log of a buffer say what a rollback leaves of it
LEMMA ViewSame ==
  ASSUME NEW m \in Map, NEW p \in Map, Sorted(m), Sorted(p),
         p.edits = m.edits, p.undo = m.undo, NEW l \in Nat
  PROVE  View(p, l) = View(m, l)
<1>1. Undone(p, l) = Undone(m, l)
  BY DEF Undone, Kept
<1> QED BY <1>1, ViewIs

\* A rollback leaves everything that was there before the level was opened
LEMMA ViewAll ==
  ASSUME NEW m, MapOK(m), NEW n \in Nat, Within(m, n), NEW l \in Nat, n < l
  PROVE  View(m, l) = m.edits
<1>1. m \in Map /\ Sorted(m)
  BY DEF MapOK
<1>2. /\ \A i \in DOMAIN m.undo : m.undo[i].level \in Nat /\ m.undo[i].level < l
      /\ \A k \in Keys : m.edits[k].born \in Int /\ m.edits[k].born < l
  BY <1>1, MapIs DEF Within
<1>3. \A k \in Keys : View(m, l)[k] = m.edits[k]
  BY <1>1, <1>2, ViewIs DEF Untouched, Left
<1>4. View(m, l) = [k \in Keys |-> Left(Undone(m, l)[k], l)]
  BY <1>1, ViewIs
<1>5. m.edits = [k \in Keys |-> m.edits[k]]
  BY <1>1, MapIs
<1> DEFINE v == View(m, l)
<1>6. v = [k \in Keys |-> v[k]]
  BY <1>4
<1> HIDE DEF v
<1>7. \A k \in Keys : v[k] = m.edits[k]
  BY <1>3 DEF v
<1>8. v = m.edits
  BY <1>5, <1>6, <1>7
<1> QED BY <1>8 DEF v

LEMMA ApplyIs ==
  ASSUME NEW m \in Map, NEW t \in Table
  PROVE  /\ Apply(m, t) \in Table
         /\ \A k \in Keys : Apply(m, t)[k] = IF m.edits[k].born = -1 THEN t[k]
                                             ELSE m.edits[k].val
         /\ (\A k \in Keys : m.edits[k].born = -1) => Apply(m, t) = t
<1>1. \A k \in Keys : /\ m.edits[k] \in Edit /\ m.edits[k].val \in Row
                      /\ m.edits[k].born = -1 <=> m.edits[k] = NoEdit
  BY MapIs, EditIs
<1>2. \A k \in Keys : Apply(m, t)[k] = IF m.edits[k].born = -1 THEN t[k] ELSE m.edits[k].val
  BY <1>1 DEF Apply, Edited
<1>3. \A k \in Keys : t[k] \in Row /\ Apply(m, t)[k] \in Row
  BY <1>1, <1>2 DEF Table
<1>4. Apply(m, t) \in Table
  BY <1>3 DEF Apply, Table
<1>5. ASSUME \A k \in Keys : m.edits[k].born = -1 PROVE Apply(m, t) = t
  <2> DEFINE a == Apply(m, t)
  <2>1. a \in [Keys -> Row] /\ t \in [Keys -> Row] /\ \A k \in Keys : a[k] = t[k]
    BY <1>2, <1>4, <1>5 DEF Table
  <2> HIDE DEF a
  <2>2. a = t
    BY <2>1
  <2> QED BY <2>2 DEF a
<1> QED BY <1>2, <1>4, <1>5

\* Tables are equal if their rows are
LEMMA SameTable ==
  ASSUME NEW s \in Table, NEW t \in Table, \A k \in Keys : s[k] = t[k]
  PROVE  s = t
BY DEF Table

\* The same edits make the same table
LEMMA ApplySame ==
  ASSUME NEW m, NEW p, p.edits = m.edits, NEW t
  PROVE  Apply(p, t) = Apply(m, t)
BY DEF Apply, Edited

\* A buffer that a savepoint has taken, or that starts anew, has no edits
LEMMA NoEdits ==
  ASSUME NEW l \in Nat \ {0}, NEW t \in Table
  PROVE  View(NoMap, l) = NoMap.edits /\ Apply(NoMap, t) = t
<1>1. View(NoMap, l) = NoMap.edits
  <2>1. 0 \in Nat /\ l \in Nat /\ 0 < l
    OBVIOUS
  <2> QED BY <2>1, NoMapIs, ViewAll
<1>2. NoMap \in Map /\ \A k \in Keys : NoMap.edits[k].born = -1
  BY NoMapIs DEF MapOK, NoMap, NoEdit
<1> QED BY <1>1, <1>2, ApplyIs

LEMMA LevelSet ==
  ASSUME NEW m, MapOK(m), m.live, NEW n \in Level
  PROVE  LET p == [m EXCEPT !.level = n] IN
         /\ MapOK(p) /\ p.live /\ p.level = n /\ p.edits = m.edits /\ p.undo = m.undo
         /\ \A l \in Nat : View(p, l) = View(m, l)
<1> DEFINE p == [m EXCEPT !.level = n]
<1>1. m \in Map /\ Sorted(m) /\ Chained(m)
  BY DEF MapOK
<1>2. p \in Map /\ p.live = m.live /\ p.level = n /\ p.edits = m.edits /\ p.undo = m.undo
  BY <1>1 DEF Map
<1> HIDE DEF p
<1>3. Sorted(p)
  BY <1>1, <1>2 DEF Sorted
<1>4. Chained(p)
  BY <1>1, <1>2 DEF Chained, Follows, Newest
<1>5. MapOK(p)
  BY <1>2, <1>3, <1>4 DEF MapOK
<1>6. \A l \in Nat : View(p, l) = View(m, l)
  BY <1>1, <1>2, <1>3, ViewSame
<1> QED BY <1>2, <1>5, <1>6 DEF p

\* A live buffer without edits
LEMMA Blank ==
  ASSUME NEW p, p \in Map, p.live, p.edits = NoMap.edits, p.undo = <<>>
  PROVE  MapOK(p) /\ \A n \in Nat : Within(p, n)
<1>1. DOMAIN p.undo = {} /\ \A k \in Keys : p.edits[k].born = -1
  BY DEF NoMap, NoEdit
<1> QED BY <1>1 DEF MapOK, Sorted, Chained, Within

\* A release lowers levels and nothing else
LEMMA ReleaseFields ==
  ASSUME NEW m, MapOK(m), NEW l \in 1..MaxDepth + 1
  PROVE  LET r == ReleaseMap(m, l) IN
         /\ r \in Map /\ r.live = m.live /\ r.level = l - 1
         /\ \A k \in Keys : /\ r.edits[k].val = m.edits[k].val
                            /\ r.edits[k].born = IF l = 1 THEN Lowered(m.edits[k].born)
                                                ELSE Capped(m.edits[k].born, l)
<1> DEFINE r == ReleaseMap(m, l)
           Lower(b) == IF l = 1 THEN Lowered(b) ELSE Capped(b, l)
           edits == [k \in Keys |-> [m.edits[k] EXCEPT !.born = Lower(@)]]
           undo == IF l = 1 THEN <<>>
                   ELSE [i \in DOMAIN m.undo |-> [m.undo[i] EXCEPT !.level = Capped(@, l)]]
<1>0. l \in Nat /\ l - 1 \in Level /\ l - 1 \in Nat
  BY ClientAssumption DEF Level
<1>1. m \in Map
  BY DEF MapOK
<1>2. m = [live |-> m.live, edits |-> m.edits, undo |-> m.undo, level |-> m.level]
  BY <1>1 DEF Map
<1>3. r = [m EXCEPT !.edits = edits, !.undo = undo, !.level = l - 1]
  <2>1. CASE l = 1
    BY <2>1 DEF ReleaseMap
  <2>2. CASE l # 1
    BY <2>2 DEF ReleaseMap
  <2> QED BY <2>1, <2>2
<1>4. ASSUME NEW e \in Edit
      PROVE  /\ [e EXCEPT !.born = Lower(@)] \in Edit
             /\ [e EXCEPT !.born = Lower(@)].val = e.val
             /\ [e EXCEPT !.born = Lower(@)].born = Lower(e.born)
  <2>1. CASE e = NoEdit
    <3>1. Lower(-1) = -1
      BY <1>0 DEF Lowered, Capped
    <3>2. [NoEdit EXCEPT !.born = -1] = NoEdit
      BY DEF NoEdit
    <3> QED BY <2>1, <3>1, <3>2 DEF NoEdit
  <2>2. CASE e \in [val : Row, born : Level]
    <3>1. e.born \in Level /\ Lower(e.born) \in Level
      BY <1>0, <2>2, ClientAssumption DEF Lowered, Capped, Level
    <3> HIDE DEF Lower
    <3> QED BY <2>2, <3>1 DEF Edit
  <2> QED BY <2>1, <2>2 DEF Edit
<1>5. \A k \in Keys : /\ m.edits[k] \in Edit /\ edits[k] \in Edit
                      /\ edits[k].val = m.edits[k].val
                      /\ edits[k].born = Lower(m.edits[k].born)
  BY <1>1, <1>4, MapIs
<1>6. edits \in [Keys -> Edit]
  BY <1>5
<1>7. undo \in Seq(UndoRec)
  <2>1. CASE l = 1
    BY <2>1
  <2>2. CASE l # 1
    <3>1. Len(m.undo) \in Nat /\ DOMAIN m.undo = 1..Len(m.undo)
          /\ \A i \in DOMAIN m.undo : m.undo[i] \in UndoRec
      BY <1>1, MapIs
    <3>2. ASSUME NEW u \in UndoRec PROVE [u EXCEPT !.level = Capped(@, l)] \in UndoRec
      <4>1. u.level \in Level /\ Capped(u.level, l) \in Level
        BY <1>0, ClientAssumption DEF UndoRec, Capped, Level
      <4> QED BY <4>1 DEF UndoRec
    <3>3. undo \in [1..Len(m.undo) -> UndoRec]
      BY <2>2, <3>1, <3>2
    <3> HIDE DEF undo
    <3> QED BY <3>1, <3>3
  <2> QED BY <2>1, <2>2
<1> HIDE DEF edits, undo, r
<1>8. r \in Map /\ r.live = m.live /\ r.level = l - 1 /\ r.edits = edits /\ r.undo = undo
  BY <1>0, <1>1, <1>3, <1>6, <1>7 DEF Map
<1> QED BY <1>5, <1>8 DEF r, undo

LEMMA ReleaseLog ==
  ASSUME NEW m, MapOK(m), NEW l \in 1..MaxDepth + 1
  PROVE  /\ l = 1 => ReleaseMap(m, l).undo = <<>>
         /\ l # 1 => ReleaseMap(m, l).undo =
              [i \in DOMAIN m.undo |-> [m.undo[i] EXCEPT !.level = Capped(@, l)]]
<1>1. m \in Map
  BY DEF MapOK
<1>2. CASE l = 1
  BY <1>1, <1>2 DEF ReleaseMap, Map
<1>3. CASE l # 1
  BY <1>1, <1>3 DEF ReleaseMap, Map
<1> QED BY <1>2, <1>3

LEMMA ReleaseUndo ==
  ASSUME NEW m, MapOK(m), NEW l \in 1..MaxDepth + 1, l # 1
  PROVE  LET r == ReleaseMap(m, l) IN
         /\ DOMAIN r.undo = DOMAIN m.undo
         /\ \A i \in DOMAIN m.undo :
              /\ r.undo[i].key = m.undo[i].key /\ r.undo[i].val = m.undo[i].val
              /\ r.undo[i].born = m.undo[i].born
              /\ r.undo[i].level = Capped(m.undo[i].level, l)
<1> DEFINE undo == [i \in DOMAIN m.undo |-> [m.undo[i] EXCEPT !.level = Capped(@, l)]]
<1>1. ReleaseMap(m, l).undo = undo
  BY ReleaseLog
<1>2. \A i \in DOMAIN m.undo : m.undo[i] \in UndoRec
  BY MapIs DEF MapOK
<1>3. \A u \in UndoRec : LET p == [u EXCEPT !.level = Capped(@, l)] IN
        /\ p.key = u.key /\ p.val = u.val /\ p.born = u.born /\ p.level = Capped(u.level, l)
  BY DEF UndoRec
<1>4. DOMAIN undo = DOMAIN m.undo
      /\ \A i \in DOMAIN m.undo : /\ undo[i].key = m.undo[i].key /\ undo[i].val = m.undo[i].val
                                  /\ undo[i].born = m.undo[i].born
                                  /\ undo[i].level = Capped(m.undo[i].level, l)
  BY <1>2, <1>3
<1> HIDE DEF undo
<1> QED BY <1>1, <1>4

\* The buffer stays well formed and claims no level that is gone: of an outermost
\* savepoint only if no other was released with it
LEMMA ReleaseOK ==
  ASSUME NEW m, MapOK(m), m.live, NEW l \in 1..MaxDepth + 1, l = 1 => Within(m, 1)
  PROVE  MapOK(ReleaseMap(m, l)) /\ Within(ReleaseMap(m, l), l - 1)
<1> DEFINE r == ReleaseMap(m, l)
<1>1. m \in Map /\ Sorted(m) /\ Chained(m)
  BY DEF MapOK
<1>6. r.live = m.live /\ r.level = l - 1
  BY ReleaseFields
<1>2. /\ r \in Map
      /\ \A k \in Keys : /\ r.edits[k].val = m.edits[k].val
                         /\ r.edits[k].born = IF l = 1 THEN Lowered(m.edits[k].born)
                                             ELSE Capped(m.edits[k].born, l)
  BY ReleaseFields
<1>3. /\ \A k \in Keys : m.edits[k].born \in Int
      /\ \A i \in DOMAIN m.undo : m.undo[i].level \in Nat /\ m.undo[i].key \in Keys
  BY <1>1, MapIs
<1>4. CASE l = 1
  <2>1. r.undo = <<>>
    BY <1>4, ReleaseLog
  <2>2. \A k \in Keys : r.edits[k].born <= 0
    BY <1>2, <1>3, <1>4 DEF Lowered, Within
  <2> HIDE DEF r
  <2>3. DOMAIN r.undo = {}
    BY <2>1
  <2>4. MapOK(r)
    BY <1>2, <1>6, <2>3 DEF MapOK, Sorted, Chained
  <2>5. Within(r, 0)
    BY <2>2, <2>3 DEF Within
  <2> QED BY <1>4, <2>4, <2>5 DEF r
<1>5. CASE l # 1
  <2>1. /\ DOMAIN r.undo = DOMAIN m.undo
        /\ \A i \in DOMAIN m.undo : /\ r.undo[i].key = m.undo[i].key
                                    /\ r.undo[i].born = m.undo[i].born
                                    /\ r.undo[i].level = Capped(m.undo[i].level, l)
    BY <1>5, ReleaseUndo
  <2> HIDE DEF r
  <2>2. Sorted(r)
    BY <1>1, <1>3, <2>1 DEF Sorted, Capped
  <2>3. ASSUME NEW i \in DOMAIN r.undo, Newest(r, i)
        PROVE  r.edits[r.undo[i].key].born = r.undo[i].level
    <3>1. Newest(m, i)
      BY <2>1, <2>3 DEF Newest
    <3>2. m.edits[m.undo[i].key].born = m.undo[i].level
      BY <1>1, <2>1, <3>1 DEF Chained
    <3> QED BY <1>2, <1>3, <1>5, <2>1, <3>2 DEF r
  <2>4. ASSUME NEW i \in DOMAIN r.undo, NEW j \in DOMAIN r.undo, Follows(r, i, j)
        PROVE  r.undo[i].level \in {r.undo[j].born, r.undo[j].level}
    <3>1. Follows(m, i, j)
      BY <2>1, <2>4 DEF Follows
    <3>2. m.undo[i].level \in {m.undo[j].born, m.undo[j].level}
      BY <1>1, <2>1, <3>1 DEF Chained
    <3>3. m.undo[i].level <= m.undo[j].level
      BY <1>1, <1>3, <2>1, <3>1, MapIs DEF Sorted, Follows
    <3> QED BY <1>3, <2>1, <3>2, <3>3 DEF Capped
  <2>5. MapOK(r)
    BY <1>2, <1>6, <2>2, <2>3, <2>4 DEF MapOK, Chained, r
  <2>6. Within(r, l - 1)
    BY <1>2, <1>3, <1>5, <2>1 DEF Within, Capped, r
  <2> QED BY <2>5, <2>6 DEF r
<1> QED BY <1>4, <1>5

LEMMA ReleaseApply ==
  ASSUME NEW m, MapOK(m), NEW l \in 1..MaxDepth + 1, NEW t \in Table
  PROVE  Apply(ReleaseMap(m, l), t) = Apply(m, t)
<1> DEFINE r == ReleaseMap(m, l)
<1>1. /\ m \in Map /\ r \in Map
      /\ \A k \in Keys : /\ r.edits[k].val = m.edits[k].val
                         /\ r.edits[k].born = IF l = 1 THEN Lowered(m.edits[k].born)
                                             ELSE Capped(m.edits[k].born, l)
  BY ReleaseFields DEF MapOK
<1>2. \A k \in Keys : m.edits[k].born \in -1..MaxDepth + 1
  BY <1>1, MapIs
<1> HIDE DEF r
<1>3. \A k \in Keys : r.edits[k].born = -1 <=> m.edits[k].born = -1
  BY <1>1, <1>2, ClientAssumption DEF Lowered, Capped
<1>4. \A k \in Keys : Apply(r, t)[k] = Apply(m, t)[k]
  BY <1>1, <1>3, ApplyIs
<1> QED BY <1>1, <1>4, ApplyIs, SameTable DEF r

\* A rollback to an outer savepoint finds what it would have found before
LEMMA ReleaseView ==
  ASSUME NEW m, MapOK(m), m.live, NEW l \in 1..MaxDepth + 1, NEW j \in 1..l - 1
  PROVE  View(ReleaseMap(m, l), j) = View(m, j)
<1> DEFINE r == ReleaseMap(m, l)
<1>0. l # 1 /\ j \in Nat /\ j <= l - 1 /\ l \in Nat
  OBVIOUS
<1>1. m \in Map /\ Sorted(m) /\ r \in Map /\ Sorted(r)
  BY <1>0, ReleaseOK DEF MapOK
<1>2. \A k \in Keys : /\ r.edits[k].val = m.edits[k].val
                      /\ r.edits[k].born = Capped(m.edits[k].born, l)
  BY <1>0, ReleaseFields
<1>3. /\ DOMAIN r.undo = DOMAIN m.undo
      /\ \A i \in DOMAIN m.undo :
           /\ r.undo[i].key = m.undo[i].key /\ r.undo[i].val = m.undo[i].val
           /\ r.undo[i].born = m.undo[i].born
           /\ r.undo[i].level = Capped(m.undo[i].level, l)
  BY <1>0, ReleaseUndo
<1>4. /\ \A k \in Keys : m.edits[k].born \in Int /\ m.edits[k] \in Edit /\ r.edits[k] \in Edit
      /\ \A i \in DOMAIN m.undo : m.undo[i].level \in Nat
  BY <1>1, MapIs
<1> HIDE DEF r
<1>5. \A i \in DOMAIN m.undo : r.undo[i].level < j <=> m.undo[i].level < j
  BY <1>0, <1>3, <1>4 DEF Capped
<1>6. ASSUME NEW k \in Keys PROVE View(r, j)[k] = View(m, j)[k]
  <2>1. CASE Untouched(m, j, k)
    <3>1. Untouched(r, j, k)
      BY <1>3, <1>5, <2>1 DEF Untouched
    <3>2. View(r, j)[k] = Left(r.edits[k], j) /\ View(m, j)[k] = Left(m.edits[k], j)
      BY <1>0, <1>1, <2>1, <3>1, ViewIs
    <3>3. CASE m.edits[k].born >= j
      <4>1. r.edits[k].born >= j
        BY <1>0, <1>2, <1>4, <3>3 DEF Capped
      <4> QED BY <3>2, <3>3, <4>1 DEF Left
    <3>4. CASE m.edits[k].born < j
      <4>1. r.edits[k].born = m.edits[k].born /\ ~(r.edits[k].born >= j)
        BY <1>0, <1>2, <1>4, <3>4 DEF Capped
      <4>2. ASSUME NEW e \in Edit, NEW f \in Edit, e.val = f.val, e.born = f.born PROVE e = f
        BY <4>2 DEF Edit, NoEdit
      <4>3. r.edits[k] = m.edits[k]
        BY <1>2, <1>4, <4>1, <4>2
      <4> QED BY <3>2, <4>3
    <3> QED BY <1>0, <1>4, <3>3, <3>4
  <2>2. CASE \E h \in DOMAIN m.undo : Before(m, j, k, h)
    <3>1. PICK h \in DOMAIN m.undo : Before(m, j, k, h)
      BY <2>2
    <3>2. Before(r, j, k, h)
      <4>1. \A g \in DOMAIN m.undo : r.undo[g].level >= j <=> m.undo[g].level >= j
        BY <1>0, <1>3, <1>4 DEF Capped
      <4> QED BY <1>3, <1>5, <3>1, <4>1 DEF Before
    <3>3. Replaced(r, h) = Replaced(m, h)
      BY <1>3 DEF Replaced
    <3>4. View(r, j)[k] = Left(Replaced(r, h), j)
      BY <1>0, <1>1, <1>3, <3>2, ViewIs
    <3>5. View(m, j)[k] = Left(Replaced(m, h), j)
      BY <1>0, <1>1, <3>1, ViewIs
    <3> QED BY <3>3, <3>4, <3>5
  <2> QED BY <1>0, <1>1, <2>1, <2>2, BeforeOr
<1> QED BY <1>0, <1>1, <1>6, SameView DEF r

Logged(m, k) == [level |-> m.level, key |-> k, val |-> m.edits[k].val, born |-> m.edits[k].born]

LEMMA PutIs ==
  ASSUME NEW m, MapOK(m), m.live, NEW k \in Keys, NEW v \in Row
  PROVE  \/ Put(m, k, v) = m /\ m.edits[k].born # -1 /\ m.edits[k].val = v
         \/ LET p == Put(m, k, v) IN
            /\ p \in Map /\ p.live /\ p.level = m.level
            /\ p.edits[k] = [val |-> v, born |-> m.level]
            /\ \A j \in Keys \ {k} : p.edits[j] = m.edits[j]
            /\ \/ p.undo = m.undo /\ (m.edits[k].born = -1 \/ m.edits[k].born >= m.level)
               \/ /\ p.undo = Append(m.undo, Logged(m, k))
                  /\ m.edits[k].born # -1 /\ m.edits[k].born < m.level
<1>1. m \in Map
  BY DEF MapOK
<1>2. /\ m.edits \in [Keys -> Edit] /\ m.undo \in Seq(UndoRec) /\ m.level \in Level
      /\ m.edits[k].born \in Int /\ m.edits[k].val \in Row
      /\ k \in Edited(m) <=> m.edits[k].born # -1
      /\ m.edits[k].born # -1 => m.edits[k].born \in Level
  <2>1. m.edits[k] \in Edit /\ m.edits \in [Keys -> Edit] /\ m.undo \in Seq(UndoRec)
        /\ m.level \in Level
    BY <1>1, MapIs
  <2>2. m.edits[k].born \in -1..MaxDepth + 1 /\ m.edits[k].val \in Row
        /\ (m.edits[k].born = -1 <=> m.edits[k] = NoEdit)
    BY <2>1, EditIs
  <2> QED BY <2>1, <2>2, ClientAssumption DEF Edited, Level
<1> DEFINE edits == [m.edits EXCEPT ![k] = [val |-> v, born |-> m.level]]
           grown == Append(m.undo, Logged(m, k))
           undo == IF k \in Edited(m) /\ m.edits[k].born < m.level THEN grown ELSE m.undo
<1>3. CASE k \in Edited(m) /\ m.edits[k].val = NoRow /\ v = NoRow
  BY <1>2, <1>3 DEF Put
<1>4. CASE ~(k \in Edited(m) /\ m.edits[k].val = NoRow /\ v = NoRow)
  <2>1. Put(m, k, v) = [m EXCEPT !.edits = edits, !.undo = undo]
    BY <1>1, <1>4 DEF Put, Logged, Map
  <2>2. edits \in [Keys -> Edit] /\ edits[k] = [val |-> v, born |-> m.level]
        /\ \A j \in Keys \ {k} : edits[j] = m.edits[j]
    BY <1>2 DEF Edit
  <2>3. undo \in Seq(UndoRec)
    <3>1. CASE k \in Edited(m) /\ m.edits[k].born < m.level
      <4>1. Logged(m, k) \in UndoRec
        BY <1>2, <3>1 DEF Logged, UndoRec
      <4> QED BY <1>2, <3>1, <4>1
    <3>2. CASE ~(k \in Edited(m) /\ m.edits[k].born < m.level)
      BY <1>2, <3>2
    <3> QED BY <3>1, <3>2
  <2>4. \/ undo = m.undo /\ (m.edits[k].born = -1 \/ m.edits[k].born >= m.level)
        \/ undo = grown /\ m.edits[k].born # -1 /\ m.edits[k].born < m.level
    <3>1. m.level \in Nat
      BY <1>2, ClientAssumption DEF Level
    <3> HIDE DEF grown
    <3> QED BY <1>2, <3>1
  <2> DEFINE p == Put(m, k, v)
  <2> HIDE DEF edits, undo, p
  <2>5. p = [m EXCEPT !.edits = edits, !.undo = undo]
    BY <2>1 DEF p
  <2>6. p \in Map /\ p.level = m.level /\ p.edits = edits /\ p.undo = undo
    BY <1>1, <2>2, <2>3, <2>5 DEF Map
  <2>7. p.live
    BY <1>1, <2>5 DEF Map
  <2> QED BY <2>2, <2>4, <2>6, <2>7 DEF p
<1> QED BY <1>3, <1>4

LEMMA PutLog ==
  ASSUME NEW m \in Map, NEW r
  PROVE  LET u == Append(m.undo, r) IN
         /\ DOMAIN u = 1..Len(m.undo) + 1 /\ DOMAIN m.undo = 1..Len(m.undo)
         /\ Len(m.undo) \in Nat
         /\ \A i \in DOMAIN m.undo : u[i] = m.undo[i]
         /\ u[Len(m.undo) + 1] = r
<1>1. Len(m.undo) \in Nat /\ DOMAIN m.undo = 1..Len(m.undo) /\ m.undo \in Seq(UndoRec)
  BY MapIs
<1> QED BY <1>1

LEMMA PutOK ==
  ASSUME NEW m, MapOK(m), m.live, Within(m, m.level), NEW k \in Keys, NEW v \in Row
  PROVE  /\ MapOK(Put(m, k, v)) /\ Put(m, k, v).live /\ Put(m, k, v).level = m.level
         /\ Within(Put(m, k, v), m.level)
<1> DEFINE p == Put(m, k, v)
           n == Len(m.undo)
<1>0. m \in Map /\ Sorted(m) /\ Chained(m)
  BY DEF MapOK
<1>1. /\ m.level \in Level /\ m.level \in Nat
      /\ n \in Nat /\ DOMAIN m.undo = 1..n
      /\ \A i \in DOMAIN m.undo : m.undo[i].level \in Nat /\ m.undo[i].level <= m.level
                                  /\ m.undo[i].key \in Keys
      /\ \A j \in Keys : m.edits[j].born \in Int /\ m.edits[j].born <= m.level
  BY <1>0, MapIs, ClientAssumption DEF Within, Level
<1>2. CASE p = m
  BY <1>2
<1>3. CASE /\ p \in Map /\ p.live /\ p.level = m.level
           /\ p.edits[k] = [val |-> v, born |-> m.level]
           /\ \A j \in Keys \ {k} : p.edits[j] = m.edits[j]
           /\ p.undo = m.undo /\ (m.edits[k].born = -1 \/ m.edits[k].born >= m.level)
  <2> HIDE DEF p
  <2>1. Sorted(p)
    BY <1>0, <1>3 DEF Sorted
  <2>2. ASSUME NEW i \in DOMAIN p.undo, Newest(p, i)
        PROVE  p.edits[p.undo[i].key].born = p.undo[i].level
    <3>1. Newest(m, i) /\ i \in DOMAIN m.undo
      BY <1>3, <2>2 DEF Newest
    <3>2. m.edits[m.undo[i].key].born = m.undo[i].level
      BY <1>0, <3>1 DEF Chained
    <3>3. CASE m.undo[i].key = k
      <4>1. m.edits[k].born # -1 /\ m.edits[k].born = m.level
        BY <1>1, <1>3, <3>1, <3>2, <3>3
      <4> QED BY <1>3, <3>2, <3>3, <4>1
    <3>4. CASE m.undo[i].key # k
      BY <1>1, <1>3, <3>1, <3>2, <3>4
    <3> QED BY <3>3, <3>4
  <2>3. ASSUME NEW i \in DOMAIN p.undo, NEW j \in DOMAIN p.undo, Follows(p, i, j)
        PROVE  p.undo[i].level \in {p.undo[j].born, p.undo[j].level}
    <3>1. Follows(m, i, j)
      BY <1>3, <2>3 DEF Follows
    <3> QED BY <1>0, <1>3, <3>1 DEF Chained
  <2>4. MapOK(p)
    BY <1>3, <2>1, <2>2, <2>3 DEF MapOK, Chained
  <2>5. Within(p, m.level)
    <3>1. p.edits[k].born = m.level
      BY <1>3
    <3> QED BY <1>1, <1>3, <3>1 DEF Within
  <2> QED BY <1>3, <2>4, <2>5 DEF p
<1>4. CASE /\ p \in Map /\ p.live /\ p.level = m.level
           /\ p.edits[k] = [val |-> v, born |-> m.level]
           /\ \A j \in Keys \ {k} : p.edits[j] = m.edits[j]
           /\ p.undo = Append(m.undo, Logged(m, k))
  <2> HIDE DEF p
  <2>0. /\ DOMAIN p.undo = 1..n + 1 /\ p.undo[n + 1] = Logged(m, k)
        /\ \A i \in DOMAIN m.undo : p.undo[i] = m.undo[i]
    BY <1>0, <1>4, PutLog
  <2>1. /\ p.undo[n + 1].level = m.level /\ p.undo[n + 1].key = k
        /\ p.undo[n + 1].born = m.edits[k].born
    BY <2>0 DEF Logged
  <2>2. \A i \in DOMAIN p.undo : i = n + 1 \/ i \in DOMAIN m.undo
    BY <1>1, <2>0
  <2>3. Sorted(p)
    <3> SUFFICES ASSUME NEW i \in DOMAIN p.undo, NEW j \in DOMAIN p.undo, i <= j
                 PROVE  p.undo[i].level <= p.undo[j].level
      BY DEF Sorted
    <3>1. CASE j = n + 1
      BY <1>1, <2>0, <2>1, <2>2, <3>1
    <3>2. CASE j \in DOMAIN m.undo
      <4>1. i \in DOMAIN m.undo
        BY <1>1, <2>0, <3>2
      <4> QED BY <1>0, <2>0, <3>2, <4>1 DEF Sorted
    <3> QED BY <2>2, <3>1, <3>2
  <2>4. ASSUME NEW i \in DOMAIN p.undo, Newest(p, i)
        PROVE  p.edits[p.undo[i].key].born = p.undo[i].level
    <3>1. CASE i = n + 1
      BY <1>4, <2>1, <3>1
    <3>2. CASE i \in DOMAIN m.undo
      <4>1. n + 1 \in DOMAIN p.undo /\ i < n + 1
        BY <1>1, <2>0, <3>2
      <4>2. m.undo[i].key # k
        BY <2>0, <2>1, <2>4, <3>2, <4>1 DEF Newest
      <4>3. \A h \in DOMAIN m.undo : h \in DOMAIN p.undo
        BY <1>1, <2>0
      <4>4. Newest(m, i)
        BY <2>0, <2>4, <3>2, <4>3 DEF Newest
      <4>5. m.edits[m.undo[i].key].born = m.undo[i].level
        BY <1>0, <3>2, <4>4 DEF Chained
      <4> QED BY <1>1, <1>4, <2>0, <3>2, <4>2, <4>5
    <3> QED BY <2>2, <3>1, <3>2
  <2>5. ASSUME NEW i \in DOMAIN p.undo, NEW j \in DOMAIN p.undo, Follows(p, i, j)
        PROVE  p.undo[i].level \in {p.undo[j].born, p.undo[j].level}
    <3>0. i \in DOMAIN m.undo
      BY <1>1, <2>0, <2>5 DEF Follows
    <3>1. CASE j = n + 1
      <4>1. m.undo[i].key = k
        BY <2>0, <2>1, <2>5, <3>0, <3>1 DEF Follows
      <4>2. \A h \in DOMAIN m.undo : h \in DOMAIN p.undo /\ h < n + 1
        BY <1>1, <2>0
      <4>3. Newest(m, i)
        BY <2>0, <2>5, <3>0, <3>1, <4>2 DEF Newest, Follows
      <4>4. m.edits[m.undo[i].key].born = m.undo[i].level
        BY <1>0, <3>0, <4>3 DEF Chained
      <4> QED BY <2>0, <2>1, <3>0, <3>1, <4>1, <4>4
    <3>2. CASE j \in DOMAIN m.undo
      <4>1. \A h \in DOMAIN m.undo : h \in DOMAIN p.undo
        BY <1>1, <2>0
      <4>2. Follows(m, i, j)
        BY <2>0, <2>5, <3>0, <3>2, <4>1 DEF Follows
      <4> QED BY <1>0, <2>0, <3>0, <3>2, <4>2 DEF Chained
    <3> QED BY <2>2, <3>1, <3>2
  <2>6. MapOK(p)
    BY <1>4, <2>3, <2>4, <2>5 DEF MapOK, Chained
  <2>7. Within(p, m.level)
    <3>1. p.edits[k].born = m.level
      BY <1>4
    <3>2. \A i \in DOMAIN p.undo : p.undo[i].level <= m.level
      BY <1>1, <2>0, <2>1, <2>2
    <3> QED BY <1>1, <1>4, <3>1, <3>2 DEF Within
  <2> QED BY <1>4, <2>6, <2>7 DEF p
<1> QED BY <1>2, <1>3, <1>4, PutIs

LEMMA PutApply ==
  ASSUME NEW m, MapOK(m), m.live, NEW k \in Keys, NEW v \in Row, NEW t \in Table
  PROVE  Apply(Put(m, k, v), t) = [Apply(m, t) EXCEPT ![k] = v]
<1> DEFINE p == Put(m, k, v)
           a == [Apply(m, t) EXCEPT ![k] = v]
<1>1. m \in Map /\ m.level \in Nat
  BY MapIs, ClientAssumption DEF MapOK, Level
<1>2. Apply(m, t) \in Table /\ a \in Table
      /\ \A j \in Keys : a[j] = IF j = k THEN v ELSE Apply(m, t)[j]
  <2>1. Apply(m, t) \in Table
    BY <1>1, ApplyIs
  <2> QED BY <2>1 DEF Table
<1>3. CASE p = m /\ m.edits[k].born # -1 /\ m.edits[k].val = v
  <2>1. Apply(m, t)[k] = v
    BY <1>1, <1>3, ApplyIs
  <2>2. \A j \in Keys : a[j] = Apply(m, t)[j]
    BY <1>2, <2>1
  <2> HIDE DEF a
  <2>3. a = Apply(m, t)
    BY <1>2, <2>2, SameTable
  <2> QED BY <1>3, <2>3 DEF a
<1>4. CASE /\ p \in Map /\ p.edits[k] = [val |-> v, born |-> m.level]
           /\ \A j \in Keys \ {k} : p.edits[j] = m.edits[j]
  <2> HIDE DEF p, a
  <2>1. p.edits[k].born # -1 /\ p.edits[k].val = v
    BY <1>1, <1>4
  <2>2. Apply(p, t)[k] = v
    BY <1>4, <2>1, ApplyIs
  <2>3. \A j \in Keys \ {k} : Apply(p, t)[j] = Apply(m, t)[j]
    BY <1>1, <1>4, ApplyIs
  <2>4. Apply(p, t) \in Table /\ \A j \in Keys : Apply(p, t)[j] = a[j]
    BY <1>2, <1>4, <2>2, <2>3, ApplyIs
  <2>5. Apply(p, t) = a
    BY <1>2, <2>4, SameTable
  <2> QED BY <2>5 DEF p, a
<1> QED BY <1>3, <1>4, PutIs

\* A rollback finds what it would have found before the edit
LEMMA PutView ==
  ASSUME NEW m, MapOK(m), m.live, Within(m, m.level), NEW k \in Keys, NEW v \in Row,
         NEW l \in 1..m.level
  PROVE  View(Put(m, k, v), l) = View(m, l)
<1> DEFINE p == Put(m, k, v)
           n == Len(m.undo)
<1>0. m \in Map /\ Sorted(m) /\ p \in Map /\ Sorted(p)
  BY PutOK DEF MapOK
<1>1. /\ m.level \in Nat /\ l \in Nat /\ l <= m.level
      /\ n \in Nat /\ DOMAIN m.undo = 1..n
      /\ \A i \in DOMAIN m.undo : m.undo[i].level \in Nat
      /\ \A j \in Keys : m.edits[j].born \in Int /\ m.edits[j].born <= m.level
  BY <1>0, MapIs, ClientAssumption DEF Within, Level
<1>2. CASE p = m
  BY <1>2
<1>3. CASE /\ p.edits[k] = [val |-> v, born |-> m.level]
           /\ \A j \in Keys \ {k} : p.edits[j] = m.edits[j]
           /\ p.undo = m.undo /\ (m.edits[k].born = -1 \/ m.edits[k].born >= m.level)
  <2> HIDE DEF p
  <2>1. ASSUME NEW j \in Keys PROVE View(p, l)[j] = View(m, l)[j]
    <3>1. CASE Untouched(m, l, j)
      <4>1. Untouched(p, l, j)
        BY <1>3, <3>1 DEF Untouched
      <4>2. View(p, l)[j] = Left(p.edits[j], l) /\ View(m, l)[j] = Left(m.edits[j], l)
        BY <1>0, <1>1, <3>1, <4>1, ViewIs
      <4>3. CASE j # k
        BY <1>3, <4>2, <4>3
      <4>4. CASE j = k
        <5>1. Left(p.edits[k], l) = NoEdit
          <6>1. p.edits[k].born = m.level
            BY <1>3
          <6> QED BY <1>1, <6>1 DEF Left
        <5>2. Left(m.edits[k], l) = NoEdit
          <6>1. CASE m.edits[k].born = -1
            <7>1. m.edits[k] = NoEdit
              BY <1>0, <6>1, MapIs, EditIs
            <7> QED BY <7>1 DEF Left
          <6>2. CASE m.edits[k].born >= m.level
            BY <1>1, <6>2 DEF Left
          <6> QED BY <1>3, <6>1, <6>2
        <5> QED BY <4>2, <4>4, <5>1, <5>2
      <4> QED BY <4>3, <4>4
    <3>2. CASE \E h \in DOMAIN m.undo : Before(m, l, j, h)
      <4>1. PICK h \in DOMAIN m.undo : Before(m, l, j, h)
        BY <3>2
      <4>2. Before(p, l, j, h) /\ Replaced(p, h) = Replaced(m, h) /\ h \in DOMAIN p.undo
        BY <1>3, <4>1 DEF Before, Replaced
      <4>3. View(m, l)[j] = Left(Replaced(m, h), l)
        BY <1>0, <1>1, <4>1, ViewIs
      <4>4. View(p, l)[j] = Left(Replaced(p, h), l)
        BY <1>0, <1>1, <4>2, ViewIs
      <4> QED BY <4>2, <4>3, <4>4
    <3> QED BY <1>0, <1>1, <3>1, <3>2, BeforeOr
  <2> QED BY <1>0, <1>1, <2>1, SameView DEF p
<1>4. CASE /\ p.edits[k] = [val |-> v, born |-> m.level]
           /\ \A j \in Keys \ {k} : p.edits[j] = m.edits[j]
           /\ p.undo = Append(m.undo, Logged(m, k)) /\ m.edits[k].born # -1
  <2> HIDE DEF p
  <2>0. /\ DOMAIN p.undo = 1..n + 1 /\ p.undo[n + 1] = Logged(m, k)
        /\ \A i \in DOMAIN m.undo : p.undo[i] = m.undo[i]
    BY <1>0, <1>4, PutLog
  <2>1. /\ p.undo[n + 1].level = m.level /\ p.undo[n + 1].key = k
        /\ p.undo[n + 1].born = m.edits[k].born /\ p.undo[n + 1].val = m.edits[k].val
    BY <2>0 DEF Logged
  <2>2. \A i \in DOMAIN p.undo : i = n + 1 \/ i \in DOMAIN m.undo
    BY <1>1, <2>0
  <2>3. ASSUME NEW j \in Keys PROVE View(p, l)[j] = View(m, l)[j]
    <3>1. CASE Untouched(m, l, j)
      <4>1. View(m, l)[j] = Left(m.edits[j], l)
        BY <1>0, <1>1, <3>1, ViewIs
      <4>2. CASE j # k
        <5>1. Untouched(p, l, j)
          BY <2>0, <2>1, <2>2, <3>1, <4>2 DEF Untouched
        <5> QED BY <1>0, <1>1, <1>4, <4>1, <4>2, <5>1, ViewIs
      <4>3. CASE j = k
        <5>1. n + 1 \in DOMAIN p.undo /\ \A h \in DOMAIN p.undo : h < n + 1 => h \in DOMAIN m.undo
          BY <1>1, <2>0
        <5>2. Before(p, l, k, n + 1)
          BY <1>1, <2>0, <2>1, <3>1, <4>3, <5>1 DEF Before, Untouched
        <5>3. Replaced(p, n + 1) = m.edits[k]
          <6>1. m.edits[k] \in Edit /\ m.edits[k] # NoEdit
            BY <1>0, <1>4, MapIs, EditIs
          <6>2. m.edits[k] \in [val : Row, born : Level]
            BY <6>1 DEF Edit
          <6> QED BY <2>1, <6>2 DEF Replaced
        <5>4. View(p, l)[k] = Left(Replaced(p, n + 1), l)
          BY <1>0, <1>1, <5>1, <5>2, ViewIs
        <5> QED BY <4>1, <4>3, <5>3, <5>4
      <4> QED BY <4>2, <4>3
    <3>2. CASE \E h \in DOMAIN m.undo : Before(m, l, j, h)
      <4>1. PICK h \in DOMAIN m.undo : Before(m, l, j, h)
        BY <3>2
      <4>2. h \in DOMAIN p.undo /\ \A g \in DOMAIN p.undo : g < h => g \in DOMAIN m.undo
        BY <1>1, <2>0
      <4>3. Before(p, l, j, h) /\ Replaced(p, h) = Replaced(m, h)
        BY <2>0, <4>1, <4>2 DEF Before, Replaced
      <4>4. View(m, l)[j] = Left(Replaced(m, h), l)
        BY <1>0, <1>1, <4>1, ViewIs
      <4>5. View(p, l)[j] = Left(Replaced(p, h), l)
        BY <1>0, <1>1, <4>2, <4>3, ViewIs
      <4> QED BY <4>3, <4>4, <4>5
    <3> QED BY <1>0, <1>1, <3>1, <3>2, BeforeOr
  <2> QED BY <1>0, <1>1, <2>3, SameView DEF p
<1> QED BY <1>2, <1>3, <1>4, PutIs

-----------------------------------------------------------------------------
(* The Btree.                                                              *)

BtType == [root : Table, pending : Map, stack : Seq(Savepoint), write : BOOLEAN]

\* Buffer and stack are in step with each other
BtOK(b) ==
  /\ b \in BtType /\ Len(b.stack) <= MaxDepth + 1
  /\ MapOK(b.pending) /\ Within(b.pending, Len(b.stack))
  /\ b.pending.live => b.pending.level = Len(b.stack)
  /\ \A i \in DOMAIN b.stack : MapOK(b.stack[i].snap)

\* A rollback to a savepoint that was pushed brings back its mark, and since the
\* others were set nothing was written
Remembers(b, mk) ==
  /\ \A i \in 1..Len(b.stack) :
       Apply(RollbackMap(FirstSnap(b, i), i), b.stack[i].root) = mk[i]
  /\ \A i \in Len(b.stack) + 1..Len(mk) : mk[i] = Contents(b)

LEMMA BtIs ==
  ASSUME NEW b \in BtType
  PROVE  /\ b.root \in Table /\ b.pending \in Map /\ b.stack \in Seq(Savepoint)
         /\ b.write \in BOOLEAN
         /\ Len(b.stack) \in Nat /\ DOMAIN b.stack = 1..Len(b.stack)
         /\ \A i \in DOMAIN b.stack : /\ b.stack[i] \in Savepoint
                                      /\ b.stack[i].root \in Table /\ b.stack[i].snap \in Map
<1>1. /\ b.root \in Table /\ b.pending \in Map /\ b.stack \in Seq(Savepoint)
      /\ b.write \in BOOLEAN
  BY DEF BtType
<1>2. \A s \in Savepoint : s.root \in Table /\ s.snap \in Map
  BY DEF Savepoint
<1>3. Len(b.stack) \in Nat /\ DOMAIN b.stack = 1..Len(b.stack)
      /\ \A i \in DOMAIN b.stack : b.stack[i] \in Savepoint
  BY <1>1
<1> QED BY <1>1, <1>2, <1>3

\* the savepoint whose buffer a rollback to savepoint i goes back to
FirstTaken(b, i, j) ==
  /\ j \in i..Len(b.stack) /\ b.stack[j].snap.live
  /\ \A h \in i..Len(b.stack) : h < j => ~b.stack[h].snap.live
NoneTaken(b, i) == \A j \in i..Len(b.stack) : ~b.stack[j].snap.live

LEMMA FirstSnapIs ==
  ASSUME NEW b \in BtType, NEW i \in 1..Len(b.stack)
  PROVE  /\ NoneTaken(b, i) \/ \E j \in i..Len(b.stack) : FirstTaken(b, i, j)
         /\ NoneTaken(b, i) => FirstSnap(b, i) = b.pending
         /\ \A j : FirstTaken(b, i, j) => FirstSnap(b, i) = b.stack[j].snap
<1> DEFINE taken == {j \in i..Len(b.stack) : b.stack[j].snap.live}
<1>1. Len(b.stack) \in Nat /\ i \in Nat /\ taken \in SUBSET Nat
  BY BtIs
<1>2. FirstSnap(b, i) = IF taken = {} THEN b.pending ELSE b.stack[Min(taken)].snap
  BY DEF FirstSnap
<1>3. NoneTaken(b, i) <=> taken = {}
  BY DEF NoneTaken
<1>4. ASSUME taken # {} PROVE \E j \in i..Len(b.stack) : FirstTaken(b, i, j)
  <2>1. PICK j \in taken : \A y \in taken : j <= y
    BY <1>1, <1>4, LeastNumber
  <2>2. FirstTaken(b, i, j)
    BY <1>1, <2>1 DEF FirstTaken
  <2> QED BY <2>2 DEF FirstTaken
<1>5. ASSUME NEW j, FirstTaken(b, i, j) PROVE taken # {} /\ Min(taken) = j
  <2>1. j \in taken /\ \A y \in taken : j <= y
    BY <1>1, <1>5 DEF FirstTaken
  <2>2. \A x \in taken : (\A y \in taken : x =< y) => x = j
    BY <1>1, <2>1
  <2> HIDE DEF taken
  <2>3. Min(taken) = j
    BY <2>1, <2>2 DEF Min
  <2> QED BY <2>1, <2>3
<1> HIDE DEF taken
<1> QED BY <1>2, <1>3, <1>4, <1>5

LEMMA FirstSnapOK ==
  ASSUME NEW b, BtOK(b), NEW i \in 1..Len(b.stack)
  PROVE  MapOK(FirstSnap(b, i))
<1>1. b \in BtType /\ MapOK(b.pending) /\ \A j \in DOMAIN b.stack : MapOK(b.stack[j].snap)
  BY DEF BtOK
<1>2. Len(b.stack) \in Nat /\ \A j \in i..Len(b.stack) : j \in DOMAIN b.stack
  BY <1>1, BtIs
<1>3. CASE NoneTaken(b, i)
  BY <1>1, <1>3, FirstSnapIs
<1>4. CASE \E j \in i..Len(b.stack) : FirstTaken(b, i, j)
  BY <1>1, <1>2, <1>4, FirstSnapIs
<1> QED BY <1>1, <1>3, <1>4, FirstSnapIs

LEMMA ContentsIs ==
  ASSUME NEW b \in BtType
  PROVE  Contents(b) \in Table
BY BtIs, ApplyIs DEF Contents

\* A savepoint that is set is remembered
LEMMA MarkRemembered ==
  ASSUME NEW b, BtOK(b), NEW mk \in Seq(Table), Remembers(b, mk), Len(b.stack) <= Len(mk)
  PROVE  LET to == Append(mk, Contents(b)) IN
         Remembers(b, to) /\ to \in Seq(Table) /\ Len(to) = Len(mk) + 1
<1> DEFINE to == Append(mk, Contents(b))
<1>1. b \in BtType /\ Len(b.stack) \in Nat /\ Contents(b) \in Table
  BY BtIs, ContentsIs DEF BtOK
<1>2. /\ to \in Seq(Table) /\ Len(to) = Len(mk) + 1 /\ Len(mk) \in Nat
      /\ \A i \in 1..Len(mk) : to[i] = mk[i]
      /\ to[Len(mk) + 1] = Contents(b)
  BY <1>1
<1> HIDE DEF to
<1>3. \A i \in 1..Len(b.stack) : to[i] = mk[i]
  BY <1>1, <1>2
<1>4. \A i \in Len(b.stack) + 1..Len(to) : to[i] = Contents(b)
  <2> TAKE i \in Len(b.stack) + 1..Len(to)
  <2>1. i = Len(mk) + 1 \/ (i \in Len(b.stack) + 1..Len(mk) /\ i \in 1..Len(mk))
    BY <1>1, <1>2
  <2> QED BY <1>2, <2>1 DEF Remembers
<1> QED BY <1>2, <1>3, <1>4 DEF Remembers, to

\* pushSavepoint
LEMMA PushedIs ==
  ASSUME NEW b, BtOK(b), NEW n \in 0..MaxDepth + 1
  PROVE  LET c == Pushed(b, n) IN
         /\ c \in BtType /\ c.root = b.root /\ c.write = b.write
         /\ Len(c.stack) = IF n <= Len(b.stack) THEN Len(b.stack) ELSE n
         /\ \A i \in 1..Len(b.stack) : c.stack[i] = b.stack[i]
         /\ \A i \in Len(b.stack) + 1..Len(c.stack) :
              c.stack[i] = [root |-> b.root, snap |-> NoMap]
<1> DEFINE c == Pushed(b, n)
           new == [root |-> b.root, snap |-> NoMap]
           missing == [i \in 1..(n - Len(b.stack)) |-> new]
           p == IF b.pending.live THEN [b.pending EXCEPT !.level = n] ELSE b.pending
<1>1. b \in BtType
  BY DEF BtOK
<1>2. /\ b.root \in Table /\ b.pending \in Map /\ b.stack \in Seq(Savepoint)
      /\ Len(b.stack) \in Nat /\ n \in Nat
  BY <1>1, BtIs
<1>3. CASE n <= Len(b.stack)
  <2>1. c = b
    BY <1>3 DEF Pushed
  <2> QED BY <1>1, <1>2, <1>3, <2>1
<1>4. CASE n > Len(b.stack)
  <2>1. new \in Savepoint
    BY <1>2, NoMapIs DEF Savepoint, MapOK
  <2>2. missing \in Seq(Savepoint) /\ Len(missing) = n - Len(b.stack)
        /\ \A i \in 1..Len(missing) : missing[i] = new
    <3> HIDE DEF new
    <3>1. n - Len(b.stack) \in Nat
      BY <1>2, <1>4
    <3> QED BY <2>1, <3>1
  <2>3. n \in Level /\ p \in Map
    <3>1. n \in Level
      BY DEF Level
    <3> QED BY <1>2, <3>1 DEF Map
  <2> DEFINE s == b.stack \o missing
  <2>4. c = [b EXCEPT !.stack = s, !.pending = p]
    BY <1>2, <1>4, <1>1 DEF Pushed, BtType
  <2> HIDE DEF missing, new, c, p
  <2>5. /\ s \in Seq(Savepoint) /\ Len(s) = n
        /\ \A i \in 1..Len(b.stack) : s[i] = b.stack[i]
        /\ \A i \in Len(b.stack) + 1..n : s[i] = new
    <3>1. s \in Seq(Savepoint) /\ Len(s) = n
      BY <1>2, <2>2
    <3>2. \A i \in 1..Len(b.stack) : s[i] = b.stack[i]
      BY <1>2, <2>2
    <3>3. \A i \in Len(b.stack) + 1..n : s[i] = missing[i - Len(b.stack)] /\ i - Len(b.stack) \in 1..Len(missing)
      BY <1>2, <2>2
    <3> QED BY <2>2, <3>1, <3>2, <3>3
  <2> HIDE DEF s
  <2>6. /\ c \in BtType /\ c.root = b.root /\ c.write = b.write /\ c.stack = s /\ c.pending = p
    BY <1>1, <2>3, <2>4, <2>5 DEF BtType
  <2> QED BY <1>2, <1>4, <2>5, <2>6 DEF c, p, new
<1> QED BY <1>2, <1>3, <1>4

LEMMA PushedBuffer ==
  ASSUME NEW b, BtOK(b), NEW n \in 0..MaxDepth + 1
  PROVE  Pushed(b, n).pending = IF n > Len(b.stack) /\ b.pending.live
                                THEN [b.pending EXCEPT !.level = n] ELSE b.pending
<1>1. b \in BtType /\ Len(b.stack) \in Nat /\ n \in Nat
  BY BtIs DEF BtOK
<1>2. CASE n <= Len(b.stack)
  BY <1>1, <1>2 DEF Pushed
<1>3. CASE n > Len(b.stack)
  BY <1>1, <1>3 DEF Pushed, BtType
<1> QED BY <1>1, <1>2, <1>3

\* Savepoints that the Btree had not been told of begin with what there is
LEMMA PushedOK ==
  ASSUME NEW b, BtOK(b), NEW n \in 0..MaxDepth + 1
  PROVE  LET c == Pushed(b, n) IN
         /\ BtOK(c) /\ Contents(c) = Contents(b) /\ c.pending.edits = b.pending.edits
         /\ \A mk \in Seq(Table) : Remembers(b, mk) /\ n <= Len(mk) => Remembers(c, mk)
<1> DEFINE c == Pushed(b, n)
<1>1. /\ b \in BtType /\ MapOK(b.pending) /\ Within(b.pending, Len(b.stack))
      /\ b.pending.live => b.pending.level = Len(b.stack)
      /\ Len(b.stack) <= MaxDepth + 1
      /\ \A i \in DOMAIN b.stack : MapOK(b.stack[i].snap)
  BY DEF BtOK
<1>2. /\ b.root \in Table /\ Len(b.stack) \in Nat /\ DOMAIN b.stack = 1..Len(b.stack)
      /\ b.pending \in Map /\ n \in Nat /\ n \in Level
  BY <1>1, BtIs DEF Level
<1>3. /\ c \in BtType /\ c.root = b.root
      /\ Len(c.stack) = IF n <= Len(b.stack) THEN Len(b.stack) ELSE n
      /\ \A i \in 1..Len(b.stack) : c.stack[i] = b.stack[i]
      /\ \A i \in Len(b.stack) + 1..Len(c.stack) : c.stack[i] = [root |-> b.root, snap |-> NoMap]
  BY PushedIs
<1>4. /\ MapOK(c.pending) /\ c.pending.edits = b.pending.edits /\ c.pending.undo = b.pending.undo
      /\ c.pending.live => c.pending.level = Len(c.stack)
      /\ \A l \in Nat : View(c.pending, l) = View(b.pending, l)
  <2>1. CASE ~(n > Len(b.stack) /\ b.pending.live)
    <3>1. c.pending = b.pending
      BY <1>2, <2>1, PushedBuffer
    <3> HIDE DEF c
    <3> QED BY <1>1, <1>2, <1>3, <2>1, <3>1
  <2>2. CASE n > Len(b.stack) /\ b.pending.live
    <3> DEFINE p == [b.pending EXCEPT !.level = n]
    <3>1. c.pending = p
      BY <2>2, PushedBuffer
    <3>2. /\ MapOK(p) /\ p.level = n /\ p.edits = b.pending.edits /\ p.undo = b.pending.undo
          /\ \A l \in Nat : View(p, l) = View(b.pending, l)
      BY <1>1, <1>2, <2>2, LevelSet
    <3>3. Len(c.stack) = n
      BY <1>2, <1>3, <2>2
    <3> HIDE DEF c, p
    <3> QED BY <3>1, <3>2, <3>3
  <2> QED BY <1>2, <2>1, <2>2
<1> HIDE DEF c
<1>5. /\ Len(c.stack) \in Nat /\ Len(c.stack) <= MaxDepth + 1 /\ Len(b.stack) <= Len(c.stack)
      /\ DOMAIN c.stack = 1..Len(c.stack)
  BY <1>1, <1>2, <1>3, BtIs
<1>6. Within(c.pending, Len(c.stack))
  <2>1. \A k \in Keys : b.pending.edits[k].born \in Int
    BY <1>2, MapIs
  <2>2. \A i \in DOMAIN b.pending.undo : b.pending.undo[i].level \in Nat
    BY <1>2, MapIs
  <2> QED BY <1>1, <1>2, <1>4, <1>5, <2>1, <2>2 DEF Within
<1>7. \A i \in DOMAIN c.stack : i \in 1..Len(b.stack) \/ i \in Len(b.stack) + 1..Len(c.stack)
  BY <1>2, <1>5
<1>8. \A i \in DOMAIN c.stack : MapOK(c.stack[i].snap)
  BY <1>1, <1>2, <1>3, <1>7, NoMapIs
<1>9. BtOK(c)
  BY <1>3, <1>4, <1>5, <1>6, <1>8 DEF BtOK
<1>10. Contents(c) = Contents(b)
  BY <1>3, <1>4, ApplySame DEF Contents
<1>11. ASSUME NEW mk \in Seq(Table), Remembers(b, mk), n <= Len(mk)
       PROVE  Remembers(c, mk)
  <2>0. ~NoMap.live
    BY NoMapIs
  <2>1. ASSUME NEW i \in 1..Len(b.stack)
        PROVE  Apply(RollbackMap(FirstSnap(c, i), i), c.stack[i].root) = mk[i]
    <3>1. i \in 1..Len(c.stack) /\ c.stack[i] = b.stack[i] /\ i \in Nat
      BY <1>2, <1>3, <1>5
    <3>2. \A j \in i..Len(c.stack) : /\ j \in i..Len(b.stack) => c.stack[j] = b.stack[j]
                                     /\ j \notin i..Len(b.stack) => c.stack[j].snap = NoMap
      BY <1>2, <1>3, <1>5
    <3>3. \A j \in i..Len(b.stack) : j \in i..Len(c.stack)
      BY <1>2, <1>5
    <3>4. View(FirstSnap(c, i), i) = View(FirstSnap(b, i), i)
      <4>1. CASE NoneTaken(b, i)
        <5>1. NoneTaken(c, i)
          BY <2>0, <3>2, <4>1 DEF NoneTaken
        <5>2. FirstSnap(c, i) = c.pending /\ FirstSnap(b, i) = b.pending
          BY <1>1, <1>3, <3>1, <4>1, <5>1, FirstSnapIs
        <5> QED BY <1>4, <3>1, <5>2
      <4>2. CASE \E j \in i..Len(b.stack) : FirstTaken(b, i, j)
        <5>1. PICK j \in i..Len(b.stack) : FirstTaken(b, i, j)
          BY <4>2
        <5>2. FirstTaken(c, i, j)
          BY <1>2, <2>0, <3>2, <3>3, <5>1 DEF FirstTaken
        <5>3. c.stack[j] = b.stack[j]
          BY <3>2, <3>3
        <5>4. FirstSnap(c, i) = c.stack[j].snap /\ FirstSnap(b, i) = b.stack[j].snap
          BY <1>1, <1>3, <3>1, <5>1, <5>2, FirstSnapIs
        <5> QED BY <5>3, <5>4
      <4> QED BY <1>1, <4>1, <4>2, FirstSnapIs
    <3>5. Apply(RollbackMap(FirstSnap(c, i), i), b.stack[i].root)
            = Apply(RollbackMap(FirstSnap(b, i), i), b.stack[i].root)
      BY <3>4, ApplySame DEF View
    <3> QED BY <1>11, <3>1, <3>5 DEF Remembers
  <2>2. ASSUME NEW i \in Len(b.stack) + 1..Len(c.stack)
        PROVE  Apply(RollbackMap(FirstSnap(c, i), i), c.stack[i].root) = mk[i]
    <3>1. i \in 1..Len(c.stack) /\ i \in Nat /\ Len(b.stack) < i
      BY <1>2, <1>5
    <3>2. \A j \in i..Len(c.stack) : c.stack[j].snap = NoMap
      BY <1>2, <1>3, <1>5
    <3>3. NoneTaken(c, i)
      BY <2>0, <3>2 DEF NoneTaken
    <3>4. FirstSnap(c, i) = c.pending
      BY <1>3, <3>1, <3>3, FirstSnapIs
    <3>5. View(c.pending, i) = b.pending.edits
      BY <1>1, <1>2, <1>4, <3>1, ViewAll
    <3>6. Apply(RollbackMap(c.pending, i), b.root) = Apply(b.pending, b.root)
      BY <3>5, ApplySame DEF View
    <3>7. c.stack[i].root = b.root
      BY <1>3
    <3>8. i \in Len(b.stack) + 1..Len(mk)
      BY <1>2, <1>3, <1>5, <1>11
    <3>9. mk[i] = Contents(b)
      BY <1>11, <3>8 DEF Remembers
    <3> QED BY <3>4, <3>6, <3>7, <3>9 DEF Contents
  <2>3. \A i \in Len(c.stack) + 1..Len(mk) : mk[i] = Contents(c)
    <3>1. \A i \in Len(c.stack) + 1..Len(mk) : i \in Len(b.stack) + 1..Len(mk)
      BY <1>2, <1>5
    <3> QED BY <1>10, <1>11, <3>1 DEF Remembers
  <2> QED BY <1>5, <1>7, <2>1, <2>2, <2>3 DEF Remembers
<1> QED BY <1>4, <1>9, <1>10, <1>11 DEF c

\* ensureMutMap
LEMMA BufferedOK ==
  ASSUME NEW b, BtOK(b)
  PROVE  LET c == Buffered(b) IN
         /\ BtOK(c) /\ Contents(c) = Contents(b) /\ c.pending.live
         /\ c.stack = b.stack /\ c.write = b.write
         /\ \A mk : Remembers(b, mk) => Remembers(c, mk)
<1> DEFINE c == Buffered(b)
           p == [NoMap EXCEPT !.live = TRUE, !.level = Len(b.stack)]
<1>1. /\ b \in BtType /\ MapOK(b.pending) /\ Within(b.pending, Len(b.stack))
      /\ Len(b.stack) <= MaxDepth + 1
      /\ \A i \in DOMAIN b.stack : MapOK(b.stack[i].snap)
  BY DEF BtOK
<1>2. /\ b.root \in Table /\ Len(b.stack) \in Nat /\ DOMAIN b.stack = 1..Len(b.stack)
      /\ Len(b.stack) \in Level
  BY <1>1, BtIs, ClientAssumption DEF Level
<1>3. CASE b.pending.live
  <2>1. c = b
    BY <1>3 DEF Buffered
  <2> QED BY <1>3, <2>1
<1>4. CASE ~b.pending.live
  <2>1. b.pending = NoMap
    BY <1>1, <1>4 DEF MapOK
  <2>2. /\ p \in Map /\ p.live /\ p.level = Len(b.stack) /\ p.edits = NoMap.edits
        /\ p.undo = NoMap.undo /\ p.undo = <<>>
    BY <1>2, NoMapIs DEF MapOK, Map, NoMap
  <2>3. c = [b EXCEPT !.pending = p]
    BY <1>1, <1>4 DEF Buffered, BtType
  <2> HIDE DEF c, p
  <2>4. /\ c \in BtType /\ c.root = b.root /\ c.stack = b.stack /\ c.write = b.write
        /\ c.pending = p
    BY <1>1, <2>2, <2>3 DEF BtType
  <2>5. MapOK(p) /\ Within(p, Len(b.stack))
    BY <1>2, <2>2, Blank
  <2>6. BtOK(c)
    BY <1>1, <2>2, <2>4, <2>5 DEF BtOK
  <2>7. Contents(c) = Contents(b)
    BY <2>1, <2>2, <2>4, ApplySame DEF Contents
  <2>8. ASSUME NEW mk, Remembers(b, mk) PROVE Remembers(c, mk)
    <3>1. ASSUME NEW i \in 1..Len(b.stack)
          PROVE  View(FirstSnap(c, i), i) = View(FirstSnap(b, i), i)
      <4>1. CASE NoneTaken(b, i)
        <5>1. NoneTaken(c, i)
          BY <2>4, <4>1 DEF NoneTaken
        <5>2. FirstSnap(b, i) = NoMap /\ FirstSnap(c, i) = p
          BY <1>1, <2>1, <2>4, <4>1, <5>1, FirstSnapIs
        <5>3. View(p, i) = View(NoMap, i)
          <6>1. NoMap \in Map /\ Sorted(NoMap) /\ Sorted(p) /\ i \in Nat
            BY <2>5, NoMapIs DEF MapOK
          <6> QED BY <2>2, <6>1, ViewSame
        <5> QED BY <5>2, <5>3
      <4>2. CASE \E j \in i..Len(b.stack) : FirstTaken(b, i, j)
        <5>1. PICK j \in i..Len(b.stack) : FirstTaken(b, i, j)
          BY <4>2
        <5>2. FirstTaken(c, i, j)
          BY <2>4, <5>1 DEF FirstTaken
        <5> QED BY <1>1, <2>4, <5>1, <5>2, FirstSnapIs
      <4> QED BY <1>1, <4>1, <4>2, FirstSnapIs
    <3>2. \A i \in 1..Len(b.stack) :
            Apply(RollbackMap(FirstSnap(c, i), i), b.stack[i].root)
              = Apply(RollbackMap(FirstSnap(b, i), i), b.stack[i].root)
      BY <3>1, ApplySame DEF View
    <3> QED BY <2>4, <2>7, <2>8, <3>2 DEF Remembers
  <2> QED BY <2>2, <2>4, <2>6, <2>7, <2>8 DEF c
<1> QED BY <1>3, <1>4

\* Only tree, buffer and stack of the Btree say what it holds
LEMMA SameBtree ==
  ASSUME NEW b, BtOK(b), NEW c \in BtType,
         c.root = b.root, c.pending = b.pending, c.stack = b.stack
  PROVE  BtOK(c) /\ Contents(c) = Contents(b) /\ \A mk : Remembers(b, mk) => Remembers(c, mk)
<1>1. BtOK(c)
  BY DEF BtOK
<1>2. Contents(c) = Contents(b)
  BY DEF Contents
<1>3. \A i : FirstSnap(c, i) = FirstSnap(b, i)
  BY DEF FirstSnap
<1> QED BY <1>1, <1>2, <1>3 DEF Remembers

\* prollyMutMapInsert, prollyMutMapDelete on the buffer of the Btree
LEMMA EditedOK ==
  ASSUME NEW b, BtOK(b), b.pending.live, NEW k \in Keys, NEW v \in Row
  PROVE  LET c == [b EXCEPT !.pending = Put(@, k, v)] IN
         /\ BtOK(c) /\ Contents(c) = [Contents(b) EXCEPT ![k] = v]
         /\ c.stack = b.stack /\ c.write = b.write
         /\ \A mk \in Seq(Table) : Remembers(b, mk) /\ Len(mk) <= Len(b.stack) => Remembers(c, mk)
<1> DEFINE p == Put(b.pending, k, v)
           c == [b EXCEPT !.pending = Put(@, k, v)]
<1>1. /\ b \in BtType /\ MapOK(b.pending) /\ Within(b.pending, Len(b.stack))
      /\ b.pending.level = Len(b.stack) /\ Len(b.stack) <= MaxDepth + 1
      /\ \A i \in DOMAIN b.stack : MapOK(b.stack[i].snap)
  BY DEF BtOK
<1>2. b.root \in Table /\ Len(b.stack) \in Nat /\ DOMAIN b.stack = 1..Len(b.stack)
  BY <1>1, BtIs
<1>3. MapOK(p) /\ p.live /\ p.level = b.pending.level /\ Within(p, b.pending.level)
  BY <1>1, PutOK
<1>4. Apply(p, b.root) = [Apply(b.pending, b.root) EXCEPT ![k] = v]
  BY <1>1, <1>2, PutApply
<1>5. \A l \in 1..Len(b.stack) : View(p, l) = View(b.pending, l)
  BY <1>1, PutView
<1>6. c = [b EXCEPT !.pending = p]
  OBVIOUS
<1> HIDE DEF p, c
<1>7. c \in BtType /\ c.root = b.root /\ c.stack = b.stack /\ c.write = b.write /\ c.pending = p
  BY <1>1, <1>3, <1>6 DEF BtType, MapOK
<1>8. BtOK(c)
  BY <1>1, <1>3, <1>7 DEF BtOK
<1>9. Contents(c) = [Contents(b) EXCEPT ![k] = v]
  BY <1>4, <1>7 DEF Contents
<1>10. ASSUME NEW mk \in Seq(Table), Remembers(b, mk), Len(mk) <= Len(b.stack)
       PROVE  Remembers(c, mk)
  <2>1. ASSUME NEW i \in 1..Len(b.stack)
        PROVE  Apply(RollbackMap(FirstSnap(c, i), i), b.stack[i].root)
                 = Apply(RollbackMap(FirstSnap(b, i), i), b.stack[i].root)
    <3>1. CASE NoneTaken(b, i)
      <4>1. NoneTaken(c, i)
        BY <1>7, <3>1 DEF NoneTaken
      <4>2. FirstSnap(b, i) = b.pending /\ FirstSnap(c, i) = p
        BY <1>1, <1>7, <3>1, <4>1, FirstSnapIs
      <4> QED BY <1>5, <4>2, ApplySame DEF View
    <3>2. CASE \E j \in i..Len(b.stack) : FirstTaken(b, i, j)
      <4>1. PICK j \in i..Len(b.stack) : FirstTaken(b, i, j)
        BY <3>2
      <4>2. FirstTaken(c, i, j)
        BY <1>7, <4>1 DEF FirstTaken
      <4>3. FirstSnap(c, i) = b.stack[j].snap /\ FirstSnap(b, i) = b.stack[j].snap
        BY <1>1, <1>7, <4>1, <4>2, FirstSnapIs
      <4> QED BY <4>3
    <3> QED BY <1>1, <3>1, <3>2, FirstSnapIs
  <2>2. \A i \in Len(c.stack) + 1..Len(mk) : FALSE
    BY <1>2, <1>7, <1>10
  <2> QED BY <1>7, <1>10, <2>1, <2>2 DEF Remembers
<1> QED BY <1>7, <1>8, <1>9, <1>10 DEF c

\* What a flush does to the stack
LEMMA TakenIs ==
  ASSUME NEW b, BtOK(b), Captures(b)
  PROVE  LET s == [b.stack EXCEPT ![Len(b.stack)].snap = b.pending] IN
         /\ s \in Seq(Savepoint) /\ Len(s) = Len(b.stack) /\ Len(b.stack) \in DOMAIN b.stack
         /\ \A i \in DOMAIN b.stack : s[i].root = b.stack[i].root
         /\ \A i \in DOMAIN b.stack : i # Len(b.stack) => s[i] = b.stack[i]
         /\ s[Len(b.stack)].snap = b.pending /\ ~b.stack[Len(b.stack)].snap.live
<1> DEFINE n == Len(b.stack)
           s == [b.stack EXCEPT ![n].snap = b.pending]
<1>1. b \in BtType
  BY DEF BtOK
<1>2. /\ b.stack \in Seq(Savepoint) /\ n \in Nat /\ DOMAIN b.stack = 1..n /\ b.pending \in Map
      /\ \A i \in 1..n : b.stack[i] \in Savepoint
  BY <1>1, BtIs
<1>3. n \in 1..n
  BY <1>2 DEF Captures
<1>4. s = [b.stack EXCEPT ![n] = [b.stack[n] EXCEPT !.snap = b.pending]]
  BY <1>2, <1>3
<1> DEFINE e == [b.stack[n] EXCEPT !.snap = b.pending]
<1>5. e \in Savepoint /\ e.root = b.stack[n].root /\ e.snap = b.pending
  BY <1>2, <1>3 DEF Savepoint
<1> HIDE DEF s, e
<1>6. s = [b.stack EXCEPT ![n] = e]
  BY <1>4 DEF e
<1>7. s \in Seq(Savepoint) /\ Len(s) = n /\ \A i \in 1..n : s[i] = IF i = n THEN e ELSE b.stack[i]
  BY <1>2, <1>3, <1>5, <1>6
<1>8. ~b.stack[n].snap.live
  BY DEF Captures, Last
<1> QED BY <1>2, <1>3, <1>5, <1>7, <1>8 DEF s

LEMMA FlushedIs ==
  ASSUME NEW b, BtOK(b), Edited(b.pending) # {}
  PROVE  LET c == Flushed(b) IN
         /\ c \in BtType /\ c.root = Contents(b) /\ c.write = b.write
         /\ c.pending = Emptied(b.pending)
         /\ c.stack = IF Captures(b) THEN [b.stack EXCEPT ![Len(b.stack)].snap = b.pending]
                      ELSE b.stack
<1> DEFINE s == IF Captures(b) THEN [b.stack EXCEPT ![Len(b.stack)].snap = b.pending]
                ELSE b.stack
           c == Flushed(b)
           p == Emptied(b.pending)
<1>1. b \in BtType /\ b.pending \in Map /\ Contents(b) \in Table /\ b.stack \in Seq(Savepoint)
  BY BtIs, ContentsIs DEF BtOK
<1>2. s \in Seq(Savepoint)
  BY <1>1, TakenIs
<1>3. p \in Map
  <2>1. NoMap.edits \in [Keys -> Edit] /\ <<>> \in Seq(UndoRec)
    BY NoMapIs, MapIs DEF MapOK
  <2> QED BY <1>1, <2>1 DEF Emptied, Map
<1>4. c = [b EXCEPT !.root = Contents(b), !.pending = p, !.stack = s]
  BY <1>1 DEF Flushed, BtType
<1> HIDE DEF s, c, p
<1> QED BY <1>1, <1>2, <1>3, <1>4 DEF BtType, s, c, p

LEMMA EmptiedOK ==
  ASSUME NEW m, MapOK(m)
  PROVE  LET p == Emptied(m) IN
         /\ MapOK(p) /\ p.live = m.live /\ p.level = m.level
         /\ \A n \in Nat : Within(p, n)
         /\ \A k \in Keys : p.edits[k].born = -1
         /\ ~m.live => p = NoMap
<1> DEFINE p == Emptied(m)
<1>1. m \in Map
  BY DEF MapOK
<1>2. NoMap.edits \in [Keys -> Edit] /\ <<>> \in Seq(UndoRec)
      /\ \A k \in Keys : NoMap.edits[k].born = -1
  BY NoMapIs, MapIs DEF MapOK, NoMap, NoEdit
<1>3. p \in Map /\ p.live = m.live /\ p.level = m.level /\ p.edits = NoMap.edits /\ p.undo = <<>>
  BY <1>1, <1>2 DEF Emptied, Map
<1>4. ASSUME ~m.live PROVE p = NoMap
  <2>1. m = NoMap
    BY <1>4 DEF MapOK
  <2>2. NoMap.undo = <<>> /\ NoMap \in Map
    BY <1>1, <2>1 DEF NoMap
  <2>3. p.live = NoMap.live /\ p.level = NoMap.level /\ p.edits = NoMap.edits /\ p.undo = NoMap.undo
    BY <1>3, <2>1, <2>2
  <2> HIDE DEF p
  <2> QED BY <1>3, <2>2, <2>3 DEF Map
<1> HIDE DEF p
<1>5. DOMAIN p.undo = {}
  BY <1>3
<1>6. MapOK(p)
  BY <1>3, <1>4, <1>5 DEF MapOK, Sorted, Chained
<1>7. \A n \in Nat : Within(p, n)
  BY <1>2, <1>3, <1>5 DEF Within
<1> QED BY <1>2, <1>3, <1>4, <1>6, <1>7 DEF p

\* flushMutMap: the savepoints keep what they need to go back
LEMMA FlushedOK ==
  ASSUME NEW b, BtOK(b)
  PROVE  LET c == Flushed(b) IN
         /\ BtOK(c) /\ Contents(c) = Contents(b) /\ c.write = b.write
         /\ Len(c.stack) = Len(b.stack)
         /\ \A mk : Remembers(b, mk) => Remembers(c, mk)
<1> DEFINE c == Flushed(b)
           n == Len(b.stack)
<1>1. /\ b \in BtType /\ MapOK(b.pending) /\ n <= MaxDepth + 1
      /\ b.pending.live => b.pending.level = n
      /\ \A i \in DOMAIN b.stack : MapOK(b.stack[i].snap)
  BY DEF BtOK
<1>2. n \in Nat /\ DOMAIN b.stack = 1..n /\ Contents(b) \in Table
  BY <1>1, BtIs, ContentsIs
<1>3. CASE Edited(b.pending) = {}
  <2>1. c = b
    BY <1>3 DEF Flushed
  <2> QED BY <2>1
<1>4. CASE Edited(b.pending) # {}
  <2>1. /\ c \in BtType /\ c.root = Contents(b) /\ c.write = b.write
        /\ c.pending = Emptied(b.pending)
    BY <1>4, FlushedIs
  <2>2. c.stack = IF Captures(b) THEN [b.stack EXCEPT ![n].snap = b.pending] ELSE b.stack
    BY <1>4, FlushedIs
  <2>3. /\ MapOK(c.pending) /\ Within(c.pending, n)
        /\ \A k \in Keys : c.pending.edits[k].born = -1
    BY <1>1, <1>2, <2>1, EmptiedOK
  <2>4. c.pending.live => c.pending.level = n
    <3>1. Emptied(b.pending).live = b.pending.live /\ Emptied(b.pending).level = b.pending.level
      BY <1>1, EmptiedOK
    <3> QED BY <1>1, <2>1, <3>1
  <2>5. Contents(c) = Contents(b)
    <3>1. c.pending \in Map
      BY <2>3 DEF MapOK
    <3> QED BY <1>2, <2>1, <2>3, <3>1, ApplyIs DEF Contents
  <2>6. CASE Captures(b)
    <3> HIDE DEF c
    <3>1. /\ Len(c.stack) = n /\ n \in 1..n /\ ~b.stack[n].snap.live
          /\ \A i \in 1..n : c.stack[i].root = b.stack[i].root
          /\ \A i \in 1..n : i # n => c.stack[i] = b.stack[i]
          /\ c.stack[n].snap = b.pending
      BY <1>2, <2>2, <2>6, TakenIs
    <3>2. DOMAIN c.stack = 1..n
      BY <2>1, <3>1, BtIs
    <3>3. \A i \in DOMAIN c.stack : MapOK(c.stack[i].snap)
      BY <1>1, <1>2, <3>1, <3>2
    <3>4. BtOK(c)
      BY <1>1, <2>1, <2>3, <2>4, <3>1, <3>3 DEF BtOK
    <3>5. ASSUME NEW i \in 1..n PROVE FirstSnap(c, i) = FirstSnap(b, i)
      <4>0. n \in i..n /\ \A j \in i..n : j \in 1..n /\ j <= n
        BY <1>2
      <4>1. CASE NoneTaken(b, i)
        <5>1. FirstSnap(b, i) = b.pending
          BY <1>1, <4>1, FirstSnapIs
        <5>2. CASE b.pending.live
          <6>1. FirstTaken(c, i, n)
            BY <3>1, <4>0, <4>1, <5>2 DEF FirstTaken, NoneTaken
          <6> QED BY <2>1, <3>1, <5>1, <6>1, FirstSnapIs
        <5>3. CASE ~b.pending.live
          <6>1. NoneTaken(c, i)
            BY <3>1, <4>0, <4>1, <5>3 DEF NoneTaken
          <6>2. b.pending = NoMap
            BY <1>1, <5>3 DEF MapOK
          <6>3. c.pending = NoMap
            BY <1>1, <2>1, <5>3, EmptiedOK
          <6> QED BY <2>1, <3>1, <5>1, <6>1, <6>2, <6>3, FirstSnapIs
        <5> QED BY <5>2, <5>3
      <4>2. CASE \E j \in i..n : FirstTaken(b, i, j)
        <5>1. PICK j \in i..n : FirstTaken(b, i, j)
          BY <4>2
        <5>2. j # n
          BY <3>1, <5>1 DEF FirstTaken
        <5>3. FirstTaken(c, i, j)
          BY <3>1, <4>0, <5>1, <5>2 DEF FirstTaken
        <5>4. FirstSnap(c, i) = c.stack[j].snap /\ FirstSnap(b, i) = b.stack[j].snap
          BY <1>1, <2>1, <3>1, <5>1, <5>3, FirstSnapIs
        <5> QED BY <3>1, <4>0, <5>2, <5>4
      <4> QED BY <1>1, <4>1, <4>2, FirstSnapIs
    <3>6. \A mk : Remembers(b, mk) => Remembers(c, mk)
      BY <2>5, <3>1, <3>5 DEF Remembers
    <3> QED BY <2>1, <2>5, <3>1, <3>4, <3>6 DEF c
  <2>7. CASE ~Captures(b)
    <3> HIDE DEF c
    <3>1. c.stack = b.stack
      BY <2>2, <2>7
    <3>2. BtOK(c)
      BY <1>1, <2>1, <2>3, <2>4, <3>1 DEF BtOK
    <3>3. ASSUME NEW i \in 1..n PROVE FirstSnap(c, i) = FirstSnap(b, i)
      <4>1. n \in i..n /\ b.stack[n].snap.live
        BY <1>2, <2>7 DEF Captures, Last
      <4>2. PICK j \in i..n : FirstTaken(b, i, j)
        BY <1>1, <4>1, FirstSnapIs DEF NoneTaken
      <4>3. FirstTaken(c, i, j)
        BY <3>1, <4>2 DEF FirstTaken
      <4> QED BY <1>1, <2>1, <3>1, <4>2, <4>3, FirstSnapIs
    <3>4. \A mk : Remembers(b, mk) => Remembers(c, mk)
      BY <2>5, <3>1, <3>3 DEF Remembers
    <3> QED BY <2>1, <2>5, <3>1, <3>2, <3>4 DEF c
  <2> QED BY <2>6, <2>7
<1> QED BY <1>3, <1>4

\* flushAllPending at the commit, and the end of the transaction
LEMMA CommittedOK ==
  ASSUME NEW b, BtOK(b), b.stack = <<>>
  PROVE  LET c == [FlushedForCommit(b) EXCEPT !.stack = <<>>, !.write = FALSE] IN
         BtOK(c) /\ Contents(c) = Contents(b) /\ c.stack = <<>> /\ c.write = FALSE
<1> DEFINE f == FlushedForCommit(b)
           c == [f EXCEPT !.stack = <<>>, !.write = FALSE]
<1>1. b \in BtType /\ Contents(b) \in Table /\ MaxDepth \in Nat
  BY ContentsIs, ClientAssumption DEF BtOK
<1>2. BtOK(f) /\ Contents(f) = Contents(b) /\ Len(f.stack) = 0
  <2>1. CASE Edited(b.pending) # {} /\ ~Captures(b)
    <3>1. f = [b EXCEPT !.root = Contents(b), !.pending = NoMap]
      BY <2>1 DEF FlushedForCommit
    <3> HIDE DEF f
    <3>2. NoMap \in Map /\ MapOK(NoMap) /\ Within(NoMap, 0) /\ ~NoMap.live
      BY NoMapIs DEF MapOK
    <3>3. f \in BtType /\ f.root = Contents(b) /\ f.pending = NoMap /\ f.stack = <<>>
      BY <1>1, <3>1, <3>2 DEF BtType
    <3>4. BtOK(f)
      BY <1>1, <3>2, <3>3 DEF BtOK
    <3>5. Contents(f) = Contents(b)
      <4>1. 1 \in Nat \ {0}
        OBVIOUS
      <4> QED BY <1>1, <3>3, <4>1, NoEdits DEF Contents
    <3> QED BY <3>3, <3>4, <3>5
  <2>2. CASE ~(Edited(b.pending) # {} /\ ~Captures(b))
    <3>1. f = Flushed(b)
      BY <2>2 DEF FlushedForCommit
    <3>2. Len(b.stack) = 0
      OBVIOUS
    <3> QED BY <3>1, <3>2, FlushedOK
  <2> QED BY <2>1, <2>2
<1> HIDE DEF f
<1>3. f \in BtType /\ f.stack = <<>>
  <2>1. f \in BtType
    BY <1>2 DEF BtOK
  <2>2. f.stack \in Seq(Savepoint)
    BY <2>1, BtIs
  <2> QED BY <1>2, <2>1, <2>2
<1>4. c \in BtType /\ c.root = f.root /\ c.pending = f.pending /\ c.stack = f.stack
      /\ c.stack = <<>> /\ c.write = FALSE
  BY <1>3 DEF BtType
<1> HIDE DEF c
<1> QED BY <1>2, <1>3, <1>4, SameBtree DEF f, c

\* The marks that are left when the inner ones go
Prefix(to, mk) == to \in Seq(Table) /\ Len(to) <= Len(mk) /\ \A j \in 1..Len(to) : to[j] = mk[j]

LEMMA PrefixIs ==
  ASSUME NEW mk \in Seq(Table), NEW n \in 0..Len(mk)
  PROVE  Prefix(SubSeq(mk, 1, n), mk) /\ Len(SubSeq(mk, 1, n)) = n
<1>1. Len(mk) \in Nat /\ n \in Nat
  OBVIOUS
<1>2. SubSeq(mk, 1, n) \in Seq(Table) /\ Len(SubSeq(mk, 1, n)) = n
      /\ \A j \in 1..n : SubSeq(mk, 1, n)[j] = mk[j]
  BY <1>1
<1> QED BY <1>1, <1>2 DEF Prefix

LEMMA PrefixRemembered ==
  ASSUME NEW b, BtOK(b), NEW mk \in Seq(Table), Remembers(b, mk),
         NEW to, Prefix(to, mk), Len(b.stack) <= Len(to)
  PROVE  Remembers(b, to)
<1>1. Len(b.stack) \in Nat /\ Len(mk) \in Nat /\ Len(to) \in Nat
  BY BtIs DEF BtOK, Prefix
<1>2. \A i \in 1..Len(b.stack) : to[i] = mk[i]
  BY <1>1 DEF Prefix
<1>3. \A i \in Len(b.stack) + 1..Len(to) : to[i] = mk[i] /\ i \in Len(b.stack) + 1..Len(mk)
  BY <1>1 DEF Prefix
<1> QED BY <1>2, <1>3 DEF Remembers

LEMMA OuterStack ==
  ASSUME NEW s \in Seq(Savepoint), NEW i \in 1..Len(s)
  PROVE  LET o == SubSeq(s, 1, i - 1) IN
         o \in Seq(Savepoint) /\ Len(o) = i - 1 /\ \A j \in 1..i - 1 : o[j] = s[j]
BY SMT

\* The buffer before savepoint j is the one before i, if none between has one
LEMMA FirstSnapOuter ==
  ASSUME NEW b \in BtType, NEW i \in 1..Len(b.stack), NEW j \in 1..i - 1,
         \A h \in j..i - 1 : ~b.stack[h].snap.live
  PROVE  FirstSnap(b, j) = FirstSnap(b, i)
<1>1. /\ Len(b.stack) \in Nat /\ j \in 1..Len(b.stack)
      /\ \A h \in j..Len(b.stack) : h \in j..i - 1 \/ h \in i..Len(b.stack)
      /\ \A h \in i..Len(b.stack) : h \in j..Len(b.stack)
  BY BtIs
<1>2. CASE NoneTaken(b, i)
  <2>1. NoneTaken(b, j)
    BY <1>1, <1>2 DEF NoneTaken
  <2> QED BY <1>1, <1>2, <2>1, FirstSnapIs
<1>3. CASE \E h \in i..Len(b.stack) : FirstTaken(b, i, h)
  <2>1. PICK h \in i..Len(b.stack) : FirstTaken(b, i, h)
    BY <1>3
  <2>2. FirstTaken(b, j, h)
    BY <1>1, <2>1 DEF FirstTaken
  <2> QED BY <1>1, <2>1, <2>2, FirstSnapIs
<1> QED BY <1>2, <1>3, FirstSnapIs

\* rollbackNamedSavepoint
LEMMA RolledBackOK ==
  ASSUME NEW b, BtOK(b), NEW i \in 1..Len(b.stack)
  PROVE  LET c == RolledBack(b, i) IN
         /\ BtOK(c) /\ Len(c.stack) = i - 1 /\ c.write = b.write
         /\ Contents(c) = Apply(RollbackMap(FirstSnap(b, i), i), b.stack[i].root)
<1> DEFINE c == RolledBack(b, i)
           m == FirstSnap(b, i)
           p == IF m.live THEN RollbackMap(m, i) ELSE m
           s == SubSeq(b.stack, 1, i - 1)
<1>1. b \in BtType /\ Len(b.stack) <= MaxDepth + 1 /\ MapOK(m)
  BY FirstSnapOK DEF BtOK
<1>2. /\ b.stack \in Seq(Savepoint) /\ Len(b.stack) \in Nat /\ DOMAIN b.stack = 1..Len(b.stack)
      /\ b.stack[i].root \in Table
  BY <1>1, BtIs
<1>3. i \in 1..MaxDepth + 1 /\ i - 1 \in Nat /\ i \in Nat \ {0} /\ i - 1 <= MaxDepth + 1
  BY <1>1, <1>2, ClientAssumption
<1>4. s \in Seq(Savepoint) /\ Len(s) = i - 1 /\ \A j \in 1..i - 1 : s[j] = b.stack[j]
  BY <1>2, OuterStack
<1>5. /\ MapOK(p) /\ Within(p, i - 1)
      /\ p.live => p.level = i - 1
      /\ Apply(p, b.stack[i].root) = Apply(RollbackMap(m, i), b.stack[i].root)
  <2>1. CASE m.live
    <3>1. p = RollbackMap(m, i)
      BY <2>1
    <3>2. MapOK(RollbackMap(m, i)) /\ Within(RollbackMap(m, i), i - 1)
      BY <1>1, <1>3, <2>1, RollbackOK
    <3>3. RollbackMap(m, i).level = i - 1
      BY <1>1, <1>3, RollbackIs
    <3> HIDE DEF p
    <3> QED BY <3>1, <3>2, <3>3
  <2>2. CASE ~m.live
    <3>1. p = NoMap /\ m = NoMap
      BY <1>1, <2>2 DEF MapOK
    <3> HIDE DEF p, m
    <3>2. MapOK(p) /\ ~p.live /\ Within(p, i - 1)
      <4>1. Within(NoMap, 0) /\ DOMAIN NoMap.undo = {} /\ \A k \in Keys : NoMap.edits[k].born = -1
        BY NoMapIs DEF NoMap, NoEdit
      <4> QED BY <1>3, <3>1, <4>1, NoMapIs DEF Within
    <3>3. RollbackMap(m, i).edits = p.edits
      BY <1>2, <1>3, <3>1, NoEdits DEF View
    <3>4. Apply(p, b.stack[i].root) = Apply(RollbackMap(m, i), b.stack[i].root)
      BY <3>3, ApplySame
    <3> QED BY <3>2, <3>4
  <2> QED BY <2>1, <2>2
<1>6. c = [b EXCEPT !.root = b.stack[i].root, !.pending = p, !.stack = s]
  BY <1>1 DEF RolledBack, BtType
<1> HIDE DEF c, p, s, m
<1>7. /\ c \in BtType /\ c.root = b.stack[i].root /\ c.pending = p /\ c.stack = s
      /\ c.write = b.write
  <2>1. p \in Map
    BY <1>5 DEF MapOK
  <2> QED BY <1>1, <1>2, <1>4, <1>6, <2>1 DEF BtType
<1>8. \A j \in DOMAIN s : MapOK(s[j].snap)
  <2>1. DOMAIN s = 1..i - 1 /\ \A j \in 1..i - 1 : j \in DOMAIN b.stack
    BY <1>2, <1>3, <1>4, <1>7, BtIs
  <2> QED BY <1>4, <2>1 DEF BtOK
<1>9. BtOK(c)
  BY <1>3, <1>4, <1>5, <1>7, <1>8 DEF BtOK
<1>10. Contents(c) = Apply(RollbackMap(m, i), b.stack[i].root)
  BY <1>5, <1>7 DEF Contents
<1> QED BY <1>4, <1>7, <1>9, <1>10 DEF c, m

\* and the outer savepoints are as before
LEMMA RolledBackRemembers ==
  ASSUME NEW b, BtOK(b), NEW i \in 1..Len(b.stack), NEW mk \in Seq(Table), Remembers(b, mk),
         i <= Len(mk), NEW to, Prefix(to, mk), Len(to) \in i - 1..i
  PROVE  Remembers(RolledBack(b, i), to) /\ Contents(RolledBack(b, i)) = mk[i]
<1> DEFINE c == RolledBack(b, i)
           m == FirstSnap(b, i)
<1>1. b \in BtType /\ Len(b.stack) <= MaxDepth + 1 /\ MapOK(m)
  BY FirstSnapOK DEF BtOK
<1>2. /\ b.stack \in Seq(Savepoint) /\ Len(b.stack) \in Nat /\ DOMAIN b.stack = 1..Len(b.stack)
  BY <1>1, BtIs
<1>3. i \in 1..MaxDepth + 1 /\ i \in Nat \ {0} /\ Len(mk) \in Nat /\ Len(to) \in Nat
  BY <1>1, <1>2, ClientAssumption DEF Prefix
<1>4. /\ c \in BtType /\ Len(c.stack) = i - 1
      /\ Contents(c) = Apply(RollbackMap(m, i), b.stack[i].root)
  BY RolledBackOK DEF BtOK
<1>5. Contents(c) = mk[i]
  BY <1>4 DEF Remembers
<1>6. c.stack = SubSeq(b.stack, 1, i - 1) /\ c.pending = IF m.live THEN RollbackMap(m, i) ELSE m
  BY <1>1 DEF RolledBack, BtType
<1>7. \A j \in 1..i - 1 : c.stack[j] = b.stack[j]
  BY <1>2, <1>6, OuterStack
<1> HIDE DEF c
<1>8. ASSUME NEW j \in 1..i - 1
      PROVE  Apply(RollbackMap(FirstSnap(c, j), j), c.stack[j].root) = mk[j]
  <2>0. /\ j \in 1..Len(b.stack) /\ j \in 1..i /\ j \in Nat /\ j \in 1..Len(c.stack)
        /\ \A h \in j..i - 1 : h \in 1..i - 1 /\ h \in j..Len(b.stack)
    BY <1>2, <1>3, <1>4
  <2>1. CASE \A h \in j..i - 1 : ~b.stack[h].snap.live
    <3>1. FirstSnap(b, j) = m
      BY <1>1, <2>1, FirstSnapOuter
    <3>2. NoneTaken(c, j)
      BY <1>4, <1>7, <2>0, <2>1 DEF NoneTaken
    <3>3. FirstSnap(c, j) = c.pending
      BY <1>4, <2>0, <3>2, FirstSnapIs
    <3>4. View(c.pending, j) = View(m, j)
      <4>1. CASE m.live
        <5>1. c.pending = RollbackMap(m, i)
          BY <1>6, <4>1
        <5> QED BY <1>1, <1>3, <2>0, <4>1, <5>1, RollbackView
      <4>2. CASE ~m.live
        BY <1>6, <4>2
      <4> QED BY <4>1, <4>2
    <3> QED BY <1>7, <2>0, <3>1, <3>3, <3>4, ApplySame DEF View, Remembers
  <2>2. CASE \E h \in j..i - 1 : b.stack[h].snap.live
    <3>1. PICK h \in j..Len(b.stack) : FirstTaken(b, j, h)
      BY <1>1, <2>0, <2>2, FirstSnapIs DEF NoneTaken
    <3>2. h \in j..i - 1
      <4>1. PICK g \in j..i - 1 : b.stack[g].snap.live
        BY <2>2
      <4>2. ~(g < h)
        BY <2>0, <3>1, <4>1 DEF FirstTaken
      <4> QED BY <1>2, <1>3, <2>0, <4>2
    <3>3. FirstTaken(c, j, h)
      BY <1>4, <1>7, <2>0, <3>1, <3>2 DEF FirstTaken
    <3>4. FirstSnap(c, j) = c.stack[h].snap /\ FirstSnap(b, j) = b.stack[h].snap
      BY <1>1, <1>4, <2>0, <3>1, <3>3, FirstSnapIs
    <3>5. FirstSnap(c, j) = FirstSnap(b, j)
      BY <1>7, <2>0, <3>2, <3>4
    <3> QED BY <1>7, <2>0, <3>5 DEF Remembers
  <2> QED BY <2>1, <2>2
<1>9. \A j \in 1..i - 1 : to[j] = mk[j]
  BY <1>3 DEF Prefix
<1>10. \A j \in i..Len(to) : to[j] = Contents(c)
  BY <1>3, <1>5 DEF Prefix
<1>11. Remembers(c, to)
  <2>1. Len(c.stack) + 1 = i
    BY <1>3, <1>4
  <2> QED BY <1>4, <1>8, <1>9, <1>10, <2>1 DEF Remembers
<1> QED BY <1>5, <1>11 DEF c
\* inheritPendingSnapshots
LEMMA InheritedIs ==
  ASSUME NEW b, BtOK(b), NEW i \in 1..Len(b.stack)
  PROVE  LET s == Inherited(b, i) IN
         /\ s \in Seq(Savepoint) /\ Len(s) = i - 1
         /\ \A j \in 1..i - 1 : s[j].root = b.stack[j].root
         /\ \A j \in 1..i - 1 : j # i - 1 \/ b.stack[j].snap.live => s[j] = b.stack[j]
         /\ NoneTaken(b, i) => \A j \in 1..i - 1 : s[j] = b.stack[j]
         /\ i > 1 /\ ~NoneTaken(b, i) /\ ~b.stack[i - 1].snap.live =>
              s[i - 1].snap = FirstSnap(b, i) /\ FirstSnap(b, i).live
<1> DEFINE s == Inherited(b, i)
           o == SubSeq(b.stack, 1, i - 1)
           taken == {j \in i..Len(b.stack) : b.stack[j].snap.live}
           x == FirstSnap(b, i)
<1>1. /\ b \in BtType /\ b.stack \in Seq(Savepoint) /\ Len(b.stack) \in Nat
      /\ DOMAIN b.stack = 1..Len(b.stack) /\ i - 1 \in Nat
      /\ \A j \in DOMAIN b.stack : b.stack[j] \in Savepoint
  BY BtIs DEF BtOK
<1>2. o \in Seq(Savepoint) /\ Len(o) = i - 1 /\ \A j \in 1..i - 1 : o[j] = b.stack[j]
  BY <1>1, OuterStack
<1>3. NoneTaken(b, i) <=> taken = {}
  BY DEF NoneTaken
<1>4. CASE i = 1 \/ NoneTaken(b, i)
  <2>1. s = o
    BY <1>3, <1>4 DEF Inherited
  <2> HIDE DEF s, o
  <2> QED BY <1>2, <1>4, <2>1 DEF s
<1>5. CASE i # 1 /\ ~NoneTaken(b, i)
  <2>1. x \in Map /\ x.live
    <3>1. PICK j \in i..Len(b.stack) : FirstTaken(b, i, j)
      BY <1>1, <1>5, FirstSnapIs
    <3>2. x = b.stack[j].snap /\ b.stack[j].snap.live /\ j \in DOMAIN b.stack
      BY <1>1, <3>1, FirstSnapIs DEF FirstTaken
    <3> QED BY <1>1, <3>2, BtIs
  <2>2. s = [o EXCEPT ![i - 1].snap = IF @.live THEN @ ELSE x]
    BY <1>3, <1>5 DEF Inherited, FirstSnap
  <2> DEFINE y == IF b.stack[i - 1].snap.live THEN b.stack[i - 1].snap ELSE x
             e == [b.stack[i - 1] EXCEPT !.snap = y]
  <2>3. i - 1 \in 1..i - 1 /\ i - 1 \in DOMAIN b.stack
    BY <1>1, <1>5
  <2>4. y \in Map
    BY <1>1, <2>1, <2>3, BtIs
  <2>5. s = [o EXCEPT ![i - 1] = [o[i - 1] EXCEPT !.snap = IF o[i - 1].snap.live THEN o[i - 1].snap ELSE x]]
    BY <2>2
  <2>6. o[i - 1] = b.stack[i - 1]
    BY <1>2, <2>3
  <2>7. s = [o EXCEPT ![i - 1] = e]
    BY <2>5, <2>6
  <2> HIDE DEF y
  <2>8. e \in Savepoint /\ e.root = b.stack[i - 1].root /\ e.snap = y
    BY <1>1, <2>3, <2>4 DEF Savepoint
  <2>9. b.stack[i - 1].snap.live => e = b.stack[i - 1]
    <3>1. b.stack[i - 1] \in Savepoint
      BY <1>1, <2>3
    <3>2. ASSUME b.stack[i - 1].snap.live PROVE y = b.stack[i - 1].snap
      BY <3>2 DEF y
    <3> QED BY <3>1, <3>2 DEF Savepoint
  <2> HIDE DEF s, o, e, x
  <2>10. s \in Seq(Savepoint) /\ Len(s) = i - 1
         /\ \A j \in 1..i - 1 : s[j] = IF j = i - 1 THEN e ELSE b.stack[j]
    BY <1>1, <1>2, <2>3, <2>7, <2>8
  <2>11. ~b.stack[i - 1].snap.live => y = x
    BY DEF y
  <2> QED BY <1>5, <2>1, <2>3, <2>8, <2>9, <2>10, <2>11 DEF s, x
<1> QED BY <1>4, <1>5

\* prollyMutMapReleaseSavepoint on the buffer of the Btree
LEMMA ReleasedBuffer ==
  ASSUME NEW b, BtOK(b), NEW i \in 1..Len(b.stack), i = 1 => Len(b.stack) <= 1
  PROVE  LET p == Released(b, i).pending IN
         /\ MapOK(p) /\ Within(p, i - 1)
         /\ p.live => p.level = i - 1
         /\ Apply(p, b.root) = Apply(b.pending, b.root)
         /\ \A j \in 1..i - 1 : View(p, j) = View(b.pending, j)
<1> DEFINE m == b.pending
           p == Released(b, i).pending
<1>1. /\ b \in BtType /\ MapOK(m) /\ Within(m, Len(b.stack)) /\ Len(b.stack) <= MaxDepth + 1
      /\ Len(b.stack) \in Nat /\ b.root \in Table
  BY BtIs DEF BtOK
<1>2. ASSUME i = 1 PROVE Len(b.stack) = 1
  <2>1. Len(b.stack) <= 1 /\ Len(b.stack) \in Nat /\ 1 \in 1..Len(b.stack)
    BY <1>1, <1>2
  <2>2. \A n \in Nat : n <= 1 /\ 1 \in 1..n => n = 1
    OBVIOUS
  <2> QED BY <2>1, <2>2
<1>3. i = 1 => Within(m, 1)
  BY <1>1, <1>2
<1>0. i \in 1..MaxDepth + 1 /\ i - 1 \in Nat /\ ~(i > Len(b.stack))
  BY <1>1, ClientAssumption
<1>4. p = IF m.live THEN ReleaseMap(m, i) ELSE m
  BY <1>0, <1>1 DEF Released, BtType
<1> HIDE DEF p
<1>5. CASE m.live
  <2>1. p = ReleaseMap(m, i)
    BY <1>4, <1>5
  <2>2. MapOK(ReleaseMap(m, i)) /\ Within(ReleaseMap(m, i), i - 1)
    BY <1>0, <1>1, <1>3, <1>5, ReleaseOK
  <2>3. ReleaseMap(m, i).level = i - 1
    BY <1>0, <1>1, ReleaseFields
  <2>4. Apply(ReleaseMap(m, i), b.root) = Apply(m, b.root)
    BY <1>0, <1>1, ReleaseApply
  <2>5. \A j \in 1..i - 1 : View(ReleaseMap(m, i), j) = View(m, j)
    BY <1>0, <1>1, <1>5, ReleaseView
  <2> QED BY <2>1, <2>2, <2>3, <2>4, <2>5 DEF p
<1>6. CASE ~m.live
  <2>1. p = m /\ m = NoMap
    BY <1>1, <1>4, <1>6 DEF MapOK
  <2>2. Within(NoMap, i - 1)
    <3>1. DOMAIN NoMap.undo = {} /\ \A k \in Keys : NoMap.edits[k].born = -1
      BY DEF NoMap, NoEdit
    <3> QED BY <1>0, <3>1 DEF Within
  <2> HIDE DEF m
  <2> QED BY <1>1, <1>6, <2>1, <2>2 DEF p, m
<1> QED BY <1>5, <1>6
\* releaseSavepointsFrom: the outer savepoints are as before
LEMMA ReleasedOK ==
  ASSUME NEW b, BtOK(b), NEW i \in 1..Len(b.stack), i = 1 => Len(b.stack) <= 1
  PROVE  LET c == Released(b, i) IN
         /\ BtOK(c) /\ Len(c.stack) = i - 1 /\ c.write = b.write /\ Contents(c) = Contents(b)
         /\ \A mk \in Seq(Table) : \A to :
              Remembers(b, mk) /\ Prefix(to, mk) /\ Len(to) = i - 1 => Remembers(c, to)
<1> DEFINE c == Released(b, i)
           p == c.pending
           s == Inherited(b, i)
           m == FirstSnap(b, i)
<1>1. b \in BtType /\ Len(b.stack) <= MaxDepth + 1 /\ MapOK(m)
      /\ \A j \in DOMAIN b.stack : MapOK(b.stack[j].snap)
  BY FirstSnapOK DEF BtOK
<1>2. /\ b.root \in Table /\ Len(b.stack) \in Nat /\ DOMAIN b.stack = 1..Len(b.stack)
      /\ ~(i > Len(b.stack)) /\ i - 1 \in Nat /\ i - 1 <= MaxDepth + 1
      /\ \A j \in 1..i - 1 : j \in 1..Len(b.stack) /\ j \in Nat
  BY <1>1, BtIs, ClientAssumption
<1>3. /\ MapOK(p) /\ Within(p, i - 1)
      /\ p.live => p.level = i - 1
      /\ Apply(p, b.root) = Apply(b.pending, b.root)
      /\ \A j \in 1..i - 1 : View(p, j) = View(b.pending, j)
  BY ReleasedBuffer
<1>4. /\ s \in Seq(Savepoint) /\ Len(s) = i - 1
      /\ \A j \in 1..i - 1 : s[j].root = b.stack[j].root
      /\ \A j \in 1..i - 1 : j # i - 1 \/ b.stack[j].snap.live => s[j] = b.stack[j]
      /\ NoneTaken(b, i) => \A j \in 1..i - 1 : s[j] = b.stack[j]
      /\ i > 1 /\ ~NoneTaken(b, i) /\ ~b.stack[i - 1].snap.live => s[i - 1].snap = m /\ m.live
  BY InheritedIs
<1>5. c = [b EXCEPT !.pending = IF @.live THEN ReleaseMap(@, i) ELSE @, !.stack = s]
  BY <1>2 DEF Released
<1>6. c.root = b.root /\ c.stack = s /\ c.write = b.write
      /\ c = [root |-> b.root, pending |-> p, stack |-> s, write |-> b.write]
  BY <1>1, <1>5 DEF BtType
<1> HIDE DEF c, p, s, m
<1>7. c \in BtType
  <2>1. p \in Map
    BY <1>3 DEF MapOK
  <2> QED BY <1>1, <1>4, <1>6, <2>1 DEF BtType
<1>8. \A j \in DOMAIN s : MapOK(s[j].snap)
  <2>1. DOMAIN s = 1..i - 1 /\ i \in Nat
    BY <1>2, <1>4, <1>6, <1>7, BtIs
  <2> TAKE j \in DOMAIN s
  <2>2. CASE s[j] = b.stack[j]
    BY <1>1, <1>2, <2>1, <2>2
  <2>3. CASE s[j] # b.stack[j]
    <3>1. j = i - 1 /\ ~NoneTaken(b, i) /\ ~b.stack[i - 1].snap.live /\ i > 1
      BY <1>2, <1>4, <2>1, <2>3
    <3> QED BY <1>1, <1>4, <3>1
  <2> QED BY <2>2, <2>3
<1>9. BtOK(c)
  BY <1>2, <1>3, <1>4, <1>6, <1>7, <1>8 DEF BtOK, p
<1>10. Contents(c) = Contents(b)
  BY <1>3, <1>6 DEF Contents, p
<1>11. ASSUME NEW j \in 1..i - 1 PROVE View(FirstSnap(c, j), j) = View(FirstSnap(b, j), j)
  <2>0. /\ j \in 1..Len(b.stack) /\ j \in Nat /\ Len(c.stack) = i - 1 /\ j \in 1..Len(c.stack)
        /\ \A h \in j..i - 1 : h \in 1..i - 1 /\ h \in j..Len(b.stack) /\ h \in j..Len(c.stack)
        /\ i - 1 \in j..i - 1 /\ i \in Nat /\ i > 1
    BY <1>2, <1>4, <1>6
  <2>1. CASE \A h \in j..i - 1 : ~b.stack[h].snap.live
    <3>1. FirstSnap(b, j) = m
      BY <1>1, <2>1, FirstSnapOuter DEF m
    <3>2. CASE NoneTaken(b, i)
      <4>1. NoneTaken(c, j)
        BY <1>4, <1>6, <2>0, <2>1, <3>2 DEF NoneTaken
      <4>2. FirstSnap(c, j) = p
        BY <1>7, <2>0, <4>1, FirstSnapIs DEF p
      <4>3. m = b.pending
        BY <1>1, <3>2, FirstSnapIs DEF m
      <4> QED BY <1>3, <3>1, <4>2, <4>3
    <3>3. CASE ~NoneTaken(b, i)
      <4>1. c.stack[i - 1].snap = m /\ m.live
        BY <1>4, <1>6, <2>0, <2>1, <3>3
      <4>2. \A h \in j..Len(c.stack) : h < i - 1 => c.stack[h] = b.stack[h] /\ h \in j..i - 1
        BY <1>2, <1>4, <1>6, <2>0
      <4>3. FirstTaken(c, j, i - 1)
        BY <2>0, <2>1, <4>1, <4>2 DEF FirstTaken
      <4>4. FirstSnap(c, j) = c.stack[i - 1].snap
        BY <1>7, <2>0, <4>3, FirstSnapIs
      <4> QED BY <3>1, <4>1, <4>4
    <3> QED BY <3>2, <3>3
  <2>2. CASE \E h \in j..i - 1 : b.stack[h].snap.live
    <3>1. PICK h \in j..Len(b.stack) : FirstTaken(b, j, h)
      BY <1>1, <2>0, <2>2, FirstSnapIs DEF NoneTaken
    <3>2. h \in j..i - 1
      <4>1. PICK g \in j..i - 1 : b.stack[g].snap.live
        BY <2>2
      <4>2. ~(g < h)
        BY <2>0, <3>1, <4>1 DEF FirstTaken
      <4> QED BY <1>2, <2>0, <4>2
    <3>3. /\ c.stack[h] = b.stack[h]
          /\ \A g \in j..Len(c.stack) : g < h => c.stack[g] = b.stack[g] /\ g \in j..Len(b.stack)
      BY <1>2, <1>4, <1>6, <2>0, <3>1, <3>2 DEF FirstTaken
    <3>4. FirstTaken(c, j, h)
      BY <2>0, <3>1, <3>2, <3>3 DEF FirstTaken
    <3>5. FirstSnap(c, j) = c.stack[h].snap /\ FirstSnap(b, j) = b.stack[h].snap
      BY <1>1, <1>7, <2>0, <3>1, <3>4, FirstSnapIs
    <3> QED BY <3>3, <3>5
  <2> QED BY <2>1, <2>2
<1>12. ASSUME NEW mk \in Seq(Table), Remembers(b, mk), NEW to, Prefix(to, mk), Len(to) = i - 1
       PROVE  Remembers(c, to)
  <2>1. ASSUME NEW j \in 1..i - 1
        PROVE  Apply(RollbackMap(FirstSnap(c, j), j), c.stack[j].root) = to[j]
    <3>1. Apply(RollbackMap(FirstSnap(c, j), j), c.stack[j].root)
            = Apply(RollbackMap(FirstSnap(b, j), j), b.stack[j].root)
      BY <1>4, <1>6, <1>11, ApplySame DEF View
    <3>2. to[j] = mk[j]
      BY <1>12 DEF Prefix
    <3> QED BY <1>2, <1>12, <3>1, <3>2 DEF Remembers
  <2>2. Len(c.stack) = i - 1 /\ \A j \in i - 1 + 1..i - 1 : FALSE
    BY <1>2, <1>4, <1>6
  <2> QED BY <1>12, <2>1, <2>2 DEF Remembers
<1> QED BY <1>4, <1>6, <1>9, <1>10, <1>12 DEF c
\* Only tree and buffer say what a table holds, and only the stack and the
\* buffers what a rollback brings back
LEMMA AnewOK ==
  ASSUME NEW b, BtOK(b), NEW c \in BtType, c.pending = NoMap, c.stack \in {b.stack, <<>>}
  PROVE  BtOK(c) /\ Contents(c) = c.root
<1>1. /\ Len(c.stack) \in Nat /\ Len(c.stack) <= MaxDepth + 1 /\ c.root \in Table
      /\ \A i \in DOMAIN c.stack : MapOK(c.stack[i].snap)
  <2>1. CASE c.stack = b.stack
    BY <2>1, BtIs DEF BtOK
  <2>2. CASE c.stack = <<>>
    BY <2>2, BtIs, ClientAssumption
  <2> QED BY <2>1, <2>2
<1>2. MapOK(NoMap) /\ ~NoMap.live
  BY NoMapIs
<1>3. Within(NoMap, Len(c.stack))
  <2>1. DOMAIN NoMap.undo = {} /\ \A k \in Keys : NoMap.edits[k].born = -1
    BY DEF NoMap, NoEdit
  <2> QED BY <1>1, <2>1 DEF Within
<1>4. BtOK(c)
  BY <1>1, <1>2, <1>3 DEF BtOK
<1>5. Apply(NoMap, c.root) = c.root
  <2>1. 1 \in Nat \ {0}
    OBVIOUS
  <2> QED BY <1>1, <2>1, NoEdits
<1> QED BY <1>4, <1>5 DEF Contents

\* sqlite3BtreeBeginTrans(p, 1)
LEMMA BeginWriteOK ==
  ASSUME NEW b, BtOK(b), sql.depth \in 0..MaxDepth
  PROVE  LET c == BeginWrite(b) IN
         /\ BtOK(c) /\ c.write = TRUE /\ Contents(c) = Contents(b)
         /\ c.pending.edits = b.pending.edits
         /\ Len(c.stack) = IF b.write = FALSE /\ sql.depth > Len(b.stack)
                           THEN sql.depth ELSE Len(b.stack)
         /\ \A mk \in Seq(Table) : Remembers(b, mk) /\ sql.depth <= Len(mk) => Remembers(c, mk)
<1> DEFINE c == BeginWrite(b)
           p == Pushed(b, sql.depth)
<1>1. b \in BtType /\ b.write \in BOOLEAN /\ Len(b.stack) \in Nat
  BY BtIs DEF BtOK
<1>2. CASE b.write = TRUE
  <2>1. c = b
    BY <1>2 DEF BeginWrite
  <2> QED BY <1>2, <2>1
<1>3. CASE b.write = FALSE
  <2>0. sql.depth \in 0..MaxDepth + 1 /\ sql.depth \in Nat
    BY ClientAssumption
  <2>1. /\ BtOK(p) /\ Contents(p) = Contents(b) /\ p.pending.edits = b.pending.edits
        /\ \A mk \in Seq(Table) : Remembers(b, mk) /\ sql.depth <= Len(mk) => Remembers(p, mk)
    BY <2>0, PushedOK
  <2>2. Len(p.stack) = IF sql.depth <= Len(b.stack) THEN Len(b.stack) ELSE sql.depth
    BY <2>0, PushedIs
  <2>3. c = [p EXCEPT !.write = TRUE]
    BY <1>3 DEF BeginWrite
  <2> HIDE DEF p, c
  <2>4. p \in BtType
    BY <2>1 DEF BtOK
  <2>5. /\ c \in BtType /\ c.root = p.root /\ c.pending = p.pending /\ c.stack = p.stack
        /\ c.write = TRUE
    BY <2>3, <2>4 DEF BtType
  <2>6. BtOK(c) /\ Contents(c) = Contents(p) /\ \A mk : Remembers(p, mk) => Remembers(c, mk)
    BY <2>1, <2>5, SameBtree
  <2>7. Len(c.stack) = IF sql.depth > Len(b.stack) THEN sql.depth ELSE Len(b.stack)
    BY <1>1, <2>0, <2>2, <2>5
  <2> QED BY <1>3, <2>1, <2>5, <2>6, <2>7 DEF c
<1> QED BY <1>1, <1>2, <1>3

LEMMA DrainedOK ==
  ASSUME NEW b, BtOK(b)
  PROVE  LET c == Drained(b) IN
         /\ BtOK(c) /\ Contents(c) = Contents(b) /\ c.write = b.write
         /\ Len(c.stack) = Len(b.stack)
         /\ \A mk : Remembers(b, mk) => Remembers(c, mk)
<1>1. Drained(b) = Flushed(b) \/ Drained(b) = b
  BY DEF Drained
<1> QED BY <1>1, FlushedOK

\* prollyBtCursorInsert, prollyBtCursorDelete: one row changes, and no mark
LEMMA WrittenOK ==
  ASSUME NEW b, BtOK(b), NEW k \in Keys, NEW v \in Row,
         sql.depth \in 0..MaxDepth, sql.stmt \in {0, 1}
  PROVE  LET c == Written(b, k, v) IN
         /\ BtOK(c) /\ c.write = TRUE /\ Contents(c) = [Contents(b) EXCEPT ![k] = v]
         /\ Len(c.stack) = IF sql.depth + sql.stmt > Len(b.stack)
                           THEN sql.depth + sql.stmt ELSE Len(b.stack)
         /\ \A mk \in Seq(Table) :
              Remembers(b, mk) /\ Len(mk) = sql.depth + sql.stmt => Remembers(c, mk)
<1> DEFINE n == sql.depth + sql.stmt
           b1 == BeginWrite(b)
           b2 == Pushed(b1, n)
           b3 == Buffered(b2)
           b4 == [b3 EXCEPT !.pending = Put(@, k, v)]
           c == Drained(b4)
<1>0. n \in 0..MaxDepth + 1 /\ n \in Nat /\ sql.depth \in Nat /\ sql.depth <= n /\ Len(b.stack) \in Nat
  BY ClientAssumption, BtIs DEF BtOK
<1>1. /\ BtOK(b1) /\ b1.write = TRUE /\ Contents(b1) = Contents(b)
      /\ Len(b1.stack) = IF b.write = FALSE /\ sql.depth > Len(b.stack)
                         THEN sql.depth ELSE Len(b.stack)
      /\ \A mk \in Seq(Table) : Remembers(b, mk) /\ sql.depth <= Len(mk) => Remembers(b1, mk)
  BY BeginWriteOK
<1>11. c = Written(b, k, v)
  BY DEF Written
<1> HIDE DEF b1, n
<1>2. /\ BtOK(b2) /\ Contents(b2) = Contents(b1)
      /\ \A mk \in Seq(Table) : Remembers(b1, mk) /\ n <= Len(mk) => Remembers(b2, mk)
  BY <1>0, <1>1, PushedOK
<1>3. b2.write = b1.write /\ Len(b2.stack) = IF n <= Len(b1.stack) THEN Len(b1.stack) ELSE n
  <2>1. b2.write = b1.write
    BY <1>0, <1>1, PushedIs
  <2>2. Len(b2.stack) = IF n <= Len(b1.stack) THEN Len(b1.stack) ELSE n
    <3>1. BtOK(b1) /\ n \in 0..MaxDepth + 1
      BY <1>0, <1>1
    <3> QED BY ONLY <3>1, PushedIs
  <2> QED BY <2>1, <2>2
<1> HIDE DEF b2
<1>4. /\ BtOK(b3) /\ Contents(b3) = Contents(b2) /\ b3.pending.live
      /\ b3.stack = b2.stack /\ b3.write = b2.write
      /\ \A mk : Remembers(b2, mk) => Remembers(b3, mk)
  BY <1>2, BufferedOK
<1> HIDE DEF b3
<1>5. /\ BtOK(b4) /\ Contents(b4) = [Contents(b3) EXCEPT ![k] = v]
      /\ b4.stack = b3.stack /\ b4.write = b3.write
      /\ \A mk \in Seq(Table) : Remembers(b3, mk) /\ Len(mk) <= Len(b3.stack) => Remembers(b4, mk)
  BY <1>4, EditedOK
<1> HIDE DEF b4
<1>6. /\ BtOK(c) /\ Contents(c) = Contents(b4) /\ c.write = b4.write
      /\ Len(c.stack) = Len(b4.stack)
      /\ \A mk : Remembers(b4, mk) => Remembers(c, mk)
  BY <1>5, DrainedOK
<1> HIDE DEF c
<1>7. c.write = TRUE /\ Contents(c) = [Contents(b) EXCEPT ![k] = v]
  BY <1>1, <1>2, <1>3, <1>4, <1>5, <1>6
<1>8. Len(b2.stack) = IF n > Len(b.stack) THEN n ELSE Len(b.stack)
  BY <1>0, <1>1, <1>3
<1>9. Len(c.stack) = Len(b2.stack) /\ n <= Len(b2.stack) /\ Len(b3.stack) = Len(b2.stack)
  BY <1>0, <1>4, <1>5, <1>6, <1>8
<1>10. ASSUME NEW mk \in Seq(Table), Remembers(b, mk), Len(mk) = n PROVE Remembers(c, mk)
  <2>1. sql.depth <= Len(mk) /\ n <= Len(mk) /\ Len(mk) <= Len(b3.stack)
    BY <1>0, <1>9, <1>10
  <2> QED BY <1>1, <1>2, <1>4, <1>5, <1>6, <1>10, <2>1
<1> QED BY <1>11, <1>6, <1>7, <1>8, <1>9, <1>10 DEF n

-----------------------------------------------------------------------------
(* The statements.  A client that neither releases the outermost savepoint *)
(* with others in it nor commits with savepoints set keeps the Btree in    *)
(* step with SQLite; one without any of the habits finds SQL's savepoints. *)

SqlType == [auto : BOOLEAN, txn : BOOLEAN, depth : 0..MaxDepth, stmt : {0, 1}]

\* The Btree has pushed some of the savepoints, and all of them in a statement
\* that may fail
InStep(b, q, mk) ==
  /\ BtOK(b)
  /\ q \in SqlType
  /\ mk \in Seq(Table) /\ Len(mk) = q.depth + q.stmt
  /\ Len(b.stack) <= Len(mk)
  /\ b.write = FALSE => b.stack = <<>>
  /\ q.auto = TRUE => q = Idle
  /\ q.stmt = 1 => b.write = TRUE /\ Len(b.stack) = Len(mk)

Inv == InStep(bt, sql, marks) /\ committed \in Table /\ steps \in 0..MaxSteps

\* and every mark is what a rollback would find, down to the last commit
Recalls(b, mk, t) == Remembers(b, mk) /\ (b.write = FALSE => Contents(b) = t)

LEMMA StepIs ==
  ASSUME NEW b, NEW q, NEW mk, InStep(b, q, mk)
  PROVE  /\ b \in BtType /\ BtOK(b) /\ b.write \in BOOLEAN /\ Len(b.stack) \in Nat
         /\ Len(b.stack) <= Len(mk) /\ Contents(b) \in Table
         /\ q.auto \in BOOLEAN /\ q.txn \in BOOLEAN /\ q.depth \in 0..MaxDepth /\ q.depth \in Nat
         /\ q.stmt \in {0, 1}
         /\ mk \in Seq(Table) /\ Len(mk) \in Nat /\ Len(mk) = q.depth + q.stmt
         /\ MaxDepth \in Nat
<1>1. b \in BtType /\ q \in SqlType /\ mk \in Seq(Table) /\ Len(mk) = q.depth + q.stmt
      /\ Len(b.stack) <= Len(mk) /\ BtOK(b)
  BY DEF InStep, BtOK
<1>2. q.auto \in BOOLEAN /\ q.txn \in BOOLEAN /\ q.depth \in 0..MaxDepth /\ q.stmt \in {0, 1}
  BY <1>1 DEF SqlType
<1> QED BY <1>1, <1>2, BtIs, ContentsIs, ClientAssumption

\* The levels and the undo log are as TypeOK has them
LEMMA InvType == Inv => TypeOK
<1> SUFFICES ASSUME Inv PROVE TypeOK
  OBVIOUS
<1>1. InStep(bt, sql, marks) /\ committed \in Table /\ steps \in 0..MaxSteps
  BY DEF Inv
<1>2. /\ bt \in BtType /\ sql \in SqlType /\ marks \in Seq(Table)
      /\ Len(marks) = sql.depth + sql.stmt /\ BtOK(bt)
  BY <1>1, StepIs DEF InStep
<1>3. /\ Len(bt.stack) <= MaxDepth + 1 /\ Within(bt.pending, Len(bt.stack))
      /\ bt.pending.live => bt.pending.level = Len(bt.stack)
  BY <1>2 DEF BtOK
<1> QED BY <1>1, <1>2, <1>3 DEF TypeOK, BtType, SqlType, Within

\* Nothing is open
LEMMA IdleStep ==
  ASSUME NEW b, BtOK(b), b.stack = <<>>
  PROVE  InStep(b, Idle, <<>>) /\ \A t \in Table :
           (b.write = FALSE => Contents(b) = t) => Recalls(b, <<>>, t)
<1>1. Idle \in SqlType /\ Idle.depth + Idle.stmt = 0 /\ Idle.stmt = 0
  BY ClientAssumption DEF Idle, SqlType
<1>2. Len(b.stack) = 0 /\ <<>> \in Seq(Table) /\ Len(<<>>) = 0
  OBVIOUS
<1>3. Remembers(b, <<>>)
  <2>1. 1..0 = {} /\ 0 + 1..0 = {}
    OBVIOUS
  <2> QED BY <1>2, <2>1 DEF Remembers
<1> QED BY <1>1, <1>2, <1>3 DEF InStep, Recalls

LEMMA InitStep == Init => Inv /\ Recalls(bt, marks, committed)
<1> SUFFICES ASSUME Init PROVE Inv /\ Recalls(bt, marks, committed)
  OBVIOUS
<1>1. /\ bt = [root |-> NoRows, pending |-> NoMap, stack |-> <<>>, write |-> FALSE]
      /\ sql = Idle /\ committed = NoRows /\ marks = <<>> /\ steps = 0
  BY DEF Init
<1>2. NoRows \in Table
  BY DEF NoRows, Table, Row
<1>3. /\ bt.root = NoRows /\ bt.pending = NoMap /\ bt.stack = <<>> /\ bt.write = FALSE
      /\ bt \in BtType
  BY <1>1, <1>2, NoMapIs DEF BtType, MapOK
<1>4. BtOK(bt) /\ Contents(bt) = NoRows
  <2>1. MapOK(NoMap) /\ Within(NoMap, 0) /\ ~NoMap.live
    BY NoMapIs
  <2>2. Len(bt.stack) = 0 /\ 0 <= MaxDepth + 1 /\ DOMAIN bt.stack = {}
    BY <1>3, ClientAssumption
  <2>3. BtOK(bt)
    BY <1>3, <2>1, <2>2 DEF BtOK
  <2> QED BY <1>3, <2>3, AnewOK
<1>5. InStep(bt, sql, marks) /\ Recalls(bt, marks, committed)
  BY <1>1, <1>2, <1>3, <1>4, IdleStep
<1> QED BY <1>1, <1>2, <1>5, ClientAssumption DEF Inv

LEMMA BeginStep ==
  ASSUME Inv, NEW txn \in BOOLEAN, Begin(txn)
  PROVE  /\ InStep(bt', sql', marks') /\ committed' \in Table
         /\ Recalls(bt, marks, committed) =>
              Recalls(bt', marks', committed') /\ Sql!Begin
<1>1. InStep(bt, sql, marks) /\ committed \in Table
  BY DEF Inv
<1>2. /\ BtOK(bt) /\ bt.write \in BOOLEAN /\ Len(bt.stack) <= Len(marks)
      /\ bt.write = FALSE => bt.stack = <<>>
  BY <1>1, StepIs DEF InStep
<1>3. sql = Idle /\ sql.auto = TRUE /\ Len(marks) = 0
  <2>1. sql.auto = TRUE
    BY <1>1, StepIs DEF Begin
  <2> QED BY <1>1, <2>1, ClientAssumption DEF InStep, Idle
<1>4. /\ sql' = [auto |-> FALSE, txn |-> txn, depth |-> 0, stmt |-> 0]
      /\ bt' = bt /\ committed' = committed /\ marks' = marks
  BY DEF Begin, Idle
<1>5. sql' \in SqlType /\ sql'.auto = FALSE /\ sql'.depth + sql'.stmt = 0 /\ sql'.stmt = 0
  BY <1>4, ClientAssumption DEF SqlType
<1>6. InStep(bt', sql', marks')
  BY <1>1, <1>2, <1>3, <1>4, <1>5, StepIs DEF InStep
<1>7. Sql!Begin
  BY <1>3, <1>4, <1>5 DEF Sql!Begin
<1> QED BY <1>1, <1>4, <1>6, <1>7

\* OP_Savepoint
LEMMA SetSavepointStep ==
  ASSUME Inv, SetSavepoint
  PROVE  /\ InStep(bt', sql', marks') /\ committed' \in Table
         /\ Recalls(bt, marks, committed) =>
              Recalls(bt', marks', committed') /\ Sql!Mark
<1>1. InStep(bt, sql, marks) /\ committed \in Table
  BY DEF Inv
<1>2. /\ BtOK(bt) /\ bt.write \in BOOLEAN /\ Len(bt.stack) <= Len(marks) /\ Contents(bt) \in Table
      /\ sql \in SqlType /\ sql.depth \in Nat /\ marks \in Seq(Table) /\ Len(marks) \in Nat
      /\ Len(marks) = sql.depth + sql.stmt /\ Len(bt.stack) \in Nat
      /\ bt.write = FALSE => bt.stack = <<>>
  BY <1>1, StepIs DEF InStep
<1>3. /\ sql.auto = FALSE /\ sql.stmt = 0 /\ sql.depth < MaxDepth
      /\ sql' = [sql EXCEPT !.depth = sql.depth + 1]
      /\ marks' = Append(marks, Contents(bt)) /\ bt' = bt /\ committed' = committed
  BY <1>1, StepIs DEF SetSavepoint, Free
<1>4. sql' \in SqlType /\ sql'.auto = FALSE /\ sql'.depth = sql.depth + 1 /\ sql'.stmt = 0
  BY <1>2, <1>3, ClientAssumption DEF SqlType
<1>5. marks' \in Seq(Table) /\ Len(marks') = Len(marks) + 1
  BY <1>2, <1>3
<1>6. InStep(bt', sql', marks')
  BY <1>2, <1>3, <1>4, <1>5 DEF InStep
<1>7. ASSUME Recalls(bt, marks, committed) PROVE Recalls(bt', marks', committed') /\ Sql!Mark
  <2>1. Remembers(bt, marks')
    BY <1>2, <1>3, <1>7, MarkRemembered DEF Recalls
  <2>2. Sql!Mark
    BY <1>3, <1>4 DEF Sql!Mark
  <2> QED BY <1>3, <1>7, <2>1, <2>2 DEF Recalls
<1> QED BY <1>1, <1>3, <1>6, <1>7

\* A row is written, and nothing else happens
LEMMA WriteStep ==
  ASSUME Inv, NEW k \in Keys, NEW v \in Row, sql.auto = FALSE,
         bt' = Written(bt, k, v), UNCHANGED <<sql, committed, marks>>
  PROVE  /\ InStep(bt', sql', marks') /\ committed' \in Table
         /\ Recalls(bt, marks, committed) =>
              Recalls(bt', marks', committed') /\ Sql!Write(k, v)
<1>1. InStep(bt, sql, marks) /\ committed \in Table
  BY DEF Inv
<1>2. /\ BtOK(bt) /\ Len(bt.stack) <= Len(marks) /\ Len(bt.stack) \in Nat
      /\ sql \in SqlType /\ sql.depth \in 0..MaxDepth /\ sql.stmt \in {0, 1}
      /\ marks \in Seq(Table) /\ Len(marks) \in Nat /\ Len(marks) = sql.depth + sql.stmt
  BY <1>1, StepIs DEF InStep
<1> DEFINE c == Written(bt, k, v)
<1>3. /\ BtOK(c) /\ c.write = TRUE /\ Contents(c) = [Contents(bt) EXCEPT ![k] = v]
      /\ Len(c.stack) = IF sql.depth + sql.stmt > Len(bt.stack)
                        THEN sql.depth + sql.stmt ELSE Len(bt.stack)
      /\ \A mk \in Seq(Table) :
           Remembers(bt, mk) /\ Len(mk) = sql.depth + sql.stmt => Remembers(c, mk)
  BY ONLY <1>2, WrittenOK
<1>4. bt' = c
  OBVIOUS
<1> HIDE DEF c
<1>5. /\ BtOK(bt') /\ bt'.write = TRUE /\ Contents(bt') = [Contents(bt) EXCEPT ![k] = v]
      /\ Len(bt'.stack) = IF sql.depth + sql.stmt > Len(bt.stack)
                          THEN sql.depth + sql.stmt ELSE Len(bt.stack)
      /\ \A mk \in Seq(Table) :
           Remembers(bt, mk) /\ Len(mk) = sql.depth + sql.stmt => Remembers(bt', mk)
  BY <1>3, <1>4
<1>6. Len(bt'.stack) = Len(marks)
  BY <1>2, <1>5
<1>7. sql' = sql /\ marks' = marks /\ committed' = committed
  OBVIOUS
<1>8. InStep(bt', sql', marks')
  BY <1>2, <1>5, <1>6, <1>7 DEF InStep
<1>9. ASSUME Recalls(bt, marks, committed)
      PROVE  Recalls(bt', marks', committed') /\ Sql!Write(k, v)
  <2>1. Remembers(bt', marks')
    BY <1>2, <1>5, <1>7, <1>9 DEF Recalls
  <2>2. Sql!Write(k, v)
    BY <1>5, <1>7 DEF Sql!Write
  <2> QED BY <1>5, <2>1, <2>2 DEF Recalls
<1> QED BY <1>1, <1>7, <1>8, <1>9

\* SELECT count(*)
LEMMA CountStep ==
  ASSUME Inv, Count
  PROVE  /\ InStep(bt', sql', marks') /\ committed' \in Table
         /\ Recalls(bt, marks, committed) =>
              Recalls(bt', marks', committed') /\ UNCHANGED Sql!vars
<1>1. InStep(bt, sql, marks) /\ committed \in Table
  BY DEF Inv
<1>2. bt' = Flushed(bt) /\ sql' = sql /\ marks' = marks /\ committed' = committed
  BY DEF Count
<1>3. /\ BtOK(bt') /\ Contents(bt') = Contents(bt) /\ bt'.write = bt.write
      /\ Len(bt'.stack) = Len(bt.stack)
      /\ \A mk : Remembers(bt, mk) => Remembers(bt', mk)
  BY <1>1, <1>2, FlushedOK DEF InStep
<1>4. bt.stack = <<>> => bt'.stack = <<>>
  <2>1. bt'.stack \in Seq(Savepoint)
    BY <1>3, BtIs DEF BtOK
  <2>2. bt.stack = <<>> => Len(bt'.stack) = 0
    BY <1>3
  <2> QED BY <2>1, <2>2
<1>5. InStep(bt', sql', marks')
  BY <1>1, <1>2, <1>3, <1>4 DEF InStep
<1>6. ASSUME Recalls(bt, marks, committed)
      PROVE  Recalls(bt', marks', committed') /\ UNCHANGED Sql!vars
  BY <1>2, <1>3, <1>6 DEF Recalls, Sql!vars
<1> QED BY <1>1, <1>2, <1>5, <1>6

\* sqlite3BtreeClearTable, over no edits and with every savepoint pushed
LEMMA DeleteAllStep ==
  ASSUME Inv, DeleteAll
  PROVE  /\ InStep(bt', sql', marks') /\ committed' \in Table
         /\ Recalls(bt, marks, committed) /\ ~May(LateClear) =>
              Recalls(bt', marks', committed') /\ Sql!DeleteAll
<1> DEFINE b == BeginWrite(bt)
           c == [b EXCEPT !.root = NoRows]
<1>1. InStep(bt, sql, marks) /\ committed \in Table
  BY DEF Inv
<1>2. /\ BtOK(bt) /\ bt.write \in BOOLEAN /\ Len(bt.stack) <= Len(marks) /\ Len(bt.stack) \in Nat
      /\ sql \in SqlType /\ sql.depth \in 0..MaxDepth /\ sql.depth \in Nat /\ sql.stmt \in {0, 1}
      /\ marks \in Seq(Table) /\ Len(marks) \in Nat /\ Len(marks) = sql.depth + sql.stmt
  BY <1>1, StepIs DEF InStep
<1>3. sql.auto = FALSE /\ sql.stmt = 0 /\ sql' = sql /\ marks' = marks /\ committed' = committed
  BY <1>1, StepIs DEF DeleteAll, Free
<1>4. bt' = c
  BY DEF DeleteAll
<1>5. /\ BtOK(b) /\ b.write = TRUE /\ b.pending.edits = bt.pending.edits
      /\ Len(b.stack) = IF bt.write = FALSE /\ sql.depth > Len(bt.stack)
                        THEN sql.depth ELSE Len(bt.stack)
      /\ \A mk \in Seq(Table) : Remembers(bt, mk) /\ sql.depth <= Len(mk) => Remembers(b, mk)
  BY <1>2, BeginWriteOK
<1> HIDE DEF b
<1>6. b \in BtType /\ NoRows \in Table
  BY <1>5 DEF BtOK, NoRows, Table, Row
<1>7. /\ c \in BtType /\ c.root = NoRows /\ c.pending = b.pending /\ c.stack = b.stack
      /\ c.write = TRUE
  BY <1>5, <1>6 DEF BtType
<1> HIDE DEF c
<1>8. BtOK(c)
  BY <1>5, <1>7 DEF BtOK
<1>9. Len(c.stack) <= Len(marks)
  BY <1>2, <1>3, <1>5, <1>7
<1>10. InStep(bt', sql', marks')
  BY <1>2, <1>3, <1>4, <1>7, <1>8, <1>9 DEF InStep
<1>11. ASSUME Recalls(bt, marks, committed), ~May(LateClear)
       PROVE  Recalls(bt', marks', committed') /\ Sql!DeleteAll
  <2>1. Edited(bt.pending) = {} /\ (bt.write => sql.depth <= Len(bt.stack))
    BY <1>11 DEF DeleteAll
  <2>2. Contents(c) = NoRows
    <3>1. \A k \in Keys : c.pending.edits[k].born = -1
      BY <1>5, <1>7, <2>1 DEF Edited, NoEdit
    <3>2. c.pending \in Map
      BY <1>7, BtIs
    <3> QED BY <1>6, <1>7, <3>1, <3>2, ApplyIs DEF Contents
  <2>3. Remembers(b, marks)
    BY <1>2, <1>3, <1>5, <1>11 DEF Recalls
  <2>4. Len(c.stack) = Len(marks)
    BY <1>2, <1>3, <1>5, <1>7, <2>1
  <2>5. \A i : FirstSnap(c, i) = FirstSnap(b, i)
    BY <1>7 DEF FirstSnap
  <2>6. \A i \in Len(c.stack) + 1..Len(marks) : FALSE
    BY <1>2, <2>4
  <2>7. Remembers(c, marks)
    BY <1>7, <2>3, <2>5, <2>6 DEF Remembers
  <2>8. Sql!DeleteAll
    BY <1>3, <1>4, <2>2 DEF Sql!DeleteAll, Sql!NoRows, NoRows
  <2> QED BY <1>3, <1>4, <1>7, <2>7, <2>8 DEF Recalls
<1> QED BY <1>1, <1>3, <1>10, <1>11

\* prollyBtreeBeginStmt
LEMMA BeginStmtStep ==
  ASSUME Inv, BeginStmt
  PROVE  /\ InStep(bt', sql', marks') /\ committed' \in Table
         /\ Recalls(bt, marks, committed) =>
              Recalls(bt', marks', committed') /\ Sql!Mark
<1> DEFINE b == BeginWrite(bt)
           n == sql.depth + 1
           c == Pushed(b, n)
<1>1. InStep(bt, sql, marks) /\ committed \in Table
  BY DEF Inv
<1>2. /\ BtOK(bt) /\ bt.write \in BOOLEAN /\ Len(bt.stack) <= Len(marks) /\ Len(bt.stack) \in Nat
      /\ sql \in SqlType /\ sql.depth \in 0..MaxDepth /\ sql.depth \in Nat /\ sql.stmt \in {0, 1}
      /\ marks \in Seq(Table) /\ Len(marks) \in Nat /\ Len(marks) = sql.depth + sql.stmt
      /\ Contents(bt) \in Table
  BY <1>1, StepIs DEF InStep
<1>3. /\ sql.auto = FALSE /\ sql.stmt = 0 /\ sql' = [sql EXCEPT !.stmt = 1]
      /\ marks' = Append(marks, Contents(bt)) /\ committed' = committed /\ bt' = c
  BY <1>1, StepIs DEF BeginStmt, Free
<1>4. sql' \in SqlType /\ sql'.auto = FALSE /\ sql'.depth = sql.depth /\ sql'.stmt = 1
  BY <1>2, <1>3 DEF SqlType
<1>5. /\ BtOK(b) /\ b.write = TRUE /\ Contents(b) = Contents(bt)
      /\ Len(b.stack) = IF bt.write = FALSE /\ sql.depth > Len(bt.stack)
                        THEN sql.depth ELSE Len(bt.stack)
      /\ \A mk \in Seq(Table) : Remembers(bt, mk) /\ sql.depth <= Len(mk) => Remembers(b, mk)
  BY <1>2, BeginWriteOK
<1>6. n \in 0..MaxDepth + 1 /\ n \in Nat
  BY <1>2, ClientAssumption
<1> HIDE DEF b, n
<1>7. /\ BtOK(c) /\ Contents(c) = Contents(b)
      /\ \A mk \in Seq(Table) : Remembers(b, mk) /\ n <= Len(mk) => Remembers(c, mk)
  BY <1>5, <1>6, PushedOK
<1>8. c.write = TRUE
  BY <1>5, <1>6, PushedIs
<1>9. Len(c.stack) = IF n <= Len(b.stack) THEN Len(b.stack) ELSE n
  BY ONLY <1>5, <1>6, PushedIs
<1> HIDE DEF c
<1>10. marks' \in Seq(Table) /\ Len(marks') = Len(marks) + 1 /\ Len(marks') = n
  BY <1>2, <1>3 DEF n
<1>11. Len(c.stack) = n
  BY <1>2, <1>3, <1>5, <1>6, <1>9 DEF n
<1>12. InStep(bt', sql', marks')
  BY <1>2, <1>3, <1>4, <1>6, <1>7, <1>8, <1>10, <1>11 DEF InStep, n
<1>13. ASSUME Recalls(bt, marks, committed) PROVE Recalls(bt', marks', committed') /\ Sql!Mark
  <2>1. Remembers(b, marks) /\ Len(b.stack) <= Len(marks)
    BY <1>2, <1>3, <1>5, <1>13 DEF Recalls
  <2>2. Remembers(b, marks')
    BY <1>2, <1>3, <1>5, <2>1, MarkRemembered
  <2>3. Remembers(c, marks')
    BY <1>6, <1>7, <1>10, <2>2
  <2>4. Sql!Mark
    BY <1>3, <1>4, <1>5, <1>7 DEF Sql!Mark
  <2> QED BY <1>3, <1>8, <2>3, <2>4 DEF Recalls
<1> QED BY <1>1, <1>3, <1>12, <1>13

\* What a release does to a Btree in step with its marks
LEMMA ReleaseIs ==
  ASSUME NEW b, BtOK(b), NEW mk \in Seq(Table), Len(b.stack) <= Len(mk),
         NEW i \in 1..Len(mk), i = 1 => Len(b.stack) <= 1
  PROVE  LET c == Released(b, i)
             to == SubSeq(mk, 1, i - 1)
         IN
         /\ BtOK(c) /\ c.write = b.write /\ Contents(c) = Contents(b)
         /\ to \in Seq(Table) /\ Len(to) = i - 1 /\ Len(c.stack) <= i - 1
         /\ i <= Len(b.stack) => Len(c.stack) = i - 1
         /\ b.stack = <<>> => c = b
         /\ Remembers(b, mk) => Remembers(c, to)
<1> DEFINE c == Released(b, i)
           to == SubSeq(mk, 1, i - 1)
<1>1. Len(b.stack) \in Nat /\ Len(mk) \in Nat /\ i - 1 \in 0..Len(mk) /\ i \in Nat
  BY BtIs DEF BtOK
<1>2. Prefix(to, mk) /\ Len(to) = i - 1 /\ to \in Seq(Table)
  BY <1>1, PrefixIs DEF Prefix
<1>3. CASE i > Len(b.stack)
  <2>1. c = b
    BY <1>3 DEF Released
  <2>2. Len(b.stack) <= i - 1 /\ ~(i <= Len(b.stack))
    BY <1>1, <1>3
  <2>3. Remembers(b, mk) => Remembers(b, to)
    BY <1>2, <2>2, PrefixRemembered
  <2> HIDE DEF c, to
  <2> QED BY <1>2, <2>1, <2>2, <2>3 DEF c, to
<1>4. CASE i <= Len(b.stack)
  <2>1. i \in 1..Len(b.stack)
    BY <1>1, <1>4
  <2>2. /\ BtOK(c) /\ Len(c.stack) = i - 1 /\ c.write = b.write /\ Contents(c) = Contents(b)
        /\ \A mk1 \in Seq(Table) : \A to1 :
             Remembers(b, mk1) /\ Prefix(to1, mk1) /\ Len(to1) = i - 1 => Remembers(c, to1)
    BY <2>1, ReleasedOK
  <2>3. b.stack # <<>>
    BY <2>1
  <2> HIDE DEF c, to
  <2>4. Remembers(b, mk) => Remembers(c, to)
    BY <1>2, <2>2
  <2> QED BY <1>1, <1>2, <2>2, <2>3, <2>4 DEF c, to
<1> QED BY <1>1, <1>3, <1>4

\* releaseSavepointsFrom
LEMMA ReleaseStep ==
  ASSUME Inv, NEW i \in 1..sql.depth, Release(i), ~May(OuterRelease)
  PROVE  /\ InStep(bt', sql', marks') /\ committed' \in Table
         /\ Recalls(bt, marks, committed) =>
              Recalls(bt', marks', committed') /\ Sql!Release(i)
<1> DEFINE c == Released(bt, i)
           to == SubSeq(marks, 1, i - 1)
<1>1. InStep(bt, sql, marks) /\ committed \in Table
  BY DEF Inv
<1>2. /\ BtOK(bt) /\ bt.write \in BOOLEAN /\ Len(bt.stack) <= Len(marks) /\ Len(bt.stack) \in Nat
      /\ sql \in SqlType /\ sql.depth \in 0..MaxDepth /\ sql.depth \in Nat /\ sql.stmt \in {0, 1}
      /\ marks \in Seq(Table) /\ Len(marks) \in Nat /\ Len(marks) = sql.depth + sql.stmt
      /\ bt.write = FALSE => bt.stack = <<>>
  BY <1>1, StepIs DEF InStep
<1>3. /\ sql.auto = FALSE /\ sql.stmt = 0 /\ sql' = [sql EXCEPT !.depth = i - 1]
      /\ marks' = to /\ committed' = committed
      /\ bt' = IF bt.write THEN c ELSE bt
      /\ i = 1 => sql.depth = 1
  BY <1>1, StepIs DEF Release, Free
<1>4. i \in 1..Len(marks) /\ i \in 1..MaxDepth /\ i - 1 \in 0..MaxDepth
  BY <1>2, <1>3, ClientAssumption
<1>5. i = 1 => Len(bt.stack) <= 1
  BY <1>2, <1>3
<1>6. sql' \in SqlType /\ sql'.auto = FALSE /\ sql'.depth = i - 1 /\ sql'.stmt = 0
  BY <1>2, <1>3, <1>4 DEF SqlType
<1>7. /\ BtOK(c) /\ c.write = bt.write /\ Contents(c) = Contents(bt)
      /\ to \in Seq(Table) /\ Len(to) = i - 1 /\ Len(c.stack) <= i - 1
      /\ i <= Len(bt.stack) => Len(c.stack) = i - 1
      /\ bt.stack = <<>> => c = bt
      /\ Remembers(bt, marks) => Remembers(c, to)
  BY <1>2, <1>4, <1>5, ReleaseIs
<1> HIDE DEF c, to
<1>8. bt' = c
  BY <1>2, <1>3, <1>7
<1>9. Len(marks') = sql'.depth + sql'.stmt
  BY <1>3, <1>4, <1>6, <1>7
<1>10. InStep(bt', sql', marks')
  BY <1>2, <1>3, <1>6, <1>7, <1>8, <1>9 DEF InStep
<1>11. ASSUME Recalls(bt, marks, committed)
       PROVE  Recalls(bt', marks', committed') /\ Sql!Release(i)
  <2>1. Recalls(bt', marks', committed')
    BY <1>3, <1>7, <1>8, <1>11 DEF Recalls
  <2>2. Sql!Release(i)
    BY <1>3, <1>6, <1>7, <1>8 DEF Sql!Release, to
  <2> QED BY <2>1, <2>2
<1> QED BY <1>1, <1>3, <1>10, <1>11

\* vdbeCloseStatement
LEMMA EndStmtStep ==
  ASSUME Inv, EndStmt
  PROVE  /\ InStep(bt', sql', marks') /\ committed' \in Table
         /\ Recalls(bt, marks, committed) =>
              Recalls(bt', marks', committed') /\ Sql!Release(Len(marks)) /\ Len(marks) \in 1..Len(marks)
<1> DEFINE i == sql.depth + 1
           c == Released(bt, i)
           to == SubSeq(marks, 1, i - 1)
<1>1. InStep(bt, sql, marks) /\ committed \in Table
  BY DEF Inv
<1>2. /\ BtOK(bt) /\ bt.write \in BOOLEAN /\ Len(bt.stack) <= Len(marks) /\ Len(bt.stack) \in Nat
      /\ sql \in SqlType /\ sql.depth \in 0..MaxDepth /\ sql.depth \in Nat /\ sql.stmt \in {0, 1}
      /\ marks \in Seq(Table) /\ Len(marks) \in Nat /\ Len(marks) = sql.depth + sql.stmt
      /\ sql.auto \in BOOLEAN
  BY <1>1, StepIs DEF InStep
<1>3. /\ sql.stmt = 1 /\ sql' = [sql EXCEPT !.stmt = 0]
      /\ marks' = Front(marks) /\ committed' = committed /\ bt' = c
  BY DEF EndStmt
<1>4. bt.write = TRUE /\ Len(bt.stack) = Len(marks) /\ (sql.auto = TRUE => sql = Idle)
  BY <1>1, <1>3 DEF InStep
<1>5. /\ i = Len(marks) /\ i \in 1..Len(marks) /\ i - 1 = Len(marks) - 1 /\ i - 1 = sql.depth
      /\ i <= Len(bt.stack)
  BY <1>2, <1>3, <1>4
<1>6. i = 1 => Len(bt.stack) <= 1
  BY <1>2, <1>4, <1>5
<1>7. sql' \in SqlType /\ sql'.auto = FALSE /\ sql'.depth = sql.depth /\ sql'.stmt = 0 /\ sql.auto = FALSE
  <2>1. sql.auto = FALSE
    BY <1>2, <1>3, <1>4 DEF Idle
  <2> QED BY <1>2, <1>3, <2>1 DEF SqlType
<1>8. marks' = to
  BY <1>3, <1>5 DEF Front
<1> HIDE DEF i
<1>9. /\ BtOK(c) /\ c.write = bt.write /\ Contents(c) = Contents(bt)
      /\ to \in Seq(Table) /\ Len(to) = i - 1 /\ Len(c.stack) <= i - 1
      /\ i <= Len(bt.stack) => Len(c.stack) = i - 1
      /\ bt.stack = <<>> => c = bt
      /\ Remembers(bt, marks) => Remembers(c, to)
  BY <1>2, <1>5, <1>6, ReleaseIs
<1> HIDE DEF c, to
<1>10. InStep(bt', sql', marks')
  <2>1. Len(marks') = sql'.depth + sql'.stmt /\ Len(c.stack) <= Len(marks') /\ sql'.stmt # 1
    BY <1>2, <1>5, <1>7, <1>8, <1>9
  <2> QED BY <1>3, <1>4, <1>7, <1>8, <1>9, <2>1 DEF InStep
<1>11. ASSUME Recalls(bt, marks, committed)
       PROVE  Recalls(bt', marks', committed') /\ Sql!Release(Len(marks))
  <2>1. Recalls(bt', marks', committed')
    BY <1>3, <1>4, <1>8, <1>9, <1>11 DEF Recalls
  <2>2. Sql!Release(Len(marks))
    BY <1>3, <1>5, <1>7, <1>8, <1>9 DEF Sql!Release, to
  <2> QED BY <2>1, <2>2
<1> QED BY <1>1, <1>3, <1>5, <1>10, <1>11

\* a statement that fails half way
LEMMA FailStmtStep ==
  ASSUME Inv, FailStmt
  PROVE  /\ InStep(bt', sql', marks') /\ committed' \in Table
         /\ Recalls(bt, marks, committed) =>
              Recalls(bt', marks', committed') /\ Sql!Undo
<1> DEFINE i == sql.depth + 1
           c == RolledBack(bt, i)
           to == SubSeq(marks, 1, i - 1)
<1>1. InStep(bt, sql, marks) /\ committed \in Table
  BY DEF Inv
<1>2. /\ BtOK(bt) /\ bt.write \in BOOLEAN /\ Len(bt.stack) <= Len(marks) /\ Len(bt.stack) \in Nat
      /\ sql \in SqlType /\ sql.depth \in 0..MaxDepth /\ sql.depth \in Nat /\ sql.stmt \in {0, 1}
      /\ marks \in Seq(Table) /\ Len(marks) \in Nat /\ Len(marks) = sql.depth + sql.stmt
      /\ sql.auto \in BOOLEAN
  BY <1>1, StepIs DEF InStep
<1>3. /\ sql.stmt = 1 /\ sql' = [sql EXCEPT !.stmt = 0]
      /\ marks' = Front(marks) /\ committed' = committed
      /\ bt' = Released(Reverted(bt, i), i)
  BY DEF FailStmt
<1>4. bt.write = TRUE /\ Len(bt.stack) = Len(marks) /\ (sql.auto = TRUE => sql = Idle)
  BY <1>1, <1>3 DEF InStep
<1>5. /\ i = Len(marks) /\ i \in 1..Len(marks) /\ i - 1 = Len(marks) - 1 /\ i - 1 = sql.depth
      /\ i \in 1..Len(bt.stack) /\ i <= Len(bt.stack) /\ i <= Len(marks)
  BY <1>2, <1>3, <1>4
<1>6. sql' \in SqlType /\ sql'.auto = FALSE /\ sql'.depth = sql.depth /\ sql'.stmt = 0 /\ sql.auto = FALSE
  <2>1. sql.auto = FALSE
    BY <1>2, <1>3, <1>4 DEF Idle
  <2> QED BY <1>2, <1>3, <2>1 DEF SqlType
<1>7. marks' = to
  BY <1>3, <1>5 DEF Front
<1> HIDE DEF i
<1>8. Prefix(to, marks) /\ Len(to) = i - 1 /\ to \in Seq(Table) /\ Len(to) \in i - 1..i
  <2>1. i - 1 \in 0..Len(marks) /\ i \in Nat
    BY <1>2, <1>5
  <2>2. Prefix(to, marks) /\ Len(to) = i - 1
    BY <1>2, <2>1, PrefixIs
  <2>3. i - 1 \in i - 1..i
    BY <2>1
  <2> QED BY <2>2, <2>3 DEF Prefix
<1>9. BtOK(c) /\ Len(c.stack) = i - 1 /\ c.write = bt.write
  BY <1>2, <1>5, RolledBackOK
<1>10. bt' = c
  <2>1. Reverted(bt, i) = c
    BY <1>4, <1>5 DEF Reverted
  <2> HIDE DEF c
  <2>2. i > Len(c.stack)
    BY <1>2, <1>5, <1>9
  <2> QED BY <1>3, <2>1, <2>2 DEF Released
<1>11. Remembers(bt, marks) => Remembers(c, to) /\ Contents(c) = marks[i]
  BY <1>2, <1>5, <1>8, RolledBackRemembers
<1> HIDE DEF c, to
<1>12. InStep(bt', sql', marks')
  <2>1. Len(marks') = sql'.depth + sql'.stmt /\ Len(c.stack) <= Len(marks') /\ sql'.stmt # 1
    BY <1>2, <1>5, <1>6, <1>7, <1>8, <1>9
  <2> QED BY <1>4, <1>6, <1>7, <1>8, <1>9, <1>10, <2>1 DEF InStep
<1>13. ASSUME Recalls(bt, marks, committed) PROVE Recalls(bt', marks', committed') /\ Sql!Undo
  <2>1. Recalls(bt', marks', committed')
    BY <1>4, <1>7, <1>9, <1>10, <1>11, <1>13 DEF Recalls
  <2>2. Sql!Undo
    <3>1. marks # <<>> /\ Contents(bt') = marks[Len(marks)]
      BY <1>2, <1>5, <1>10, <1>11, <1>13 DEF Recalls
    <3>2. marks' = SubSeq(marks, 1, Len(marks) - 1)
      BY <1>5, <1>7 DEF to
    <3> QED BY <1>3, <1>6, <3>1, <3>2 DEF Sql!Undo
  <2> QED BY <2>1, <2>2
<1> QED BY <1>1, <1>3, <1>12, <1>13

\* prollyBtreeSavepoint(SAVEPOINT_ROLLBACK)
LEMMA RollbackToStep ==
  ASSUME Inv, NEW i \in 1..sql.depth, RollbackTo(i)
  PROVE  /\ InStep(bt', sql', marks') /\ committed' \in Table
         /\ Recalls(bt, marks, committed) /\ ~May(LateRollback) =>
              Recalls(bt', marks', committed') /\ Sql!RollbackTo(i)
<1> DEFINE to == SubSeq(marks, 1, i)
<1>1. InStep(bt, sql, marks) /\ committed \in Table
  BY DEF Inv
<1>2. /\ BtOK(bt) /\ bt \in BtType /\ bt.write \in BOOLEAN /\ Len(bt.stack) <= Len(marks) /\ Len(bt.stack) \in Nat
      /\ sql \in SqlType /\ sql.depth \in 0..MaxDepth /\ sql.depth \in Nat /\ sql.stmt \in {0, 1}
      /\ marks \in Seq(Table) /\ Len(marks) \in Nat /\ Len(marks) = sql.depth + sql.stmt
      /\ bt.write = FALSE => bt.stack = <<>>
  BY <1>1, StepIs DEF InStep
<1>3. /\ sql.auto = FALSE /\ sql.stmt = 0 /\ sql' = [sql EXCEPT !.depth = i]
      /\ marks' = to /\ committed' = committed /\ bt' = Reverted(bt, i)
  BY <1>1, StepIs DEF RollbackTo, Free
<1>4. i \in 1..Len(marks) /\ i \in 0..MaxDepth /\ i \in Nat /\ i <= Len(marks) /\ i \in 0..Len(marks)
  BY <1>2, <1>3, ClientAssumption
<1>5. sql' \in SqlType /\ sql'.auto = FALSE /\ sql'.depth = i /\ sql'.stmt = 0
  BY <1>2, <1>3, <1>4 DEF SqlType
<1>6. Prefix(to, marks) /\ Len(to) = i /\ to \in Seq(Table) /\ Len(to) \in i - 1..i
  <2>1. Prefix(to, marks) /\ Len(to) = i
    BY <1>2, <1>4, PrefixIs
  <2>2. i \in i - 1..i
    BY <1>4
  <2> QED BY <2>1, <2>2 DEF Prefix
<1> HIDE DEF to
<1>7. BtOK(bt') /\ Len(bt'.stack) <= i /\ bt'.write = bt.write /\ (bt.write = FALSE => bt' = bt)
  <2>1. CASE bt.write = FALSE
    <3>1. bt' = bt
      BY <1>3, <2>1 DEF Reverted
    <3> QED BY <1>2, <1>4, <2>1, <3>1
  <2>2. CASE bt.write = TRUE /\ i <= Len(bt.stack)
    <3>1. bt' = RolledBack(bt, i) /\ i \in 1..Len(bt.stack)
      BY <1>2, <1>3, <1>4, <2>2 DEF Reverted
    <3>2. BtOK(bt') /\ Len(bt'.stack) = i - 1 /\ bt'.write = bt.write
      BY <1>2, <3>1, RolledBackOK
    <3> QED BY <1>4, <2>2, <3>2
  <2>3. CASE bt.write = TRUE /\ ~(i <= Len(bt.stack))
    <3>1. bt' = Restored(bt)
      BY <1>3, <2>3 DEF Reverted
    <3>2. bt' \in BtType /\ bt'.pending = NoMap /\ bt'.stack = bt.stack /\ bt'.write = bt.write
      BY <1>1, <1>2, <3>1, NoMapIs DEF Restored, BtType, MapOK
    <3>3. BtOK(bt')
      BY <1>2, <3>2, AnewOK
    <3> QED BY <1>2, <1>4, <2>3, <3>2, <3>3
  <2> QED BY <1>2, <2>1, <2>2, <2>3
<1>8. InStep(bt', sql', marks')
  BY <1>2, <1>3, <1>5, <1>6, <1>7 DEF InStep
<1>9. ASSUME Recalls(bt, marks, committed), ~May(LateRollback)
      PROVE  Recalls(bt', marks', committed') /\ Sql!RollbackTo(i)
  <2>1. Remembers(bt', to) /\ Contents(bt') = marks[i]
    <3>1. CASE bt.write = FALSE
      <4>1. Len(bt.stack) = 0 /\ i \in Len(bt.stack) + 1..Len(marks)
        BY <1>2, <1>4, <3>1
      <4>2. Contents(bt) = marks[i]
        BY <1>9, <4>1 DEF Recalls, Remembers
      <4>3. Remembers(bt, to)
        <5>1. Len(bt.stack) <= Len(to)
          BY <1>4, <1>6, <4>1
        <5> QED BY <1>2, <1>6, <1>9, <5>1, PrefixRemembered DEF Recalls
      <4> QED BY <1>7, <3>1, <4>2, <4>3
    <3>2. CASE bt.write = TRUE
      <4>1. i <= Len(bt.stack)
        BY <1>9, <3>2 DEF RollbackTo
      <4>2. bt' = RolledBack(bt, i) /\ i \in 1..Len(bt.stack)
        BY <1>2, <1>3, <1>4, <3>2, <4>1 DEF Reverted
      <4> QED BY <1>2, <1>4, <1>6, <1>9, <4>2, RolledBackRemembers DEF Recalls
    <3> QED BY <1>2, <3>1, <3>2
  <2>2. Recalls(bt', marks', committed')
    BY <1>3, <1>7, <1>9, <2>1 DEF Recalls
  <2>3. Sql!RollbackTo(i)
    BY <1>3, <1>5, <2>1 DEF Sql!RollbackTo, to
  <2> QED BY <2>2, <2>3
<1> QED BY <1>1, <1>3, <1>8, <1>9

\* rollbackAllSavepoints
LEMMA RollbackAllStep ==
  ASSUME Inv, RollbackAll
  PROVE  /\ InStep(bt', sql', marks') /\ committed' \in Table
         /\ Recalls(bt, marks, committed) =>
              Recalls(bt', marks', committed') /\ Sql!RollbackAll
<1>1. InStep(bt, sql, marks) /\ committed \in Table
  BY DEF Inv
<1>2. /\ BtOK(bt) /\ bt \in BtType /\ bt.write \in BOOLEAN
  BY <1>1, StepIs DEF InStep
<1>8. bt.write = FALSE => bt.stack = <<>>
  BY <1>1 DEF InStep
<1>3. /\ sql.auto = FALSE /\ sql.stmt = 0 /\ sql' = [sql EXCEPT !.depth = 0]
      /\ marks' = <<>> /\ committed' = committed
      /\ bt' = IF bt.write THEN [Restored(bt) EXCEPT !.stack = <<>>] ELSE bt
  BY <1>1, StepIs DEF RollbackAll, Free
<1>4. sql' \in SqlType /\ sql'.auto = FALSE /\ sql'.depth + sql'.stmt = 0 /\ sql'.stmt = 0
  <2>1. sql \in SqlType /\ 0 \in 0..MaxDepth
    BY <1>1, ClientAssumption DEF InStep
  <2>2. sql' \in SqlType /\ sql'.auto = FALSE /\ sql'.depth = 0 /\ sql'.stmt = 0
    BY <1>3, <2>1 DEF SqlType
  <2> QED BY <2>2
<1>5. /\ BtOK(bt') /\ bt'.stack = <<>> /\ bt'.write = bt.write
      /\ bt.write = TRUE => Contents(bt') = committed
      /\ bt.write = FALSE => bt' = bt
  <2>1. CASE bt.write = FALSE
    BY <1>2, <1>8, <1>3, <2>1
  <2>2. CASE bt.write = TRUE
    <3>1. bt' = [Restored(bt) EXCEPT !.stack = <<>>]
      BY <1>3, <2>2
    <3>2. /\ bt' \in BtType /\ bt'.root = committed /\ bt'.pending = NoMap /\ bt'.stack = <<>>
          /\ bt'.write = bt.write
      <4>1. NoMap \in Map /\ <<>> \in Seq(Savepoint)
        BY NoMapIs DEF MapOK
      <4> QED BY <1>1, <1>2, <3>1, <4>1 DEF Restored, BtType
    <3> QED BY <1>2, <2>2, <3>2, AnewOK
  <2> QED BY <1>2, <2>1, <2>2
<1>6. InStep(bt', sql', marks')
  <2>1. Len(bt'.stack) = 0 /\ Len(marks') = 0 /\ marks' \in Seq(Table)
    BY <1>3, <1>5
  <2> QED BY <1>4, <1>5, <2>1 DEF InStep
<1>7. ASSUME Recalls(bt, marks, committed) PROVE Recalls(bt', marks', committed') /\ Sql!RollbackAll
  <2>1. Contents(bt') = committed
    BY <1>2, <1>5, <1>7 DEF Recalls
  <2>2. Recalls(bt', marks', committed')
    BY <1>1, <1>3, <1>5, <2>1, IdleStep
  <2>3. Sql!RollbackAll
    BY <1>3, <1>4, <2>1 DEF Sql!RollbackAll
  <2> QED BY <2>2, <2>3
<1> QED BY <1>1, <1>3, <1>6, <1>7

\* COMMIT, with no savepoint set
LEMMA CommitStep ==
  ASSUME Inv, Commit, ~May(OpenCommit)
  PROVE  /\ InStep(bt', sql', marks') /\ committed' \in Table
         /\ Recalls(bt, marks, committed) =>
              Recalls(bt', marks', committed') /\ Sql!Commit
<1> DEFINE c == [FlushedForCommit(bt) EXCEPT !.stack = <<>>, !.write = FALSE]
<1>1. InStep(bt, sql, marks) /\ committed \in Table
  BY DEF Inv
<1>2. /\ BtOK(bt) /\ bt.write \in BOOLEAN /\ Contents(bt) \in Table
      /\ Len(bt.stack) \in Nat /\ Len(bt.stack) <= sql.depth + sql.stmt
      /\ bt.stack \in Seq(Savepoint)
  BY <1>1, StepIs, BtIs DEF InStep, BtOK
<1>3. /\ sql.auto = FALSE /\ sql.stmt = 0 /\ sql.depth = 0 /\ sql' = Idle /\ marks' = <<>>
      /\ bt' = IF bt.write THEN c ELSE bt
      /\ committed' = IF bt.write THEN Contents(bt) ELSE committed
  BY <1>1, StepIs DEF Commit, Free
<1>4. bt.stack = <<>>
  <2>1. Len(bt.stack) = 0
    BY <1>2, <1>3
  <2> QED BY <1>2, <2>1
<1>5. BtOK(c) /\ Contents(c) = Contents(bt) /\ c.stack = <<>> /\ c.write = FALSE
  BY <1>2, <1>4, CommittedOK
<1> HIDE DEF c
<1>6. BtOK(bt') /\ bt'.stack = <<>> /\ bt'.write = FALSE /\ Contents(bt') = Contents(bt)
  BY <1>2, <1>3, <1>4, <1>5
<1>7. InStep(bt', sql', marks') /\ committed' \in Table
  BY <1>1, <1>2, <1>3, <1>6, IdleStep
<1>8. ASSUME Recalls(bt, marks, committed) PROVE Recalls(bt', marks', committed') /\ Sql!Commit
  <2>1. committed' = Contents(bt)
    BY <1>2, <1>3, <1>8 DEF Recalls
  <2>2. Recalls(bt', marks', committed')
    BY <1>3, <1>6, <1>7, <2>1, IdleStep
  <2>3. Sql!Commit
    BY <1>3, <1>6, <2>1 DEF Sql!Commit, Idle
  <2> QED BY <2>2, <2>3
<1> QED BY <1>7, <1>8

\* ROLLBACK
LEMMA RollbackStep ==
  ASSUME Inv, Rollback
  PROVE  /\ InStep(bt', sql', marks') /\ committed' \in Table
         /\ Recalls(bt, marks, committed) =>
              Recalls(bt', marks', committed') /\ Sql!Rollback
<1>1. InStep(bt, sql, marks) /\ committed \in Table
  BY DEF Inv
<1>2. BtOK(bt) /\ bt \in BtType /\ bt.write \in BOOLEAN
  BY <1>1, StepIs
<1>7. bt.write = FALSE => bt.stack = <<>>
  BY <1>1 DEF InStep
<1>3. /\ sql.auto = FALSE /\ sql' = Idle /\ marks' = <<>> /\ committed' = committed
      /\ bt' = IF bt.write THEN [Restored(bt) EXCEPT !.stack = <<>>, !.write = FALSE] ELSE bt
  BY <1>1, StepIs DEF Rollback
<1>4. /\ BtOK(bt') /\ bt'.stack = <<>> /\ bt'.write = FALSE
      /\ bt.write = TRUE => Contents(bt') = committed
      /\ bt.write = FALSE => bt' = bt
  <2>1. CASE bt.write = FALSE
    BY <1>2, <1>7, <1>3, <2>1
  <2>2. CASE bt.write = TRUE
    <3>1. bt' = [Restored(bt) EXCEPT !.stack = <<>>, !.write = FALSE]
      BY <1>3, <2>2
    <3>2. /\ bt' \in BtType /\ bt'.root = committed /\ bt'.pending = NoMap /\ bt'.stack = <<>>
          /\ bt'.write = FALSE
      <4>1. NoMap \in Map /\ <<>> \in Seq(Savepoint)
        BY NoMapIs DEF MapOK
      <4> QED BY <1>1, <1>2, <3>1, <4>1 DEF Restored, BtType
    <3> QED BY <1>2, <2>2, <3>2, AnewOK
  <2> QED BY <1>2, <2>1, <2>2
<1>5. InStep(bt', sql', marks')
  BY <1>3, <1>4, IdleStep
<1>6. ASSUME Recalls(bt, marks, committed) PROVE Recalls(bt', marks', committed') /\ Sql!Rollback
  <2>1. Contents(bt') = committed
    BY <1>2, <1>4, <1>6 DEF Recalls
  <2>2. Recalls(bt', marks', committed')
    BY <1>1, <1>3, <1>4, <2>1, IdleStep
  <2>3. Sql!Rollback
    BY <1>3, <2>1 DEF Sql!Rollback, Idle
  <2> QED BY <2>2, <2>3
<1> QED BY <1>1, <1>3, <1>5, <1>6

-----------------------------------------------------------------------------

LEMMA StatementStep ==
  ASSUME Inv, Statement, ~May(OuterRelease), ~May(OpenCommit)
  PROVE  /\ InStep(bt', sql', marks') /\ committed' \in Table
         /\ Recalls(bt, marks, committed) /\ ~May(LateClear) /\ ~May(LateRollback) =>
              Recalls(bt', marks', committed') /\ [Sql!Next]_Sql!vars
<1> DEFINE Goal == /\ InStep(bt', sql', marks') /\ committed' \in Table
                   /\ Recalls(bt, marks, committed) /\ ~May(LateClear) /\ ~May(LateRollback) =>
                        Recalls(bt', marks', committed') /\ [Sql!Next]_Sql!vars
<1> SUFFICES Goal
  OBVIOUS
<1>0. /\ \A v \in Vals : v \in Row
      /\ NoRow \in Row /\ Row = Vals \cup {NoRow}
      /\ \A i \in 1..sql.depth : i \in 1..Len(marks)
  <2>1. Len(marks) = sql.depth + sql.stmt /\ sql.depth \in Nat /\ sql.stmt \in {0, 1}
    BY StepIs DEF Inv
  <2> QED BY <2>1 DEF Row
<1>1. ASSUME NEW txn \in BOOLEAN, Begin(txn) PROVE Goal
  BY <1>1, BeginStep DEF Sql!Next
<1>2. ASSUME NEW k \in Keys, NEW v \in Vals, Insert(k, v) PROVE Goal
  <2>1. sql.auto = FALSE /\ bt' = Written(bt, k, v) /\ UNCHANGED <<sql, committed, marks>>
    BY <1>2, StepIs DEF Insert, Inv
  <2>2. v \in Vals \cup {NoRow} /\ v \in Row
    BY <1>0
  <2> QED BY <2>1, <2>2, WriteStep DEF Sql!Next
<1>3. ASSUME NEW k \in Keys, Delete(k) PROVE Goal
  <2>1. sql.auto = FALSE /\ bt' = Written(bt, k, NoRow) /\ UNCHANGED <<sql, committed, marks>>
    BY <1>3, StepIs DEF Delete, Inv
  <2>2. NoRow \in Vals \cup {NoRow}
    OBVIOUS
  <2> QED BY <1>0, <2>1, <2>2, WriteStep DEF Sql!Next
<1>4. ASSUME NEW i \in 1..sql.depth, RollbackTo(i) PROVE Goal
  BY <1>0, <1>4, RollbackToStep DEF Sql!Next
<1>5. ASSUME NEW i \in 1..sql.depth, Release(i) PROVE Goal
  BY <1>0, <1>5, ReleaseStep DEF Sql!Next
<1>6. CASE SetSavepoint
  BY <1>6, SetSavepointStep DEF Sql!Next
<1>7. CASE DeleteAll
  BY <1>7, DeleteAllStep DEF Sql!Next
<1>8. CASE Count
  BY <1>8, CountStep
<1>9. CASE BeginStmt
  BY <1>9, BeginStmtStep DEF Sql!Next
<1>10. CASE EndStmt
  BY <1>10, EndStmtStep DEF Sql!Next
<1>11. CASE FailStmt
  BY <1>11, FailStmtStep DEF Sql!Next
<1>12. CASE RollbackAll
  BY <1>12, RollbackAllStep DEF Sql!Next
<1>13. CASE Commit
  BY <1>13, CommitStep DEF Sql!Next
<1>14. CASE Rollback
  BY <1>14, RollbackStep DEF Sql!Next
<1> HIDE DEF Goal
<1> QED
  <2>1. (\E txn \in BOOLEAN : Begin(txn)) => Goal
    BY <1>1
  <2>2. (\E k \in Keys, v \in Vals : Insert(k, v)) => Goal
    BY <1>2
  <2>3. (\E k \in Keys : Delete(k)) => Goal
    BY <1>3
  <2>4. (\E i \in 1..sql.depth : RollbackTo(i) \/ Release(i)) => Goal
    BY <1>4, <1>5
  <2> QED BY <1>6, <1>7, <1>8, <1>9, <1>10, <1>11, <1>12, <1>13, <1>14, <2>1, <2>2, <2>3, <2>4
          DEF Statement

LEMMA InvStep ==
  ASSUME Inv, [Next]_vars, ~May(OuterRelease), ~May(OpenCommit)
  PROVE  Inv'
<1>1. CASE Next
  <2>1. InStep(bt', sql', marks') /\ committed' \in Table
    BY <1>1, StatementStep DEF Next
  <2>2. steps' \in 0..MaxSteps
    BY <1>1, ClientAssumption DEF Next, Inv
  <2> QED BY <2>1, <2>2 DEF Inv
<1>2. CASE UNCHANGED vars
  <2>1. bt' = bt /\ sql' = sql /\ committed' = committed /\ marks' = marks /\ steps' = steps
    BY <1>2 DEF vars
  <2> QED BY <2>1 DEF Inv
<1> QED BY <1>1, <1>2

\* The edits and undo records of a buffer name levels that are open, and no undo
\* record has lost its entry, however savepoints are set, rolled back and
\* released over whatever the buffer holds (born and level in prolly_mutmap.c,
\* aMap in prollyMutMapRollbackToSavepoint)
THEOREM TypeCorrect == {OuterRelease, OpenCommit} \cap Habits = {} => (Spec => []TypeOK)
<1> SUFFICES ASSUME {OuterRelease, OpenCommit} \cap Habits = {} PROVE Spec => []TypeOK
  OBVIOUS
<1>1. ~May(OuterRelease) /\ ~May(OpenCommit)
  BY DEF May
<1>2. Init => Inv
  BY InitStep
<1>3. Inv /\ [Next]_vars => Inv'
  BY <1>1, InvStep
<1>4. Inv => TypeOK
  BY InvType
<1> QED BY <1>2, <1>3, <1>4, PTL DEF Spec

\* What holds of a client without the habits
LEMMA RecallsStep ==
  ASSUME Habits = {}, Inv, Recalls(bt, marks, committed), [Next]_vars
  PROVE  Inv' /\ Recalls(bt, marks, committed)' /\ [Sql!Next]_Sql!vars
<1>1. ~May(OuterRelease) /\ ~May(OpenCommit) /\ ~May(LateClear) /\ ~May(LateRollback)
  BY DEF May
<1>2. Inv'
  BY <1>1, InvStep
<1>3. CASE Next
  <2>1. Recalls(bt', marks', committed') /\ [Sql!Next]_Sql!vars
    BY <1>1, <1>3, StatementStep DEF Next
  <2>2. Recalls(bt, marks, committed)'
    BY <2>1
  <2> QED BY <1>2, <2>1, <2>2
<1>4. CASE UNCHANGED vars
  <2>1. bt' = bt /\ sql' = sql /\ committed' = committed /\ marks' = marks
    BY <1>4 DEF vars
  <2>2. Recalls(bt', marks', committed')
    BY <2>1
  <2>3. Recalls(bt, marks, committed)'
    BY <2>2
  <2>4. UNCHANGED Sql!vars
    BY <2>1 DEF Sql!vars
  <2> QED BY <1>2, <2>3, <2>4
<1> QED BY <1>3, <1>4

\* The table that a rollback to a savepoint would bring back is the one there was
\* when the savepoint was set, whatever has been written, flushed, released and
\* rolled back since (rollbackNamedSavepoint)
THEOREM RollbackIsExact == Habits = {} => (Spec => []RollbackRestores)
<1> SUFFICES ASSUME Habits = {} PROVE Spec => []RollbackRestores
  OBVIOUS
<1> DEFINE I == Inv /\ Recalls(bt, marks, committed)
<1>1. Init => I
  BY InitStep
<1>2. I /\ [Next]_vars => I'
  BY RecallsStep
<1>3. I => RollbackRestores
  <2> SUFFICES ASSUME I, NEW i \in 1..Len(bt.stack) PROVE Contents(RolledBack(bt, i)) = marks[i]
    BY DEF RollbackRestores
  <2>1. BtOK(bt) /\ Remembers(bt, marks)
    BY DEF Inv, InStep, Recalls
  <2> QED BY <2>1, RolledBackOK DEF Remembers
<1> HIDE DEF I
<1> QED BY <1>1, <1>2, <1>3, PTL DEF Spec

LEMMA StatementsAsNamed ==
  ASSUME Habits = {}, Inv, Recalls(bt, marks, committed)
  PROVE  AsSql
<1>0. /\ ~May(OuterRelease) /\ ~May(OpenCommit) /\ ~May(LateClear) /\ ~May(LateRollback)
      /\ NoRow \in Row /\ \A v \in Vals : v \in Row
  BY DEF May, Row
<1>1. ASSUME NEW k \in Keys, NEW v \in Vals, Insert(k, v) PROVE Sql!Write(k, v)
  <2>1. sql.auto = FALSE /\ bt' = Written(bt, k, v) /\ UNCHANGED <<sql, committed, marks>>
    BY <1>1, StepIs DEF Insert, Inv
  <2> QED BY <1>0, <2>1, WriteStep
<1>2. ASSUME NEW k \in Keys, Delete(k) PROVE Sql!Write(k, NoRow)
  <2>1. sql.auto = FALSE /\ bt' = Written(bt, k, NoRow) /\ UNCHANGED <<sql, committed, marks>>
    BY <1>2, StepIs DEF Delete, Inv
  <2> QED BY <1>0, <2>1, WriteStep
<1>3. ASSUME NEW i \in 1..sql.depth, RollbackTo(i) PROVE Sql!RollbackTo(i)
  BY <1>0, <1>3, RollbackToStep
<1>4. ASSUME NEW i \in 1..sql.depth, Release(i) PROVE Sql!Release(i)
  BY <1>0, <1>4, ReleaseStep
<1>5. DeleteAll => Sql!DeleteAll
  BY <1>0, DeleteAllStep
<1>6. FailStmt => Sql!Undo
  BY FailStmtStep
<1>7. EndStmt => Sql!Release(Len(marks))
  BY EndStmtStep
<1>8. RollbackAll => Sql!RollbackAll
  BY RollbackAllStep
<1>9. Commit => Sql!Commit
  BY <1>0, CommitStep
<1>10. Rollback => Sql!Rollback
  BY RollbackStep
<1> QED BY <1>1, <1>2, <1>3, <1>4, <1>5, <1>6, <1>7, <1>8, <1>9, <1>10 DEF AsSql

\* To a client without the habits the Btree is SQL's transaction: each statement
\* does to the table, to the savepoints and to what is committed what the one of
\* its name does there, and nothing else changes them (sqlite3BtreeSavepoint,
\* sqlite3BtreeClearTable)
THEOREM ImplementsTransactions == Habits = {} => (Spec => ImplementsSql)
<1> SUFFICES ASSUME Habits = {} PROVE Spec => ImplementsSql
  OBVIOUS
<1> DEFINE I == Inv /\ Recalls(bt, marks, committed)
<1>1. Init => I /\ Sql!Init
  <2> SUFFICES ASSUME Init PROVE I /\ Sql!Init
    OBVIOUS
  <2>1. I
    BY InitStep
  <2>2. committed = NoRows /\ marks = <<>> /\ bt.write = FALSE /\ sql.auto = TRUE
    BY DEF Init, Idle
  <2>3. Contents(bt) = committed
    BY <2>1, <2>2 DEF Recalls
  <2> QED BY <2>1, <2>2, <2>3 DEF Sql!Init, Sql!NoRows, NoRows
<1>2. I /\ [Next]_vars => I' /\ [Sql!Next]_Sql!vars
  BY RecallsStep
<1>3. I /\ [Next]_vars => [AsSql]_vars
  BY StatementsAsNamed
<1> HIDE DEF I
<1> QED BY <1>1, <1>2, <1>3, PTL DEF Spec, ImplementsSql, Sql!Spec

-----------------------------------------------------------------------------
(* The iterators on a prepared statement (StatementIter), for any          *)
(* iterators, rows and executions.  They share no variable with the Btree. *)

\* An iterator that is not open has returned nothing; two have never the same
\* generation.
Unopened == \A i \in Iters : ~iter[i].opened => got[i] = <<>>
Apart == \A i, j \in Iters : iter[i].opened /\ iter[j].opened
                             /\ iter[i].generation = iter[j].generation => i = j

\* The iterator that may step has returned the rows the cursor has passed.
Passed == \A i \in Iters : Open(i) /\ Current(i) => Len(got[i]) = stmt.row

IterInv == IterTypeOK /\ Unopened /\ Apart /\ Passed /\ RowsInOrder /\ NoOrphanCursor

LEMMA Started == IterInit => IterInv
BY RunsAssumption
   DEF IterInit, IterInv, IterTypeOK, Unopened, Apart, Passed, RowsInOrder, NoOrphanCursor, Reset,
       NotYet, Open

\* Counting the generation up leaves no iterator current.
LEMMA RunKept == ASSUME IterInv, Run PROVE IterInv'
<1>1. IterTypeOK'
  BY RunsAssumption DEF IterInv, IterTypeOK, Run, Reset, NextGeneration
<1>2. \A i \in Iters : ~Current(i)'
  BY RunsAssumption DEF IterInv, IterTypeOK, Run, NextGeneration, Current
<1>3. UNCHANGED <<iter, got>> /\ ~stmt'.active
  BY DEF Run, Reset
<1>4. Unopened' /\ Apart' /\ RowsInOrder'
  BY <1>3 DEF IterInv, Unopened, Apart, RowsInOrder
<1> QED
  BY <1>1, <1>2, <1>3, <1>4 DEF IterInv, Passed, NoOrphanCursor

LEMMA IterateKept == ASSUME IterInv, NEW i \in Iters, Iterate(i) PROVE IterInv'
<1>1. IterTypeOK'
  BY RunsAssumption DEF IterInv, IterTypeOK, Iterate, Reset
<1>2. \A j \in Iters : iter'[j] = IF j = i THEN [opened |-> TRUE, generation |-> generation + 1,
                                                done |-> FALSE]
                                          ELSE iter[j]
  BY DEF IterInv, IterTypeOK, Iterate
<1>3. got' = got /\ got[i] = <<>> /\ stmt' = Reset /\ generation' = generation + 1
  BY DEF IterInv, Unopened, Iterate
<1>4. \A j \in Iters \ {i} : iter[j].generation <= generation /\ iter[j].generation \in Nat
                             /\ generation \in Nat
  BY RunsAssumption DEF IterInv, IterTypeOK
<1>5. Unopened' /\ Apart' /\ RowsInOrder'
  BY <1>2, <1>3, <1>4 DEF IterInv, Unopened, Apart, RowsInOrder
<1>6. Passed'
  BY <1>2, <1>3, <1>4 DEF Passed, Current, Reset
<1>7. NoOrphanCursor'
  BY <1>3 DEF NoOrphanCursor, Reset
<1> QED
  BY <1>1, <1>5, <1>6, <1>7 DEF IterInv

\* Only the current iterator's rows grow, by the row the cursor comes to.
LEMMA NextRowKept == ASSUME IterInv, NEW i \in Iters, NextRow(i) PROVE IterInv'
<1>1. /\ stmt.row \in 0..Results /\ Results \in Nat /\ stmt.row < Results
      /\ got[i] \in Seq(1..Results) /\ Len(got[i]) = stmt.row
      /\ got[i] = [k \in 1..Len(got[i]) |-> k]
  BY RunsAssumption DEF IterInv, IterTypeOK, Passed, NextRow, HasRow, RowsInOrder
<1>2. /\ stmt' = [row |-> stmt.row + 1, active |-> TRUE]
      /\ got' = [got EXCEPT ![i] = Append(got[i], stmt.row + 1)]
      /\ UNCHANGED <<generation, iter>>
  BY DEF NextRow, Step
<1>3. /\ got'[i] = Append(got[i], stmt.row + 1)
      /\ \A j \in Iters \ {i} : got'[j] = got[j]
  BY <1>2 DEF IterInv, IterTypeOK
<1>4. Append(got[i], stmt.row + 1) \in Seq(1..Results) /\ Len(got'[i]) = stmt.row + 1
  BY <1>1, <1>3
<1>5. IterTypeOK'
  BY <1>1, <1>2, <1>4 DEF IterInv, IterTypeOK
<1>6. \A j \in Iters : (Open(j)' <=> Open(j)) /\ (Current(j)' <=> Current(j))
  BY <1>2 DEF Open, Current
<1>7. Open(i) /\ Current(i) /\ iter[i].opened
  BY DEF NextRow, Open
<1>8. Unopened' /\ Apart'
  BY <1>2, <1>3, <1>7 DEF IterInv, Unopened, Apart
<1>9. \A j \in Iters : Open(j) /\ Current(j) => j = i
  BY <1>7 DEF IterInv, Apart, Open, Current
<1>10. Passed'
  BY <1>2, <1>4, <1>6, <1>9 DEF Passed
<1>11. RowsInOrder'
  <2>1. got'[i] = [k \in 1..Len(got'[i]) |-> k]
    <3>1. \A k \in 1..(stmt.row + 1) : Append(got[i], stmt.row + 1)[k] = k
      BY <1>1
    <3> QED BY <1>1, <1>3, <1>4, <3>1
  <2> QED BY <1>3, <2>1 DEF IterInv, RowsInOrder
<1>12. NoOrphanCursor'
  BY <1>6, <1>7 DEF NoOrphanCursor
<1> QED
  BY <1>5, <1>8, <1>10, <1>11, <1>12 DEF IterInv

\* An iterator that ends resets the cursor if it is current and was not done.
LEMMA FinishKept ==
  ASSUME IterInv, NEW i \in Iters, iter[i].opened, Finish(i), UNCHANGED <<generation, got>>,
         stmt' = IF Open(i) /\ Current(i) THEN Reset ELSE stmt
  PROVE  IterInv'
<1>1. IterTypeOK'
  <2>1. iter' \in [Iters -> [opened : BOOLEAN, generation : 0..MaxRuns, done : BOOLEAN]]
    BY DEF IterInv, IterTypeOK, Finish
  <2>2. \A j \in Iters : iter'[j].generation = iter[j].generation
    BY DEF IterInv, IterTypeOK, Finish
  <2>3. stmt' \in [row : 0..Results, active : BOOLEAN]
    BY RunsAssumption DEF IterInv, IterTypeOK, Reset
  <2> QED BY <2>1, <2>2, <2>3 DEF IterInv, IterTypeOK
<1>2. \A j \in Iters : /\ iter'[j].opened = iter[j].opened
                       /\ iter'[j].generation = iter[j].generation
                       /\ iter'[j].done = IF j = i THEN TRUE ELSE iter[j].done
  BY DEF IterInv, IterTypeOK, Finish
<1>3. Unopened' /\ Apart' /\ RowsInOrder'
  BY <1>2 DEF IterInv, Unopened, Apart, RowsInOrder
<1>4. ~Open(i)' /\ \A j \in Iters \ {i} : (Open(j)' <=> Open(j)) /\ (Current(j)' <=> Current(j))
  BY <1>2 DEF Open, Current
<1>5. CASE Open(i) /\ Current(i)
  <2>1. \A j \in Iters \ {i} : ~(Open(j) /\ Current(j))
    BY <1>5 DEF IterInv, Apart, Open, Current
  <2>2. Passed'
    BY <1>4, <2>1 DEF Passed
  <2>3. NoOrphanCursor'
    BY <1>5 DEF NoOrphanCursor, Reset
  <2> QED BY <1>1, <1>3, <2>2, <2>3 DEF IterInv
<1>6. CASE ~(Open(i) /\ Current(i))
  <2>1. stmt' = stmt
    BY <1>6
  <2>2. Passed'
    BY <1>4, <2>1 DEF IterInv, Passed
  <2>3. NoOrphanCursor'
    BY <1>4, <1>6, <2>1 DEF IterInv, NoOrphanCursor
  <2> QED BY <1>1, <1>3, <2>2, <2>3 DEF IterInv
<1> QED
  BY <1>5, <1>6

LEMMA IterKept == IterInv /\ [IterNext]_iterVars => IterInv'
<1> SUFFICES ASSUME IterInv, [IterNext]_iterVars PROVE IterInv'
  OBVIOUS
<1>1. CASE UNCHANGED iterVars
  BY <1>1 DEF iterVars, IterInv, IterTypeOK, Unopened, Apart, Passed, RowsInOrder, NoOrphanCursor, Open,
              Current
<1>2. ASSUME NEW i \in Iters, NextLast(i) \/ NextInvalid(i) \/ Return(i) PROVE IterInv'
  <2>1. /\ iter[i].opened /\ Finish(i) /\ UNCHANGED <<generation, got>>
        /\ stmt' = IF Open(i) /\ Current(i) THEN Reset ELSE stmt
    BY <1>2 DEF NextLast, NextInvalid, Return, Resets, Open
  <2> QED BY <2>1, FinishKept
<1> QED
  BY <1>1, <1>2, RunKept, IterateKept, NextRowKept DEF IterNext

LEMMA Reached == IterSpec => []IterInv
  BY Started, IterKept, PTL DEF IterSpec

\* In every reachable state of the binding, whatever is run on the statement,
\* executions and iterators are of their types (Statement::Iterate).
THEOREM IteratorTypes == IterSpec => []IterTypeOK
<1>1. IterInv => IterTypeOK
  BY DEF IterInv
<1> QED BY <1>1, Reached, PTL

\* An iterator has returned the first rows of one execution, each once and in
\* order, whatever else is run on its statement (next of Statement::Iterate).
THEOREM RowsOfOneRun == IterSpec => []RowsInOrder
<1>1. IterInv => RowsInOrder
  BY DEF IterInv
<1> QED BY <1>1, Reached, PTL

\* An open cursor belongs to an iterator that can still end it
\* (return of Statement::Iterate).
THEOREM CursorsAreOwned == IterSpec => []NoOrphanCursor
<1>1. IterInv => NoOrphanCursor
  BY DEF IterInv
<1> QED BY <1>1, Reached, PTL
=============================================================================
