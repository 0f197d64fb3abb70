----------------------------- MODULE MergeProofs -----------------------------
(***************************************************************************)
(* Proofs about Merge, for any tables, indexes and commits: what a merge   *)
(* makes of rows and of an index, and that users find what they were told. *)
(***************************************************************************)
EXTENDS Merge, Lemmas

Index == SUBSET ([Indexed -> Cells] \X Keys)
CommitType == [parents : SUBSET Nat, rows : Table, index : Index]
ToldType == [rows : Table, conf : Partial(Row)]
MergeType == [running : BOOLEAN, base : Nat, left : SUBSET Keys, right : SUBSET Keys,
              edits : Partial(Row), conf : Partial(Row)]

Parents == [x \in DOMAIN commits |-> commits[x].parents]

\* Every commit but the first was made of ones made before it
HistoryInv ==
  /\ commits \in Seq(CommitType) /\ Len(commits) > 0
  /\ Numbered(Parents, Len(commits))
  /\ \A c \in DOMAIN commits : c # 1 => commits[c].parents # {}
  /\ tip \in [{"main", "f"} -> DOMAIN commits]

StateInv ==
  /\ {sess, disk, committed} \subseteq WorkType
  /\ tx \in {"none", "open", "plain", "left"}
  /\ merge \in MergeType /\ merge.base \in DOMAIN commits
  /\ updates \in 0..MaxUpdates /\ spoiled \in BOOLEAN
  /\ want \in ToldType /\ saved \in [work : ToldType, tip : DOMAIN commits]

NamesInv == HistoryInv /\ StateInv

-----------------------------------------------------------------------------
\* What the streams have passed is merged one way or is in conflict, and what
\* they have not has been changed by the sides that still have it
Joined(m, b, o, t) ==
  \/ m = o /\ t \in {b, o}
  \/ m = t /\ o = b
  \/ NoRow \notin {b, o, t} /\ ~CellsClash(b, o, t) /\ m = CellMerge(b, o, t)
Disputed(b, o, t) == b # o /\ b # t /\ o # t /\ (NoRow \in {b, o, t} \/ CellsClash(b, o, t))

Passed(k) ==
  LET b == commits[merge.base].rows[k]
      o == commits[tip.main].rows[k]
      t == commits[tip.f].rows[k]
  IN IF k \in merge.left \cup merge.right
     THEN /\ k \in merge.left <=> b # o
          /\ k \in merge.right <=> b # t
          /\ k \notin DOMAIN merge.edits \cup DOMAIN merge.conf
     ELSE IF k \in DOMAIN merge.conf
     THEN k \notin DOMAIN merge.edits /\ merge.conf[k] = t /\ Disputed(b, o, t)
     ELSE Joined(MergedRows[k], b, o, t)

DiffInv == merge.running => \A k \in Keys : Passed(k)

\* Until a merge with conflicts is kept, every index is as the rows say and
\* there are no conflicts
Agrees(x) == x.index = Entries(x.rows)
IndexInv ==
  ~spoiled => /\ \A w \in {sess, disk, committed} : Agrees(w) /\ w.conf = NoConflict
              /\ \A c \in DOMAIN commits : Agrees(commits[c])

\* What a close, a crash and a rollback bring back is what was told before
Same(work, w) == work.rows = w.rows /\ work.conf = w.conf
ToldInv ==
  /\ Same(sess, want) /\ Same(disk, saved.work)
  /\ tx # "plain" => disk = sess
  /\ tx \in {"none", "open"} => committed = sess
  /\ tx # "left" /\ saved.tip = tip.main => Same(committed, saved.work)
  /\ saved.tip \in Past(tip.main)
  /\ merge.running => tip.f \notin Past(tip.main)

-----------------------------------------------------------------------------
(* Conflicts and edits are functions on some of the keys.                  *)

LEMMA PartialIs ==
  ASSUME NEW f
  PROVE  f \in Partial(Row) <=> /\ DOMAIN f \subseteq Keys /\ f = [k \in DOMAIN f |-> f[k]]
                                /\ \A k \in DOMAIN f : f[k] \in Row
<1>1. ASSUME f \in Partial(Row)
      PROVE  /\ DOMAIN f \subseteq Keys /\ f = [k \in DOMAIN f |-> f[k]]
             /\ \A k \in DOMAIN f : f[k] \in Row
  <2>1. PICK D \in SUBSET Keys : f \in [D -> Row]
    BY <1>1 DEF Partial
  <2> QED BY <2>1
<1>2. ASSUME DOMAIN f \subseteq Keys, f = [k \in DOMAIN f |-> f[k]],
             \A k \in DOMAIN f : f[k] \in Row
      PROVE  f \in Partial(Row)
  <2>1. f \in [DOMAIN f -> Row]
    BY <1>2
  <2> QED BY <1>2, <2>1 DEF Partial
<1> QED BY <1>1, <1>2

LEMMA NoConflictIs == NoConflict \in Partial(Row) /\ DOMAIN NoConflict = {}
<1>1. DOMAIN NoConflict = {} /\ NoConflict = [k \in DOMAIN NoConflict |-> NoConflict[k]]
  BY DEF NoConflict
<1> QED BY <1>1, PartialIs

LEMMA EmptyIs == ASSUME NEW f \in Partial(Row), DOMAIN f = {} PROVE f = NoConflict
  BY PartialIs DEF NoConflict

LEMMA SetIs ==
  ASSUME NEW f \in Partial(Row), NEW k \in Keys, NEW row \in Row
  PROVE  /\ Set(f, k, row) \in Partial(Row) /\ DOMAIN Set(f, k, row) = DOMAIN f \cup {k}
         /\ Set(f, k, row)[k] = row /\ \A j \in (DOMAIN f) \ {k} : Set(f, k, row)[j] = f[j]
<1> DEFINE g == Set(f, k, row)
<1>1. /\ DOMAIN g = DOMAIN f \cup {k} /\ g[k] = row /\ \A j \in (DOMAIN f) \ {k} : g[j] = f[j]
      /\ g = [j \in DOMAIN g |-> g[j]]
  BY DEF Set
<1>2. DOMAIN f \subseteq Keys /\ \A j \in DOMAIN f : f[j] \in Row
  BY PartialIs
<1> HIDE DEF g
<1>3. g \in Partial(Row)
  BY <1>1, <1>2, PartialIs
<1> QED BY <1>1, <1>3 DEF g

LEMMA DropIs ==
  ASSUME NEW f \in Partial(Row), NEW k
  PROVE  [j \in (DOMAIN f) \ {k} |-> f[j]] \in Partial(Row)
<1> DEFINE g == [j \in (DOMAIN f) \ {k} |-> f[j]]
<1>1. DOMAIN g \subseteq DOMAIN f /\ g = [j \in DOMAIN g |-> g[j]] /\ \A j \in DOMAIN g : g[j] = f[j]
  OBVIOUS
<1> HIDE DEF g
<1>2. g \in Partial(Row)
  BY <1>1, PartialIs
<1> QED BY <1>2 DEF g

-----------------------------------------------------------------------------
(* Index entries.                                                          *)

LEMMA EntryIs ==
  ASSUME NEW k \in Keys, NEW row \in Row
  PROVE  Entry(k, row) \subseteq [Indexed -> Cells] \X {k}
<1>1. CASE row # NoRow
  <2>1. row \in [Columns -> Cells] /\ Indexed \subseteq Columns
    BY <1>1, MergeAssumption DEF Row
  <2>2. [c \in Indexed |-> row[c]] \in [Indexed -> Cells]
    BY <2>1
  <2> QED BY <2>2 DEF Entry
<1>2. CASE row = NoRow
  BY <1>2 DEF Entry
<1> QED BY <1>1, <1>2

LEMMA EntriesAre ==
  ASSUME NEW rows \in Table
  PROVE  /\ Entries(rows) \in Index
         /\ \A x : x \in Entries(rows) <=> /\ x \in [Indexed -> Cells] \X Keys
                                           /\ x \in Entry(x[2], rows[x[2]])
<1>1. \A k \in Keys : rows[k] \in Row
  BY DEF Table
<1>2. \A k \in Keys : Entry(k, rows[k]) \subseteq [Indexed -> Cells] \X {k}
  BY <1>1, EntryIs
<1>3. ASSUME NEW x, x \in Entries(rows)
      PROVE  x \in [Indexed -> Cells] \X Keys /\ x \in Entry(x[2], rows[x[2]])
  <2>1. PICK k \in Keys : x \in Entry(k, rows[k])
    BY <1>3 DEF Entries
  <2>2. x \in [Indexed -> Cells] \X {k}
    BY <1>2, <2>1
  <2>3. x[2] = k
    BY <2>2
  <2> QED BY <2>1, <2>2, <2>3
<1>4. ASSUME NEW x, x \in [Indexed -> Cells] \X Keys, x \in Entry(x[2], rows[x[2]])
      PROVE  x \in Entries(rows)
  <2>1. x[2] \in Keys
    BY <1>4
  <2> QED BY <1>4, <2>1 DEF Entries
<1> QED BY <1>3, <1>4 DEF Index
\* An update replaces the entry of one row
LEMMA EntriesOfUpdate ==
  ASSUME NEW rows \in Table, NEW k \in Keys, NEW row \in Row
  PROVE  /\ [rows EXCEPT ![k] = row] \in Table
         /\ Entries([rows EXCEPT ![k] = row])
              = (Entries(rows) \ Entry(k, rows[k])) \cup Entry(k, row)
<1> DEFINE now == [rows EXCEPT ![k] = row]
           index == (Entries(rows) \ Entry(k, rows[k])) \cup Entry(k, row)
<1>1. now \in Table /\ now[k] = row /\ \A j \in Keys \ {k} : now[j] = rows[j]
  BY DEF Table
<1>2. /\ Entry(k, row) \subseteq [Indexed -> Cells] \X {k}
      /\ Entry(k, rows[k]) \subseteq [Indexed -> Cells] \X {k}
  BY EntryIs DEF Table
<1> HIDE DEF now
<1>3. \A x : x \in Entries(now) <=> x \in index
  <2> TAKE x
  <2>1. CASE x \in [Indexed -> Cells] \X Keys /\ x[2] = k
    <3>1. x \in Entries(now) <=> x \in Entry(k, row)
      BY <1>1, <2>1, EntriesAre
    <3>2. x \in Entries(rows) <=> x \in Entry(k, rows[k])
      BY <2>1, EntriesAre
    <3> QED BY <3>1, <3>2
  <2>2. CASE x \in [Indexed -> Cells] \X Keys /\ x[2] # k
    <3>1. x \notin Entry(k, row) /\ x \notin Entry(k, rows[k])
      BY <1>2, <2>2
    <3>2. now[x[2]] = rows[x[2]]
      BY <1>1, <2>2
    <3>3. x \in Entries(now) <=> x \in Entries(rows)
      BY <1>1, <2>2, <3>2, EntriesAre
    <3> QED BY <3>1, <3>3
  <2>3. CASE x \notin [Indexed -> Cells] \X Keys
    <3>1. x \notin Entry(k, row)
      BY <1>2, <2>3
    <3> QED BY <1>1, <2>3, <3>1, EntriesAre
  <2> QED BY <2>1, <2>2, <2>3
<1>4. Entries(now) = index
  BY <1>3
<1> QED BY <1>1, <1>4 DEF now

-----------------------------------------------------------------------------
(* Merges of a row.                                                        *)

\* A row that is merged from cells is a row, and is there
LEMMA CellsMerged ==
  ASSUME NEW b \in Row, NEW o \in Row, NEW t \in Row, NoRow \notin {b, o, t}
  PROVE  /\ CellMerge(b, o, t) \in Row /\ CellMerge(b, o, t) # NoRow
         /\ \A c \in Columns : CellMerge(b, o, t)[c] = IF b[c] # o[c] THEN o[c] ELSE t[c]
<1>1. {b, o, t} \subseteq [Columns -> Cells]
  BY DEF Row
<1>2. CellMerge(b, o, t) \in [Columns -> Cells]
  BY <1>1 DEF CellMerge
<1>3. NoRow \notin [Columns -> Cells]
  <2>1. 1 \in Columns /\ 1 \notin DOMAIN NoRow
    BY DEF Columns, NoRow
  <2> QED BY <2>1
<1> QED BY <1>2, <1>3 DEF Row, CellMerge

LEMMA JoinedHas ==
  ASSUME NEW b \in Row, NEW o \in Row, NEW t \in Row, NEW m, Joined(m, b, o, t)
  PROVE  Has(m, b, o, t) /\ m \in Row
<1>1. CASE m = o /\ t \in {b, o}
  BY <1>1 DEF Has
<1>2. CASE m = t /\ o = b
  BY <1>2 DEF Has
<1>3. CASE NoRow \notin {b, o, t} /\ ~CellsClash(b, o, t) /\ m = CellMerge(b, o, t)
  <2>1. /\ m \in Row /\ m # NoRow
        /\ \A c \in Columns : m[c] = IF b[c] # o[c] THEN o[c] ELSE t[c]
    BY <1>3, CellsMerged
  <2>2. \A c \in Columns : b[c] # o[c] /\ b[c] # t[c] => o[c] = t[c]
    BY <1>3 DEF CellsClash
  <2> QED BY <1>3, <2>1, <2>2 DEF Has
<1> QED BY <1>1, <1>2, <1>3 DEF Joined

LEMMA DisputedHasNone ==
  ASSUME NEW b \in Row, NEW o \in Row, NEW t \in Row, Disputed(b, o, t)
  PROVE  ~\E m \in Row : Has(m, b, o, t)
<1> SUFFICES ASSUME NEW m \in Row, Has(m, b, o, t) PROVE FALSE
  OBVIOUS
<1>1. CASE NoRow \in {m, b, o, t}
  BY <1>1 DEF Has, Disputed
<1>2. CASE NoRow \notin {m, b, o, t}
  <2>1. PICK c \in Columns : b[c] # o[c] /\ b[c] # t[c] /\ o[c] # t[c]
    BY <1>2 DEF Disputed, CellsClash
  <2> QED BY <1>2, <2>1 DEF Has
<1> QED BY <1>1, <1>2

\* The index has one column: the entry of a merged row is what merging the
\* entries makes
LEMMA JoinedEntry ==
  ASSUME NEW k \in Keys, NEW b \in Row, NEW o \in Row, NEW t \in Row, NEW m, Joined(m, b, o, t),
         NEW i \in Columns, Indexed \subseteq {i}
  PROVE  Entry(k, m) = (Entry(k, o) \cup (Entry(k, t) \ Entry(k, b)))
                         \ (Entry(k, b) \ Entry(k, t))
<1>1. CASE m = o /\ t \in {b, o}
  BY <1>1
<1>2. CASE m = t /\ o = b
  BY <1>2
<1>3. CASE NoRow \notin {b, o, t} /\ ~CellsClash(b, o, t) /\ m = CellMerge(b, o, t)
  <2>1. m # NoRow /\ m[i] = IF b[i] # o[i] THEN o[i] ELSE t[i]
    BY <1>3, CellsMerged
  <2>2. b[i] # o[i] /\ b[i] # t[i] => o[i] = t[i]
    BY <1>3 DEF CellsClash
  <2>3. ASSUME NEW r, NEW s, r # NoRow, s # NoRow, r[i] = s[i] PROVE Entry(k, r) = Entry(k, s)
    <3>1. \A c \in Indexed : c = i
      OBVIOUS
    <3>2. [c \in Indexed |-> r[c]] = [c \in Indexed |-> s[c]]
      BY <2>3, <3>1
    <3> QED BY <2>3, <3>2 DEF Entry
  <2>4. CASE b[i] = o[i]
    <3>1. Entry(k, m) = Entry(k, t) /\ Entry(k, o) = Entry(k, b)
      BY <1>3, <2>1, <2>3, <2>4
    <3> QED BY <3>1
  <2>5. CASE b[i] # o[i]
    <3>1. Entry(k, m) = Entry(k, o) /\ Entry(k, t) \in {Entry(k, o), Entry(k, b)}
      <4>1. Entry(k, m) = Entry(k, o)
        BY <1>3, <2>1, <2>3, <2>5
      <4>2. t[i] = o[i] \/ t[i] = b[i]
        BY <2>2, <2>5
      <4>3. Entry(k, t) = Entry(k, o) \/ Entry(k, t) = Entry(k, b)
        BY <1>3, <2>3, <4>2
      <4> QED BY <4>1, <4>3
    <3>2. CASE Entry(k, t) = Entry(k, o)
      BY <3>1, <3>2
    <3>3. CASE Entry(k, t) = Entry(k, b)
      BY <3>1, <3>3
    <3> QED BY <3>1, <3>2, <3>3
  <2> QED BY <2>4, <2>5
<1> QED BY <1>1, <1>2, <1>3 DEF Joined
-----------------------------------------------------------------------------
(* Histories.                                                              *)

LEMMA CommitsAre ==
  ASSUME HistoryInv
  PROVE  /\ Len(commits) \in Nat \ {0} /\ DOMAIN commits = 1..Len(commits)
         /\ \A c \in DOMAIN commits : /\ commits[c] \in CommitType
                                      /\ commits[c].parents \subseteq 1..(c - 1)
                                      /\ Parents[c] = commits[c].parents
         /\ 1 \in DOMAIN commits /\ tip.main \in DOMAIN commits /\ tip.f \in DOMAIN commits
  BY DEF HistoryInv, Numbered, Parents

\* The first commit is in every history, and what came later in none
LEMMA PastIs ==
  ASSUME HistoryInv, NEW c \in DOMAIN commits
  PROVE  /\ c \in Past(c) /\ Past(c) \subseteq 1..c /\ 1 \in Past(c)
         /\ \A d \in Past(c) : Past(d) \subseteq Past(c)
<1> DEFINE n == Len(commits)
           S == {x \in 1..n : 1 \in Histories(Parents)[x]}
<1>1. n \in Nat /\ Numbered(Parents, n) /\ DOMAIN commits = 1..n
  BY CommitsAre DEF HistoryInv
<1> HIDE DEF n
<1>2. \A x \in 1..n : x \in Histories(Parents)[x] /\ Histories(Parents)[x] \subseteq 1..x
  BY <1>1, HistoryBelow
<1>3. \A x \in 1..n : \A y \in Histories(Parents)[x] :
        Histories(Parents)[y] \subseteq Histories(Parents)[x]
  BY <1>1, HistoryClosed
<1>4. ASSUME NEW x \in 1..n, 1..(x - 1) \subseteq S PROVE x \in S
  <2>1. CASE x = 1
    BY <1>2, <2>1
  <2>2. CASE x # 1
    <3>1. Parents[x] # {} /\ Parents[x] \subseteq 1..(x - 1)
      BY <1>1, <2>2, CommitsAre DEF HistoryInv
    <3>2. PICK p \in Parents[x] : 1 \in Histories(Parents)[p]
      BY <1>4, <3>1
    <3>3. Histories(Parents)[x] = {x} \cup UNION {Histories(Parents)[q] : q \in Parents[x]}
      BY <1>1, HistoryOf
    <3> QED BY <3>2, <3>3
  <2> QED BY <2>1, <2>2
<1> HIDE DEF S
<1>5. 1..n \subseteq S
  BY <1>1, <1>4, CommitInduction
<1>6. \A d : Past(d) = Histories(Parents)[d]
  BY DEF Past, Parents
<1> QED BY <1>1, <1>2, <1>3, <1>5, <1>6 DEF S

\* A common ancestor is found
LEMMA AncestorIs ==
  ASSUME HistoryInv, NEW a \in DOMAIN commits, NEW b \in DOMAIN commits
  PROVE  Ancestor(a, b) \in Past(a) \cap Past(b) /\ Ancestor(a, b) \in DOMAIN commits
<1> DEFINE common == Past(a) \cap Past(b)
<1>1. common \subseteq 1..a /\ 1..a \subseteq DOMAIN commits /\ a \in Nat /\ 1 \in common
  BY PastIs, CommitsAre
<1>2. PICK x \in common : \A y \in common : y <= x
  BY <1>1, GreatestNumber
<1>3. \A y \in common \ {x} : x \notin Past(y)
  <2> TAKE y \in common \ {x}
  <2>1. y < x /\ y \in DOMAIN commits
    BY <1>1, <1>2
  <2>2. Past(y) \subseteq 1..y
    BY <2>1, PastIs
  <2> QED BY <1>1, <2>1, <2>2
<1>4. Ancestor(a, b) \in common
  BY <1>2, <1>3 DEF Ancestor
<1> QED BY <1>1, <1>4

\* A commit is added and the histories of the others stay
LEMMA Appended ==
  ASSUME HistoryInv, NEW x \in CommitType, x.parents \subseteq DOMAIN commits, x.parents # {},
         commits' = Append(commits, x), tip' \in [{"main", "f"} -> DOMAIN commits']
  PROVE  /\ HistoryInv' /\ Len(commits') = Len(commits) + 1
         /\ DOMAIN commits' = DOMAIN commits \cup {Len(commits')} /\ Len(commits') \notin DOMAIN commits
         /\ \A c \in DOMAIN commits : commits'[c] = commits[c] /\ Past(c)' = Past(c)
         /\ commits'[Len(commits')] = x
         /\ \A n : n = Len(commits') => Past(n)' = {n} \cup UNION {Past(p) : p \in x.parents}
<1> DEFINE n == Len(commits)
<1>1. /\ commits \in Seq(CommitType) /\ n \in Nat /\ n > 0 /\ DOMAIN commits = 1..n
      /\ Numbered(Parents, n) /\ DOMAIN Parents = 1..n
  BY DEF HistoryInv, Numbered
<1>2. /\ commits' \in Seq(CommitType) /\ Len(commits') = n + 1 /\ DOMAIN commits' = 1..(n + 1)
      /\ commits'[n + 1] = x /\ \A c \in 1..n : commits'[c] = commits[c]
  BY <1>1
<1>3. /\ DOMAIN Parents' = 1..(n + 1) /\ Parents'[n + 1] = x.parents
      /\ \A c \in 1..n : Parents'[c] = Parents[c]
  BY <1>1, <1>2 DEF Parents
<1>4. Numbered(Parents', n + 1)
  <2>1. \A c \in 1..n : Parents'[c] \subseteq 1..(c - 1)
    BY <1>1, <1>3 DEF Numbered
  <2>2. Parents'[n + 1] \subseteq 1..n
    BY <1>1, <1>3
  <2> QED BY <1>1, <1>3, <2>1, <2>2 DEF Numbered
<1>5. HistoryInv'
  <2>1. \A c \in DOMAIN commits' : c # 1 => commits'[c].parents # {}
    BY <1>1, <1>2 DEF HistoryInv
  <2> QED BY <1>1, <1>2, <1>4, <2>1 DEF HistoryInv
<1> HIDE DEF n
<1>6. \A c \in 1..n : Histories(Parents')[c] = Histories(Parents)[c]
  BY <1>1, <1>3, <1>4, HistoriesKeep
<1>7. \A c : Past(c) = Histories(Parents)[c] /\ Past(c)' = Histories(Parents')[c]
  BY DEF Past, Parents
<1>8. \A c \in DOMAIN commits : commits'[c] = commits[c] /\ Past(c)' = Past(c)
  BY <1>1, <1>2, <1>6, <1>7
<1>9. ASSUME NEW m, m = Len(commits')
      PROVE  Past(m)' = {m} \cup UNION {Past(p) : p \in x.parents}
  <2>1. m \in 1..(n + 1) /\ n + 1 \in Nat
    BY <1>1, <1>2, <1>9
  <2>2. Histories(Parents')[m] = {m} \cup UNION {Histories(Parents')[p] : p \in Parents'[m]}
    BY <1>4, <2>1, HistoryOf
  <2>3. {Histories(Parents')[p] : p \in x.parents} = {Past(p) : p \in x.parents}
    BY <1>1, <1>6, <1>7
  <2> QED BY <1>2, <1>3, <1>7, <1>9, <2>2, <2>3
<1>10. DOMAIN commits' = DOMAIN commits \cup {Len(commits')} /\ Len(commits') \notin DOMAIN commits
  BY <1>1, <1>2
<1> QED BY <1>2, <1>5, <1>8, <1>9, <1>10 DEF n

LEMMA HistoryStays ==
  ASSUME HistoryInv, commits' = commits, tip' \in [{"main", "f"} -> DOMAIN commits]
  PROVE  HistoryInv' /\ \A c : Past(c)' = Past(c)
<1>1. Parents' = Parents
  BY DEF Parents
<1> QED BY <1>1 DEF HistoryInv, Past
-----------------------------------------------------------------------------
(* Types.                                                                  *)

LEMMA StatesAre ==
  ASSUME NamesInv
  PROVE  /\ sess \in WorkType /\ disk \in WorkType /\ committed \in WorkType
         /\ want \in ToldType /\ saved.work \in ToldType /\ saved.tip \in DOMAIN commits
         /\ saved = [work |-> saved.work, tip |-> saved.tip]
         /\ merge \in MergeType /\ merge.base \in DOMAIN commits /\ HistoryInv
         /\ tx \in {"none", "open", "plain", "left"}
  BY DEF NamesInv, StateInv

LEMMA ToldIs ==
  ASSUME NEW work \in WorkType
  PROVE  Told(work) \in ToldType /\ Same(work, Told(work))
  BY DEF WorkType, Told, ToldType, Same

LEMMA SameTold ==
  ASSUME NEW work \in WorkType, NEW w \in ToldType
  PROVE  Told(work) = w <=> Same(work, w)
  BY DEF WorkType, Told, ToldType, Same

LEMMA CleanIs ==
  ASSUME HistoryInv, NEW c \in DOMAIN commits
  PROVE  /\ Clean(c) \in WorkType /\ Clean(c).rows = commits[c].rows
         /\ Clean(c).index = commits[c].index /\ Clean(c).conf = NoConflict
         /\ Clean(c).merging = FALSE /\ commits[c].rows \in Table
         /\ \A k \in Keys : commits[c].rows[k] \in Row
<1>1. commits[c] \in CommitType
  BY CommitsAre
<1> QED BY <1>1, NoConflictIs DEF Clean, WorkType, CommitType, Index, Table

\* What a session's working state becomes
LEMMA WorkIs ==
  ASSUME NEW work \in WorkType, NEW rows \in Table, NEW index \in Index, NEW conf \in Partial(Row),
         NEW merging \in BOOLEAN
  PROVE  /\ [rows |-> rows, index |-> index, conf |-> conf, merging |-> merging] \in WorkType
         /\ [work EXCEPT !.conf = conf] \in WorkType
         /\ [work EXCEPT !.conf = conf, !.merging = merging] \in WorkType
         /\ [work EXCEPT !.merging = merging] \in WorkType
         /\ [work EXCEPT !.rows = rows, !.index = index] \in WorkType
         /\ work.rows \in Table /\ work.index \in Index /\ work.conf \in Partial(Row)
         /\ work.merging \in BOOLEAN
  BY DEF WorkType, Index

LEMMA HeardIs ==
  ASSUME NEW w \in ToldType, NEW rows \in Table, NEW conf \in Partial(Row)
  PROVE  /\ [rows |-> rows, conf |-> conf] \in ToldType
         /\ [w EXCEPT !.rows = rows] \in ToldType /\ [w EXCEPT !.conf = conf] \in ToldType
         /\ w.rows \in Table /\ w.conf \in Partial(Row)
  BY DEF ToldType

LEMMA NoMergeIs ==
  ASSUME HistoryInv
  PROVE  /\ NoMerge \in MergeType /\ NoMerge.base \in DOMAIN commits /\ ~NoMerge.running
         /\ NoMerge.edits = NoConflict /\ NoMerge.conf = NoConflict
  BY CommitsAre, NoConflictIs DEF NoMerge, MergeType

LEMMA MergedIs ==
  ASSUME NamesInv
  PROVE  MergedRows \in Table /\ MergedIndex \in Index
<1>1. HistoryInv /\ merge.base \in DOMAIN commits /\ merge.edits \in Partial(Row)
      /\ tip.main \in DOMAIN commits /\ tip.f \in DOMAIN commits
  BY StatesAre, CommitsAre DEF MergeType
<1>2. \A k \in DOMAIN merge.edits : merge.edits[k] \in Row
  BY <1>1, PartialIs
<1>3. \A k \in Keys : commits[tip.main].rows[k] \in Row
  BY <1>1, CleanIs
<1>4. MergedRows \in Table
  BY <1>2, <1>3 DEF MergedRows, Table
<1>5. \A c \in DOMAIN commits : commits[c].index \in Index
  BY <1>1, CommitsAre DEF CommitType
<1>6. commits[tip.main].index \in Index /\ commits[tip.f].index \in Index
  BY <1>1, <1>5
<1>7. MergedIndex \in Index
  BY <1>6 DEF MergedIndex, Index
<1> QED BY <1>4, <1>7

\* Steps that leave the commits and the tips alone
LEMMA QuietNames ==
  ASSUME NamesInv, UNCHANGED <<commits, tip>>,
         sess' \in WorkType, disk' \in WorkType, committed' \in WorkType,
         tx' \in {"none", "open", "plain", "left"},
         merge' \in MergeType, merge'.base \in DOMAIN commits,
         updates' \in 0..MaxUpdates, spoiled' \in BOOLEAN,
         want' \in ToldType, saved' \in [work : ToldType, tip : DOMAIN commits]
  PROVE  NamesInv'
<1>1. HistoryInv'
  BY HistoryStays DEF NamesInv, HistoryInv
<1> QED BY <1>1 DEF NamesInv, StateInv

\* The end of a statement that writes
LEMMA WriteIs ==
  ASSUME NamesInv, NEW work \in WorkType, Write(work)
  PROVE  /\ sess' = work /\ disk' \in {disk, work} /\ committed' \in {committed, work}
         /\ tx' \in {"plain", "none"}
         /\ Explicit => tx' = "plain" /\ disk' = disk /\ committed' = committed
         /\ ~Explicit => tx' = "none" /\ disk' = work /\ committed' = work
  BY DEF Write, AllIs

LEMMA BelieveIs ==
  ASSUME NamesInv, NEW w \in ToldType, Believe(w)
  PROVE  /\ want' = w /\ saved' \in [work : ToldType, tip : DOMAIN commits]
         /\ Explicit => saved' = saved
         /\ ~Explicit => saved'.work = w /\ saved'.tip = tip.main
  BY StatesAre, CommitsAre DEF Believe, NamesInv, StateInv

LEMMA SavedIs ==
  ASSUME NamesInv, NEW w \in ToldType, NEW c \in DOMAIN commits
  PROVE  /\ [work |-> w, tip |-> c] \in [work : ToldType, tip : DOMAIN commits]
         /\ [saved EXCEPT !.work = w] = [work |-> w, tip |-> saved.tip]
         /\ [saved EXCEPT !.tip = c] = [work |-> saved.work, tip |-> c]
  BY DEF NamesInv, StateInv
LEMMA EndNames ==
  ASSUME NamesInv, Begin \/ Commit \/ Leave \/ Read \/ Crash \/ RefuseCommit \/ UndoMerge
  PROVE  NamesInv'
<1>1. /\ StateInv /\ HistoryInv /\ updates \in 0..MaxUpdates /\ spoiled \in BOOLEAN
      /\ tip.main \in DOMAIN commits /\ NoMerge \in MergeType /\ NoMerge.base \in DOMAIN commits
      /\ merge \in MergeType /\ merge.base \in DOMAIN commits
      /\ sess \in WorkType /\ disk \in WorkType /\ committed \in WorkType /\ want \in ToldType
      /\ saved \in [work : ToldType, tip : DOMAIN commits]
  BY CommitsAre, NoMergeIs DEF NamesInv, StateInv
<1>2. /\ [work |-> want, tip |-> tip.main] \in [work : ToldType, tip : DOMAIN commits]
      /\ [saved EXCEPT !.tip = tip.main] \in [work : ToldType, tip : DOMAIN commits]
      /\ saved.work \in ToldType
  BY <1>1
<1>3. /\ UNCHANGED <<commits, tip, updates, spoiled>> /\ merge' \in {merge, NoMerge}
      /\ want' \in {want, saved.work}
      /\ saved' \in {saved, [work |-> want, tip |-> tip.main], [saved EXCEPT !.tip = tip.main]}
  BY DEF Begin, Commit, Leave, Read, Crash, RefuseCommit, UndoMerge
<1>4. /\ sess' \in WorkType /\ disk' \in WorkType /\ committed' \in WorkType
      /\ tx' \in {"none", "open", "plain", "left"}
  BY <1>1 DEF Begin, Commit, Leave, Read, Crash, RefuseCommit, UndoMerge, AllIs, Ended
<1> QED BY <1>1, <1>2, <1>3, <1>4, QuietNames

\* Statements that write a session's working state, and believe what it says
LEMMA WriteNames ==
  ASSUME NamesInv, NEW work \in WorkType, NEW w \in ToldType, Write(work), Believe(w),
         UNCHANGED <<commits, tip, merge, spoiled>>, updates' \in 0..MaxUpdates
  PROVE  NamesInv'
<1>1. /\ sess' \in WorkType /\ disk' \in WorkType /\ committed' \in WorkType
      /\ tx' \in {"none", "open", "plain", "left"}
      /\ want' \in ToldType /\ saved' \in [work : ToldType, tip : DOMAIN commits]
  BY WriteIs, BelieveIs, StatesAre
<1>2. merge' \in MergeType /\ merge'.base \in DOMAIN commits /\ spoiled' \in BOOLEAN
  BY DEF NamesInv, StateInv
<1> QED BY <1>1, <1>2, QuietNames

\* What an update writes
LEMMA UpdateIs ==
  ASSUME NamesInv, NEW k \in Keys, NEW row \in Row, Update(k, row)
  PROVE  \E work \in WorkType, w \in ToldType :
           /\ Write(work) /\ Believe(w) /\ UNCHANGED <<commits, tip, merge, spoiled>>
           /\ updates' \in 0..MaxUpdates
           /\ work.rows = [sess.rows EXCEPT ![k] = row]
           /\ work.index = (sess.index \ Entry(k, sess.rows[k])) \cup Entry(k, row)
           /\ work.conf = sess.conf
           /\ w.rows = [want.rows EXCEPT ![k] = row] /\ w.conf = want.conf
<1> DEFINE work == [sess EXCEPT !.rows[k] = row,
                                !.index = (@ \ Entry(k, sess.rows[k])) \cup Entry(k, row)]
           w == [want EXCEPT !.rows[k] = row]
<1>1. sess \in WorkType /\ want \in ToldType
  BY StatesAre
<1>2. /\ work.rows = [sess.rows EXCEPT ![k] = row] /\ work.conf = sess.conf
      /\ work.index = (sess.index \ Entry(k, sess.rows[k])) \cup Entry(k, row)
      /\ w.rows = [want.rows EXCEPT ![k] = row] /\ w.conf = want.conf
  BY <1>1 DEF WorkType, ToldType
<1>3. work = [sess EXCEPT !.rows = [sess.rows EXCEPT ![k] = row],
                          !.index = (sess.index \ Entry(k, sess.rows[k])) \cup Entry(k, row)]
  BY <1>1 DEF WorkType
<1>4. /\ sess.rows \in Table /\ want.rows \in Table /\ sess.index \in Index
      /\ Entry(k, row) \subseteq [Indexed -> Cells] \X Keys
  <2>1. Entry(k, row) \subseteq [Indexed -> Cells] \X {k}
    BY EntryIs
  <2> QED BY <1>1, <2>1 DEF WorkType, ToldType, Index
<1>5. /\ [sess.rows EXCEPT ![k] = row] \in Table /\ [want.rows EXCEPT ![k] = row] \in Table
      /\ (sess.index \ Entry(k, sess.rows[k])) \cup Entry(k, row) \in Index
  BY <1>4 DEF Table, Index
<1>6. work \in WorkType
  BY <1>1, <1>3, <1>5, WorkIs, NoConflictIs
<1>7. w \in ToldType
  BY <1>1, <1>5 DEF ToldType
<1>8. /\ Write(work) /\ Believe(w) /\ UNCHANGED <<commits, tip, merge, spoiled>>
      /\ updates' \in 0..MaxUpdates
  BY MergeAssumption DEF Update, NamesInv, StateInv
<1> HIDE DEF work, w
<1> QED BY <1>2, <1>6, <1>7, <1>8

LEMMA UpdateNames ==
  ASSUME NamesInv, NEW k \in Keys, NEW row \in Row, Update(k, row)
  PROVE  NamesInv'
BY UpdateIs, WriteNames

LEMMA DropConflictIs ==
  ASSUME NamesInv, NEW k \in Keys, DropConflict(k)
  PROVE  \E work \in WorkType, w \in ToldType :
           /\ Write(work) /\ Believe(w) /\ UNCHANGED <<commits, tip, merge, updates, spoiled>>
           /\ work.rows = sess.rows /\ work.index = sess.index /\ w.rows = want.rows
           /\ work.conf = w.conf
           /\ sess.conf # NoConflict
<1> DEFINE conf == [j \in (DOMAIN sess.conf) \ {k} |-> sess.conf[j]]
           work == [sess EXCEPT !.conf = conf]
           w == [want EXCEPT !.conf = conf]
<1>1. sess \in WorkType /\ want \in ToldType /\ sess.conf \in Partial(Row)
  BY StatesAre DEF WorkType
<1>2. conf \in Partial(Row)
  BY <1>1, DropIs
<1>3. k \in DOMAIN sess.conf
  BY DEF DropConflict
<1>4. sess.conf # NoConflict
  BY <1>3, NoConflictIs
<1> HIDE DEF conf
<1>5. /\ work \in WorkType /\ work.rows = sess.rows /\ work.index = sess.index /\ work.conf = conf
      /\ w \in ToldType /\ w.rows = want.rows /\ w.conf = conf
  BY <1>1, <1>2 DEF WorkType, ToldType
<1>6. Write(work) /\ Believe(w) /\ UNCHANGED <<commits, tip, merge, updates, spoiled>>
  BY DEF DropConflict, conf
<1> HIDE DEF work, w
<1> QED BY <1>4, <1>5, <1>6

LEMMA DropConflictNames ==
  ASSUME NamesInv, NEW k \in Keys, DropConflict(k)
  PROVE  NamesInv'
<1>1. updates \in 0..MaxUpdates
  BY DEF NamesInv, StateInv
<1> QED BY <1>1, DropConflictIs, WriteNames

\* A resolution takes the conflicts away, and their rows over ours or not
LEMMA ResolveIs ==
  ASSUME NamesInv, ResolveOurs \/ ResolveTheirs
  PROVE  /\ UNCHANGED <<commits, tip, committed, merge, updates, spoiled>>
         /\ sess.conf # NoConflict /\ sess' \in WorkType /\ sess'.conf = NoConflict
         /\ IF Explicit THEN tx' = "plain" /\ disk' = disk ELSE tx' = "left" /\ disk' = sess'
         /\ Believe(Told(sess')) /\ Idle
<1> DEFINE rows == [k \in Keys |-> IF k \in DOMAIN sess.conf THEN sess.conf[k] ELSE sess.rows[k]]
<1>1. sess \in WorkType /\ sess.conf \in Partial(Row) /\ \A k \in Keys : sess.rows[k] \in Row
  BY StatesAre DEF WorkType, Table
<1>2. \A k \in DOMAIN sess.conf : sess.conf[k] \in Row
  BY <1>1, PartialIs
<1>3. rows \in Table
  BY <1>1, <1>2 DEF Table
<1> HIDE DEF rows
<1>4. PICK work \in WorkType : Resolve(work)
  <2>1. [sess EXCEPT !.rows = rows] \in WorkType
    BY <1>1, <1>3 DEF WorkType
  <2> QED BY <1>1, <2>1 DEF ResolveOurs, ResolveTheirs, rows
<1>5. sess' = [work EXCEPT !.conf = NoConflict]
  BY <1>4 DEF Resolve
<1>6. sess' \in WorkType /\ sess'.conf = NoConflict
  BY <1>5, NoConflictIs DEF WorkType
<1> QED BY <1>4, <1>6 DEF Resolve

LEMMA ResolveNames ==
  ASSUME NamesInv, ResolveOurs \/ ResolveTheirs
  PROVE  NamesInv'
<1>1. /\ UNCHANGED <<commits, tip, committed, merge, updates, spoiled>>
      /\ sess' \in WorkType /\ Believe(Told(sess'))
      /\ IF Explicit THEN tx' = "plain" /\ disk' = disk ELSE tx' = "left" /\ disk' = sess'
  BY ResolveIs
<1>2. PICK w \in ToldType : w = Told(sess')
  BY <1>1, ToldIs
<1>3. want' \in ToldType /\ saved' \in [work : ToldType, tip : DOMAIN commits]
  BY <1>1, <1>2, BelieveIs
<1>4. disk' \in WorkType /\ committed' \in WorkType /\ tx' \in {"none", "open", "plain", "left"}
      /\ merge' \in MergeType /\ merge'.base \in DOMAIN commits
      /\ updates' \in 0..MaxUpdates /\ spoiled' \in BOOLEAN
  BY <1>1 DEF NamesInv, StateInv
<1> QED BY <1>1, <1>3, <1>4, QuietNames
\* An abort goes back to main's tip, and is cut before the conflicts go or not
LEMMA AbortIs ==
  ASSUME NamesInv, Abort \/ CutAbort
  PROVE  /\ UNCHANGED <<commits, tip, merge, updates, spoiled>>
         /\ sess' \in WorkType /\ disk' = sess' /\ want' = Told(sess') /\ Idle
         /\ sess'.rows = commits[tip.main].rows /\ sess'.index = commits[tip.main].index
         /\ saved'.work = want' /\ saved' \in [work : ToldType, tip : DOMAIN commits]
         /\ \/ /\ Abort /\ sess' = Clean(tip.main) /\ sess'.conf = NoConflict /\ saved'.tip = saved.tip
               /\ committed' = (IF tx = "plain" THEN committed ELSE sess') /\ tx' = tx
            \/ /\ sess'.conf = sess.conf /\ committed' = sess' /\ tx' = "none"
               /\ saved'.tip = tip.main
<1>1. /\ sess \in WorkType /\ tip.main \in DOMAIN commits /\ HistoryInv
      /\ saved \in [work : ToldType, tip : DOMAIN commits]
  BY StatesAre, CommitsAre DEF NamesInv, StateInv
<1>2. /\ Clean(tip.main) \in WorkType /\ Clean(tip.main).rows = commits[tip.main].rows
      /\ Clean(tip.main).index = commits[tip.main].index /\ Clean(tip.main).conf = NoConflict
  BY <1>1, CleanIs
<1>3. CASE Abort
  <2>1. sess' = Clean(tip.main) /\ want' = Told(sess') /\ saved' = [saved EXCEPT !.work = want']
    BY <1>3 DEF Abort
  <2>2. want' \in ToldType
    BY <1>2, <2>1, ToldIs
  <2>3. saved' = [work |-> want', tip |-> saved.tip] /\ saved' \in [work : ToldType, tip : DOMAIN commits]
    BY <1>1, <2>1, <2>2
  <2> QED BY <1>2, <1>3, <2>1, <2>3 DEF Abort
<1>4. CASE CutAbort
  <2> DEFINE work == [Clean(tip.main) EXCEPT !.conf = sess.conf, !.merging = TRUE]
  <2>1. /\ work \in WorkType /\ work.rows = Clean(tip.main).rows
        /\ work.index = Clean(tip.main).index /\ work.conf = sess.conf
    BY <1>1, <1>2 DEF WorkType
  <2>2. AllIs(work) /\ want' = Told(sess') /\ saved' = [work |-> want', tip |-> tip.main]
    BY <1>4 DEF CutAbort
  <2> HIDE DEF work
  <2>3. want' \in ToldType
    BY <2>1, <2>2, ToldIs DEF AllIs
  <2>4. saved' \in [work : ToldType, tip : DOMAIN commits]
    BY <1>1, <2>2, <2>3
  <2> QED BY <1>2, <1>4, <2>1, <2>2, <2>4 DEF CutAbort, AllIs
<1> QED BY <1>3, <1>4

LEMMA AbortNames ==
  ASSUME NamesInv, Abort \/ CutAbort
  PROVE  NamesInv'
<1>1. /\ UNCHANGED <<commits, tip, merge, updates, spoiled>>
      /\ sess' \in WorkType /\ disk' = sess' /\ want' = Told(sess')
      /\ saved' \in [work : ToldType, tip : DOMAIN commits]
      /\ committed' \in {committed, sess'} /\ tx' \in {tx, "none"}
  BY AbortIs
<1>2. want' \in ToldType /\ committed' \in WorkType /\ tx' \in {"none", "open", "plain", "left"}
  BY <1>1, ToldIs, StatesAre
<1>3. /\ merge' \in MergeType /\ merge'.base \in DOMAIN commits
      /\ updates' \in 0..MaxUpdates /\ spoiled' \in BOOLEAN
  BY <1>1 DEF NamesInv, StateInv
<1> QED BY <1>1, <1>2, <1>3, QuietNames

\* Steps that move main on, to a commit that is there or that they make
LEMMA AdvancedNames ==
  ASSUME NamesInv, HistoryInv', DOMAIN commits \subseteq DOMAIN commits',
         NEW c \in DOMAIN commits', NEW work \in WorkType,
         NEW to \in {"none", "open", "plain", "left"}, Advanced(c, work, to),
         merge' = merge \/ merge' = NoMerge, UNCHANGED <<updates, spoiled>>,
         want' \in ToldType, saved'.tip \in DOMAIN commits \cup {c},
         saved' = [work |-> want', tip |-> saved'.tip]
  PROVE  NamesInv'
<1>1. sess' \in WorkType /\ disk' \in WorkType /\ committed' \in WorkType /\ tx' = to
  BY StatesAre DEF Advanced
<1>2. /\ merge' \in MergeType /\ merge'.base \in DOMAIN commits'
      /\ updates' \in 0..MaxUpdates /\ spoiled' \in BOOLEAN
  BY NoMergeIs DEF NamesInv, StateInv
<1>3. saved' \in [work : ToldType, tip : DOMAIN commits']
  <2>1. saved'.tip \in DOMAIN commits'
    OBVIOUS
  <2> QED BY <2>1
<1> QED BY <1>1, <1>2, <1>3 DEF NamesInv, StateInv

LEMMA FastForwardIs ==
  ASSUME NamesInv, FastForward
  PROVE  \E work \in WorkType :
           /\ Advanced(tip.f, work, tx) /\ UNCHANGED <<commits, merge, updates, spoiled>>
           /\ work.rows = commits[tip.f].rows /\ work.index = commits[tip.f].index
           /\ work.conf = sess.conf
           /\ want' \in ToldType /\ want'.rows = commits[tip.f].rows /\ want'.conf = want.conf
           /\ saved' = [work |-> want', tip |-> saved'.tip]
           /\ saved'.tip = IF tx = "plain" THEN saved.tip ELSE tip.f
           /\ tip.main \in Past(tip.f) /\ tip.f \notin Past(tip.main) /\ Idle
           /\ tx # "left" \/ May(HurryOn)
<1> DEFINE work == [Clean(tip.f) EXCEPT !.conf = sess.conf, !.merging = sess.merging]
<1>1. /\ sess \in WorkType /\ want \in ToldType /\ HistoryInv
      /\ tip.f \in DOMAIN commits /\ tip.main \in DOMAIN commits
  BY StatesAre, CommitsAre
<1>2. /\ Clean(tip.f) \in WorkType /\ Clean(tip.f).rows = commits[tip.f].rows
      /\ Clean(tip.f).index = commits[tip.f].index /\ commits[tip.f].rows \in Table
  BY <1>1, CleanIs
<1>3. /\ work \in WorkType /\ work.rows = commits[tip.f].rows /\ work.index = commits[tip.f].index
      /\ work.conf = sess.conf
  BY <1>1, <1>2 DEF WorkType
<1>4. Advanced(tip.f, work, tx) /\ UNCHANGED <<commits, merge, updates, spoiled>>
  BY DEF FastForward
<1> HIDE DEF work
<1>5. /\ want' = [want EXCEPT !.rows = commits[tip.f].rows]
      /\ saved' = [work |-> want', tip |-> IF tx = "plain" THEN saved.tip ELSE tip.f]
      /\ ~Merged /\ Behind /\ Idle /\ (tx # "left" \/ May(HurryOn))
  BY DEF FastForward, Settled
<1>6. want' \in ToldType /\ want'.rows = commits[tip.f].rows /\ want'.conf = want.conf
  BY <1>1, <1>2, <1>5 DEF ToldType
<1>7. tip.main \in Past(tip.f) /\ tip.f \notin Past(tip.main)
  BY <1>1, <1>5, AncestorIs DEF Behind, Merged
<1> QED BY <1>3, <1>4, <1>5, <1>6, <1>7

LEMMA FastForwardNames ==
  ASSUME NamesInv, FastForward
  PROVE  NamesInv'
<1>1. PICK work \in WorkType :
        /\ Advanced(tip.f, work, tx) /\ UNCHANGED <<commits, merge, updates, spoiled>>
        /\ want' \in ToldType /\ saved' = [work |-> want', tip |-> saved'.tip]
        /\ saved'.tip = IF tx = "plain" THEN saved.tip ELSE tip.f
  BY FastForwardIs
<1>2. /\ HistoryInv /\ saved.tip \in DOMAIN commits /\ tip.f \in DOMAIN commits
      /\ tx \in {"none", "open", "plain", "left"}
  BY StatesAre, CommitsAre
<1>3. HistoryInv'
  <2>1. tip' \in [{"main", "f"} -> DOMAIN commits]
    BY <1>1, <1>2 DEF Advanced, HistoryInv
  <2> QED BY <1>1, <1>2, <2>1, HistoryStays
<1> QED BY <1>1, <1>2, <1>3, AdvancedNames

\* dolt_commit and the end of a merge: main moves on to a new commit
LEMMA NewMain ==
  ASSUME HistoryInv, NEW x \in CommitType, x.parents \subseteq DOMAIN commits,
         tip.main \in x.parents,
         commits' = Append(commits, x), tip' = [tip EXCEPT !.main = Len(commits')]
  PROVE  /\ HistoryInv' /\ DOMAIN commits \subseteq DOMAIN commits'
         /\ Len(commits') \in DOMAIN commits' /\ Len(commits') = Len(commits) + 1
         /\ Len(commits') \notin DOMAIN commits
         /\ \A c \in DOMAIN commits : commits'[c] = commits[c] /\ Past(c)' = Past(c)
         /\ commits'[Len(commits')] = x
         /\ \A n : n = Len(commits') => {n} \cup Past(tip.main) \subseteq Past(n)'
         /\ tip'.main = Len(commits') /\ tip'.f = tip.f
         /\ DOMAIN commits' = DOMAIN commits \cup {Len(commits')}
<1>1. tip' \in [{"main", "f"} -> DOMAIN commits'] /\ tip'.main = Len(commits') /\ tip'.f = tip.f
  BY DEF HistoryInv
<1>2. /\ HistoryInv' /\ Len(commits') = Len(commits) + 1
      /\ DOMAIN commits' = DOMAIN commits \cup {Len(commits')} /\ Len(commits') \notin DOMAIN commits
      /\ \A c \in DOMAIN commits : commits'[c] = commits[c] /\ Past(c)' = Past(c)
      /\ commits'[Len(commits')] = x
      /\ \A n : n = Len(commits') => Past(n)' = {n} \cup UNION {Past(p) : p \in x.parents}
  BY <1>1, Appended
<1>3. \A n : n = Len(commits') => {n} \cup Past(tip.main) \subseteq Past(n)'
  BY <1>2
<1> QED BY <1>1, <1>2, <1>3

\* The steps of a running merge change it only
LEMMA StartMergeNames ==
  ASSUME NamesInv, StartMerge
  PROVE  NamesInv'
<1> DEFINE b == Ancestor(tip.main, tip.f)
           left == Changed(commits[b].rows, commits[tip.main].rows)
           right == Changed(commits[b].rows, commits[tip.f].rows)
<1>1. b \in DOMAIN commits
  BY StatesAre, CommitsAre, AncestorIs
<1>2. left \in SUBSET Keys /\ right \in SUBSET Keys
  BY DEF Changed
<1>3. merge' = [NoMerge EXCEPT !.running = TRUE, !.base = b, !.left = left, !.right = right]
  BY DEF StartMerge
<1> HIDE DEF b, left, right
<1>4. merge' \in MergeType /\ merge'.base = b
  <2>1. b \in Nat
    BY <1>1, StatesAre, CommitsAre
  <2>2. NoMerge \in MergeType
    BY StatesAre, NoMergeIs
  <2> QED BY <1>2, <1>3, <2>1, <2>2 DEF MergeType
<1>5. UNCHANGED <<commits, tip, sess, disk, committed, tx, updates, want, saved, spoiled>>
  BY DEF StartMerge
<1>6. /\ updates' \in 0..MaxUpdates /\ spoiled' \in BOOLEAN
      /\ saved' \in [work : ToldType, tip : DOMAIN commits]
  BY <1>5 DEF NamesInv, StateInv
<1> QED BY <1>1, <1>4, <1>5, <1>6, StatesAre, QuietNames

\* What a step of the diff does to the key it is at
LEMMA EmitIs ==
  ASSUME NamesInv, NEW k \in Keys, EmitLeft(k) \/ EmitRight(k) \/ EmitBoth(k)
  PROVE  /\ Unmerged /\ merge' \in MergeType /\ merge'.base = merge.base /\ merge'.running = merge.running
         /\ merge'.left = merge.left \ {k} /\ merge'.right = merge.right \ {k}
         /\ k \in merge.left \cup merge.right
         /\ LET b == commits[merge.base].rows[k]
                o == commits[tip.main].rows[k]
                t == commits[tip.f].rows[k]
                edited(row) == /\ merge'.edits = Set(merge.edits, k, row)
                               /\ merge'.conf = merge.conf /\ row \in Row
                same == merge'.edits = merge.edits /\ merge'.conf = merge.conf
            IN \/ k \notin merge.right /\ same
               \/ k \notin merge.left /\ edited(t)
               \/ k \in merge.left /\ k \in merge.right /\ o = t /\ same
               \/ /\ k \in merge.left /\ k \in merge.right /\ o # t
                  /\ NoRow \in {b, o, t} \/ CellsClash(b, o, t)
                  /\ merge'.edits = merge.edits /\ merge'.conf = Set(merge.conf, k, t)
               \/ /\ k \in merge.left /\ k \in merge.right /\ o # t
                  /\ NoRow \notin {b, o, t} /\ ~CellsClash(b, o, t)
                  /\ edited(CellMerge(b, o, t))
<1> DEFINE b == commits[merge.base].rows[k]
           o == commits[tip.main].rows[k]
           t == commits[tip.f].rows[k]
<1>1. merge \in MergeType /\ b \in Row /\ o \in Row /\ t \in Row
  BY StatesAre, CommitsAre, CleanIs
<1>2. merge.edits \in Partial(Row) /\ merge.conf \in Partial(Row)
  BY <1>1 DEF MergeType
<1>3. \A row \in Row : /\ Set(merge.edits, k, row) \in Partial(Row)
                       /\ Set(merge.conf, k, row) \in Partial(Row)
  BY <1>2, SetIs
<1>4. NoRow \notin {b, o, t} => CellMerge(b, o, t) \in Row
  BY <1>1, CellsMerged
<1>5. CASE EmitLeft(k)
  <2>1. /\ k \in merge.left /\ k \notin merge.right /\ Unmerged
        /\ merge' = [merge EXCEPT !.left = merge.left \ {k}]
    BY <1>1, <1>5 DEF EmitLeft, First, MergeType
  <2> QED BY <1>1, <2>1 DEF MergeType
<1>6. CASE EmitRight(k)
  <2>1. /\ k \in merge.right /\ k \notin merge.left /\ Unmerged
        /\ merge' = [merge EXCEPT !.right = merge.right \ {k}, !.edits = Set(merge.edits, k, t)]
    BY <1>1, <1>6 DEF EmitRight, First, MergeType
  <2>2. /\ merge' \in MergeType /\ merge'.base = merge.base /\ merge'.running = merge.running
        /\ merge'.left = merge.left \ {k} /\ merge'.right = merge.right \ {k}
        /\ merge'.edits = Set(merge.edits, k, t) /\ merge'.conf = merge.conf
    BY <1>1, <1>3, <2>1 DEF MergeType
  <2> QED BY <1>1, <2>1, <2>2
<1>7. CASE EmitBoth(k)
  <2> DEFINE rest == [merge EXCEPT !.left = merge.left \ {k}, !.right = merge.right \ {k}]
  <2>1. k \in merge.left /\ k \in merge.right /\ Unmerged
    BY <1>7 DEF EmitBoth, First
  <2>2. \/ o = t /\ merge' = rest
        \/ /\ o # t
           /\ NoRow \in {b, o, t} \/ CellsClash(b, o, t)
           /\ merge' = [rest EXCEPT !.conf = Set(merge.conf, k, t)]
        \/ /\ o # t /\ NoRow \notin {b, o, t} /\ ~CellsClash(b, o, t)
           /\ merge' = [rest EXCEPT !.edits = Set(merge.edits, k, CellMerge(b, o, t))]
    BY <1>1, <1>7 DEF EmitBoth, MergeType
  <2>3. /\ rest \in MergeType /\ rest.base = merge.base /\ rest.running = merge.running
        /\ rest.left = merge.left \ {k} /\ rest.right = merge.right \ {k}
        /\ rest.edits = merge.edits /\ rest.conf = merge.conf
    BY <1>1 DEF MergeType
  <2> HIDE DEF rest
  <2>4. CASE o = t /\ merge' = rest
    BY <2>1, <2>3, <2>4
  <2>5. CASE /\ o # t
             /\ NoRow \in {b, o, t} \/ CellsClash(b, o, t)
             /\ merge' = [rest EXCEPT !.conf = Set(merge.conf, k, t)]
    <3>1. /\ merge' \in MergeType /\ merge'.base = merge.base /\ merge'.running = merge.running
          /\ merge'.left = merge.left \ {k} /\ merge'.right = merge.right \ {k}
          /\ merge'.edits = merge.edits /\ merge'.conf = Set(merge.conf, k, t)
      BY <1>1, <1>3, <2>3, <2>5 DEF MergeType
    <3> QED BY <2>1, <2>5, <3>1
  <2>6. CASE /\ o # t /\ NoRow \notin {b, o, t} /\ ~CellsClash(b, o, t)
             /\ merge' = [rest EXCEPT !.edits = Set(merge.edits, k, CellMerge(b, o, t))]
    <3>1. CellMerge(b, o, t) \in Row
      BY <1>4, <2>6
    <3>2. /\ merge' \in MergeType /\ merge'.base = merge.base /\ merge'.running = merge.running
          /\ merge'.left = merge.left \ {k} /\ merge'.right = merge.right \ {k}
          /\ merge'.edits = Set(merge.edits, k, CellMerge(b, o, t)) /\ merge'.conf = merge.conf
      BY <1>3, <2>3, <2>6, <3>1 DEF MergeType
    <3> QED BY <2>1, <2>6, <3>1, <3>2
  <2> QED BY <2>2, <2>4, <2>5, <2>6
<1> QED BY <1>5, <1>6, <1>7
LEMMA EmitNames ==
  ASSUME NamesInv, NEW k \in Keys, EmitLeft(k) \/ EmitRight(k) \/ EmitBoth(k)
  PROVE  NamesInv'
<1>1. /\ UNCHANGED <<commits, tip, sess, disk, committed, tx, updates, want, saved, spoiled>>
      /\ merge' \in MergeType /\ merge'.base = merge.base
  BY EmitIs DEF Unmerged
<1>2. /\ updates' \in 0..MaxUpdates /\ spoiled' \in BOOLEAN
      /\ saved' \in [work : ToldType, tip : DOMAIN commits]
  BY <1>1 DEF NamesInv, StateInv
<1> QED BY <1>1, <1>2, StatesAre, QuietNames

\* The end of a merge with no conflicts: a commit with both parents
LEMMA MergeCommitIs ==
  ASSUME NamesInv, MergeCommit
  PROVE  \E x \in CommitType, work \in WorkType :
           /\ x.parents = {tip.main, tip.f} /\ x.rows = MergedRows /\ x.index = MergedIndex
           /\ commits' = Append(commits, x)
           /\ work.rows = MergedRows /\ work.index = MergedIndex /\ work.conf = sess.conf
           /\ Advanced(Len(commits'), work, IF Explicit THEN "plain" ELSE "none")
           /\ want' \in ToldType /\ want'.rows = MergedRows /\ want'.conf = want.conf
           /\ saved' = [work |-> want', tip |-> saved'.tip]
           /\ saved'.tip = IF Explicit THEN saved.tip ELSE Len(commits')
           /\ Diffed /\ merge.conf = NoConflict /\ merge' = NoMerge /\ UNCHANGED <<updates, spoiled>>
<1> DEFINE x == [parents |-> {tip.main, tip.f}, rows |-> MergedRows, index |-> MergedIndex]
           work == [sess EXCEPT !.rows = MergedRows, !.index = MergedIndex]
<1>1. /\ MergedRows \in Table /\ MergedIndex \in Index /\ sess \in WorkType /\ want \in ToldType
      /\ tip.main \in Nat /\ tip.f \in Nat
  BY StatesAre, MergedIs, CommitsAre
<1>2. /\ work \in WorkType /\ work.rows = MergedRows /\ work.index = MergedIndex
      /\ work.conf = sess.conf
  BY <1>1 DEF WorkType, Index
<1>3. x \in CommitType
  BY <1>1 DEF CommitType
<1>4. /\ commits' = Append(commits, x)
      /\ Advanced(Len(commits'), work, IF Explicit THEN "plain" ELSE "none")
      /\ want' = [want EXCEPT !.rows = MergedRows]
      /\ saved' = [work |-> want', tip |-> IF Explicit THEN saved.tip ELSE tip'.main]
      /\ Diffed /\ merge.conf = NoConflict /\ merge' = NoMerge /\ UNCHANGED <<updates, spoiled>>
  BY DEF MergeCommit
<1> HIDE DEF work
<1>5. want' \in ToldType /\ want'.rows = MergedRows /\ want'.conf = want.conf
  BY <1>1, <1>4 DEF ToldType
<1>6. tip'.main = Len(commits')
  BY <1>4, StatesAre DEF Advanced, HistoryInv
<1>7. /\ x.parents = {tip.main, tip.f} /\ x.rows = MergedRows /\ x.index = MergedIndex
  OBVIOUS
<1> HIDE DEF x
<1> QED BY <1>2, <1>3, <1>4, <1>5, <1>6, <1>7

LEMMA MergeCommitNames ==
  ASSUME NamesInv, MergeCommit
  PROVE  NamesInv'
<1>1. PICK x \in CommitType, work \in WorkType :
        /\ x.parents = {tip.main, tip.f} /\ commits' = Append(commits, x)
        /\ Advanced(Len(commits'), work, IF Explicit THEN "plain" ELSE "none")
        /\ want' \in ToldType /\ saved' = [work |-> want', tip |-> saved'.tip]
        /\ saved'.tip = IF Explicit THEN saved.tip ELSE Len(commits')
        /\ merge' = NoMerge /\ UNCHANGED <<updates, spoiled>>
  BY MergeCommitIs
<1>2. HistoryInv /\ tip.main \in DOMAIN commits /\ tip.f \in DOMAIN commits
      /\ saved.tip \in DOMAIN commits
  BY StatesAre, CommitsAre
<1>3. /\ HistoryInv' /\ DOMAIN commits \subseteq DOMAIN commits'
      /\ Len(commits') \in DOMAIN commits'
  BY <1>1, <1>2, NewMain DEF Advanced
<1>4. (IF Explicit THEN "plain" ELSE "none") \in {"none", "open", "plain", "left"}
  OBVIOUS
<1> QED BY <1>1, <1>2, <1>3, <1>4, AdvancedNames

\* With conflicts, in a transaction: what is kept
LEMMA KeepConflictsIs ==
  ASSUME NamesInv, KeepConflicts
  PROVE  \E work \in WorkType :
           /\ Write(work) /\ UNCHANGED <<commits, tip, updates, saved>> /\ Explicit /\ Diffed
           /\ want' = Told(work) /\ merge' = NoMerge /\ spoiled' = TRUE
<1> DEFINE work == [rows |-> MergedRows, index |-> MergedIndex, conf |-> merge.conf,
                    merging |-> TRUE]
<1>1. MergedRows \in Table /\ MergedIndex \in Index /\ merge.conf \in Partial(Row)
  BY StatesAre, MergedIs DEF MergeType
<1>2. work \in WorkType
  BY <1>1 DEF WorkType, Index
<1>3. Told(work) = [rows |-> MergedRows, conf |-> merge.conf]
  BY DEF Told
<1> QED BY <1>2, <1>3 DEF KeepConflicts

LEMMA KeepConflictsNames ==
  ASSUME NamesInv, KeepConflicts
  PROVE  NamesInv'
<1>1. PICK work \in WorkType :
        /\ Write(work) /\ UNCHANGED <<commits, tip, updates, saved>>
        /\ want' = Told(work) /\ merge' = NoMerge /\ spoiled' = TRUE
  BY KeepConflictsIs
<1>2. /\ sess' \in WorkType /\ disk' \in WorkType /\ committed' \in WorkType
      /\ tx' \in {"none", "open", "plain", "left"} /\ want' \in ToldType
  BY <1>1, WriteIs, StatesAre, ToldIs
<1>3. /\ merge' \in MergeType /\ merge'.base \in DOMAIN commits
      /\ updates' \in 0..MaxUpdates /\ spoiled' \in BOOLEAN
      /\ saved' \in [work : ToldType, tip : DOMAIN commits]
  BY <1>1, StatesAre, NoMergeIs DEF NamesInv, StateInv
<1> QED BY <1>1, <1>2, <1>3, QuietNames

\* dolt_commit: a commit on main, of the state that its transaction left
LEMMA DoltCommitIs ==
  ASSUME NamesInv, DoltCommit
  PROVE  \E x \in CommitType, work \in WorkType :
           /\ x.parents = {tip.main} /\ x.rows = Ended.rows /\ x.index = Ended.index
           /\ commits' = Append(commits, x) /\ Advanced(Len(commits'), work, "none")
           /\ work.rows = Ended.rows /\ work.index = Ended.index /\ work.conf = Ended.conf
           /\ Ended.conf = NoConflict
           /\ want' \in ToldType /\ want'.rows = want.rows /\ want'.conf = NoConflict
           /\ saved' = [work |-> want', tip |-> Len(commits')] /\ saved'.tip = Len(commits')
           /\ Idle /\ UNCHANGED <<merge, updates, spoiled>> /\ (tx # "left" \/ May(HurryOn))
<1> DEFINE x == [parents |-> {tip.main}, rows |-> Ended.rows, index |-> Ended.index]
           work == [Ended EXCEPT !.merging = FALSE]
<1>1. Ended \in WorkType /\ want \in ToldType /\ tip.main \in Nat
  BY StatesAre, CommitsAre DEF Ended
<1>2. Ended.rows \in Table /\ Ended.index \in Index
  BY <1>1 DEF WorkType, Index
<1>3. x \in CommitType /\ x.parents = {tip.main} /\ x.rows = Ended.rows /\ x.index = Ended.index
  BY <1>1, <1>2 DEF CommitType
<1>4. /\ work \in WorkType /\ work.rows = Ended.rows /\ work.index = Ended.index
      /\ work.conf = Ended.conf
  BY <1>1 DEF WorkType
<1>5. /\ commits' = Append(commits, x) /\ Advanced(Len(commits'), work, "none")
      /\ want' = [want EXCEPT !.conf = NoConflict]
      /\ saved' = [work |-> want', tip |-> tip'.main]
      /\ Idle /\ UNCHANGED <<merge, updates, spoiled>> /\ (tx # "left" \/ May(HurryOn))
      /\ Ended.conf = NoConflict
  BY DEF DoltCommit, Settled, Committable
<1> HIDE DEF x, work
<1>6. want' \in ToldType /\ want'.rows = want.rows /\ want'.conf = NoConflict
  BY <1>1, <1>5, NoConflictIs DEF ToldType
<1>7. tip'.main = Len(commits')
  BY <1>5, StatesAre DEF Advanced, HistoryInv
<1> QED BY <1>3, <1>4, <1>5, <1>6, <1>7

LEMMA DoltCommitNames ==
  ASSUME NamesInv, DoltCommit
  PROVE  NamesInv'
<1>1. PICK x \in CommitType, work \in WorkType :
        /\ x.parents = {tip.main} /\ commits' = Append(commits, x)
        /\ Advanced(Len(commits'), work, "none")
        /\ want' \in ToldType /\ saved' = [work |-> want', tip |-> saved'.tip]
        /\ saved'.tip = Len(commits') /\ merge' = merge /\ UNCHANGED <<updates, spoiled>>
  BY DoltCommitIs
<1>2. HistoryInv /\ tip.main \in DOMAIN commits
  BY StatesAre, CommitsAre
<1>3. /\ HistoryInv' /\ DOMAIN commits \subseteq DOMAIN commits'
      /\ Len(commits') \in DOMAIN commits'
  BY <1>1, <1>2, NewMain DEF Advanced
<1> QED BY <1>1, <1>3, AdvancedNames

\* A commit on f, whose index is as its rows say
LEMMA CommitToFIs ==
  ASSUME NamesInv, NEW k \in Keys, NEW row \in Row, CommitToF(k, row)
  PROVE  \E x \in CommitType :
           /\ commits' = Append(commits, x) /\ x.parents = {tip.f} /\ Agrees(x)
           /\ tip' = [tip EXCEPT !.f = Len(commits')] /\ tip'.main = tip.main /\ Idle
           /\ UNCHANGED <<sess, disk, committed, tx, merge, updates, want, saved, spoiled>>
<1> DEFINE rows == [commits[tip.f].rows EXCEPT ![k] = row]
           x == [parents |-> {tip.f}, rows |-> rows, index |-> Entries(rows)]
<1>1. commits[tip.f].rows \in Table /\ tip.f \in Nat
  <2>1. tip.f \in DOMAIN commits /\ tip.f \in Nat /\ commits[tip.f] \in CommitType
    BY StatesAre, CommitsAre
  <2> QED BY <2>1 DEF CommitType
<1>2. rows \in Table /\ Entries(rows) \in Index
  <2>1. rows \in Table
    BY <1>1 DEF Table
  <2> QED BY <2>1, EntriesAre
<1>3. commits' = Append(commits, x) /\ tip' = [tip EXCEPT !.f = Len(commits')] /\ Idle
      /\ UNCHANGED <<sess, disk, committed, tx, merge, updates, want, saved, spoiled>>
  BY DEF CommitToF
<1>4. tip'.main = tip.main
  BY <1>3, StatesAre DEF HistoryInv
<1> HIDE DEF rows
<1>5. x \in CommitType /\ x.parents = {tip.f} /\ Agrees(x)
  BY <1>1, <1>2 DEF CommitType, Agrees
<1> QED BY <1>3, <1>4, <1>5

\* and the commits that were there stay, with their histories
LEMMA CommitToFKeeps ==
  ASSUME NamesInv, NEW k \in Keys, NEW row \in Row, CommitToF(k, row)
  PROVE  /\ HistoryInv' /\ DOMAIN commits' = DOMAIN commits \cup {Len(commits')}
         /\ \A c \in DOMAIN commits : commits'[c] = commits[c] /\ Past(c)' = Past(c)
         /\ Agrees(commits'[Len(commits')]) /\ tip'.main = tip.main /\ Len(commits') \notin DOMAIN commits
<1>1. PICK x \in CommitType :
        /\ commits' = Append(commits, x) /\ x.parents = {tip.f} /\ Agrees(x)
        /\ tip' = [tip EXCEPT !.f = Len(commits')] /\ tip'.main = tip.main
  BY CommitToFIs
<1>2. HistoryInv /\ tip.f \in DOMAIN commits
  BY StatesAre, CommitsAre
<1>3. tip' \in [{"main", "f"} -> DOMAIN commits']
  <2>1. DOMAIN commits' = 1..(Len(commits) + 1) /\ DOMAIN commits = 1..Len(commits)
        /\ Len(commits') = Len(commits) + 1 /\ Len(commits) \in Nat
    BY <1>1, <1>2 DEF HistoryInv
  <2>2. tip \in [{"main", "f"} -> DOMAIN commits]
    BY <1>2 DEF HistoryInv
  <2> QED BY <1>1, <2>1, <2>2
<1> QED BY <1>1, <1>2, <1>3, Appended

LEMMA CommitToFNames ==
  ASSUME NamesInv, NEW k \in Keys, NEW row \in Row, CommitToF(k, row)
  PROVE  NamesInv'
<1>1. UNCHANGED <<sess, disk, committed, tx, merge, updates, want, saved, spoiled>>
  BY CommitToFIs
<1>2. HistoryInv' /\ DOMAIN commits \subseteq DOMAIN commits'
  BY CommitToFKeeps
<1>3. saved' \in [work : ToldType, tip : DOMAIN commits'] /\ merge'.base \in DOMAIN commits'
  BY <1>1, <1>2 DEF NamesInv, StateInv
<1> QED BY <1>1, <1>2, <1>3 DEF NamesInv, StateInv

\* Conflicts that are resolved one by one, and statements that update a row
LEMMA RowNames ==
  ASSUME NamesInv, NEW k \in Keys,
         \/ EmitLeft(k) \/ EmitRight(k) \/ EmitBoth(k) \/ DropConflict(k)
         \/ \E row \in Updates : Update(k, row) \/ CommitToF(k, row)
  PROVE  NamesInv'
<1>1. Updates \subseteq Row
  BY MergeAssumption
<1> QED BY <1>1, EmitNames, DropConflictNames, UpdateNames, CommitToFNames

\* What the branches start with
LEMMA InitIs ==
  ASSUME Init
  PROVE  /\ HistoryInv /\ \A c \in DOMAIN commits : Agrees(commits[c])
         /\ sess = Clean(tip.main) /\ disk = sess /\ committed = sess /\ tx = "none"
         /\ merge = NoMerge /\ updates = 0 /\ spoiled = FALSE
         /\ want = Told(sess) /\ saved = [work |-> want, tip |-> tip.main]
         /\ tip.main \in DOMAIN commits
<1>1. PICK b \in Bases, o \in Ours, t \in Theirs :
        /\ commits = [c \in 1..3 |-> LET rows == <<b, o, t>>[c] IN
             [parents |-> IF c = 1 THEN {} ELSE {1}, rows |-> rows, index |-> Entries(rows)]]
        /\ tip = [main |-> IF o = b THEN 1 ELSE 2, f |-> IF t = b THEN 1 ELSE 3]
        /\ sess = Clean(tip.main) /\ disk = sess /\ committed = sess
        /\ tx = "none" /\ merge = NoMerge /\ updates = 0
        /\ want = Told(sess) /\ saved = [work |-> want, tip |-> tip.main] /\ spoiled = FALSE
  BY DEF Init
<1>2. b \in Table /\ o \in Table /\ t \in Table
  BY MergeAssumption
<1>3. \A c \in 1..3 : <<b, o, t>>[c] \in Table
  BY <1>2
<1>4. \A c \in 1..3 : commits[c] \in CommitType /\ Agrees(commits[c])
  <2> TAKE c \in 1..3
  <2> DEFINE rows == <<b, o, t>>[c]
  <2>1. rows \in Table /\ Entries(rows) \in Index
    BY <1>3, EntriesAre
  <2>2. commits[c] = [parents |-> IF c = 1 THEN {} ELSE {1}, rows |-> rows, index |-> Entries(rows)]
    BY <1>1
  <2> HIDE DEF rows
  <2> QED BY <2>1, <2>2 DEF CommitType, Agrees
<1>5. commits \in Seq(CommitType) /\ Len(commits) = 3 /\ DOMAIN commits = 1..3
  <2>1. commits \in [1..3 -> CommitType] /\ DOMAIN commits = 1..3
    BY <1>1, <1>4
  <2> QED BY <2>1
<1>6. \A c \in 1..3 : commits[c].parents = IF c = 1 THEN {} ELSE {1}
  BY <1>1
<1>7. Numbered(Parents, Len(commits))
  <2>1. DOMAIN Parents = 1..3 /\ \A c \in 1..3 : Parents[c] = IF c = 1 THEN {} ELSE {1}
    BY <1>5, <1>6 DEF Parents
  <2>2. \A c \in 1..3 : Parents[c] \subseteq 1..(c - 1)
    BY <2>1
  <2> QED BY <1>5, <2>1, <2>2 DEF Numbered
<1>8. tip \in [{"main", "f"} -> DOMAIN commits]
  BY <1>1, <1>5
<1>9. HistoryInv
  <2>1. Len(commits) > 0 /\ \A c \in DOMAIN commits : c # 1 => commits[c].parents # {}
    BY <1>5, <1>6
  <2> QED BY <1>5, <1>7, <1>8, <2>1 DEF HistoryInv
<1>10. /\ sess = Clean(tip.main) /\ disk = sess /\ committed = sess /\ tx = "none"
       /\ merge = NoMerge /\ updates = 0 /\ spoiled = FALSE
       /\ want = Told(sess) /\ saved = [work |-> want, tip |-> tip.main]
  BY <1>1
<1> QED BY <1>4, <1>5, <1>9, <1>10, CommitsAre

LEMMA InitNames == Init => NamesInv
<1> SUFFICES ASSUME Init PROVE NamesInv
  OBVIOUS
<1>1. sess \in WorkType /\ want \in ToldType
  BY InitIs, CleanIs, ToldIs
<1>2. saved \in [work : ToldType, tip : DOMAIN commits]
  BY <1>1, InitIs
<1>3. merge \in MergeType /\ merge.base \in DOMAIN commits
  BY InitIs, NoMergeIs
<1>4. updates \in 0..MaxUpdates /\ spoiled \in BOOLEAN
  BY InitIs, MergeAssumption
<1> QED BY <1>1, <1>2, <1>3, <1>4, InitIs DEF NamesInv, StateInv

LEMMA NamesKept == NamesInv /\ [Next]_vars => NamesInv'
<1> SUFFICES ASSUME NamesInv, [Next]_vars PROVE NamesInv'
  OBVIOUS
<1>1. CASE Begin \/ Commit \/ Leave \/ Read \/ Crash \/ RefuseCommit \/ UndoMerge
  BY <1>1, EndNames
<1>2. CASE FastForward
  BY <1>2, FastForwardNames
<1>3. CASE StartMerge
  BY <1>3, StartMergeNames
<1>4. CASE MergeCommit
  BY <1>4, MergeCommitNames
<1>5. CASE KeepConflicts
  BY <1>5, KeepConflictsNames
<1>6. CASE ResolveOurs \/ ResolveTheirs
  BY <1>6, ResolveNames
<1>7. CASE DoltCommit
  BY <1>7, DoltCommitNames
<1>8. CASE Abort \/ CutAbort
  BY <1>8, AbortNames
<1>9. ASSUME NEW k \in Keys,
             \/ EmitLeft(k) \/ EmitRight(k) \/ EmitBoth(k) \/ DropConflict(k)
             \/ \E row \in Updates : Update(k, row) \/ CommitToF(k, row)
      PROVE  NamesInv'
  BY <1>9, RowNames
<1>10. CASE UNCHANGED vars
  <2>1. UNCHANGED <<commits, tip, sess, disk, committed, tx, merge, updates, want, saved, spoiled>>
    BY <1>10 DEF vars
  <2> QED BY <2>1, StatesAre, QuietNames DEF NamesInv, StateInv
<1> QED BY <1>1, <1>2, <1>3, <1>4, <1>5, <1>6, <1>7, <1>8, <1>9, <1>10 DEF Next

\* Working states, merges, commits and what users believe have their types,
\* and a commit is made of ones made before it, whatever users do (dolt_merge,
\* dolt_conflicts_resolve, dolt_commit, ROLLBACK and a crash between them).
THEOREM TypeCorrect == Spec => []TypeOK
<1>1. NamesInv => TypeOK
  <2> SUFFICES ASSUME NamesInv PROVE TypeOK
    OBVIOUS
  <2>1. \A c \in DOMAIN commits : /\ commits[c].rows \in Table
                                  /\ commits[c].parents \subseteq 1..(c - 1)
    BY StatesAre, CommitsAre DEF CommitType
  <2>2. Told(want) = want
    BY StatesAre DEF Told, ToldType
  <2>3. merge.left \cup merge.right \subseteq Keys /\ merge.edits \in Partial(Row)
        /\ merge.conf \in Partial(Row)
    BY StatesAre DEF MergeType
  <2> QED BY <2>1, <2>2, <2>3, StatesAre DEF TypeOK, NamesInv, StateInv, HistoryInv
<1> QED BY <1>1, InitNames, NamesKept, PTL DEF Spec

-----------------------------------------------------------------------------
(* The diff.                                                               *)

LEMMA MergedRow ==
  ASSUME NEW k \in Keys
  PROVE  MergedRows[k] = IF k \in DOMAIN merge.edits THEN merge.edits[k]
                         ELSE commits[tip.main].rows[k]
BY DEF MergedRows

LEMMA QuietDiff ==
  ASSUME DiffInv, ~merge'.running \/ UNCHANGED <<commits, tip, merge>>
  PROVE  DiffInv'
<1>1. CASE ~merge'.running
  BY <1>1 DEF DiffInv
<1>2. CASE UNCHANGED <<commits, tip, merge>>
  BY <1>2 DEF DiffInv, Passed, MergedRows
<1> QED BY <1>1, <1>2

LEMMA StartMergeDiff ==
  ASSUME NamesInv, StartMerge
  PROVE  DiffInv'
<1> DEFINE base == Ancestor(tip.main, tip.f)
<1>1. /\ UNCHANGED <<commits, tip>> /\ merge'.base = base
      /\ merge'.left = Changed(commits[base].rows, commits[tip.main].rows)
      /\ merge'.right = Changed(commits[base].rows, commits[tip.f].rows)
      /\ merge'.edits = NoConflict /\ merge'.conf = NoConflict
  BY DEF StartMerge, NoMerge
<1> HIDE DEF base
<1>2. SUFFICES ASSUME NEW k \in Keys PROVE Passed(k)'
  BY DEF DiffInv
<1> DEFINE b == commits[base].rows[k]
           o == commits[tip.main].rows[k]
           t == commits[tip.f].rows[k]
<1>3. (k \in merge'.left <=> b # o) /\ (k \in merge'.right <=> b # t)
  BY <1>1 DEF Changed
<1>4. k \notin DOMAIN merge'.edits /\ k \notin DOMAIN merge'.conf
  BY <1>1, NoConflictIs
<1>5. MergedRows'[k] = o
  BY <1>1, <1>4 DEF MergedRows
<1>6. b = o /\ b = t => Joined(MergedRows'[k], b, o, t)
  BY <1>5 DEF Joined
<1> QED BY <1>1, <1>3, <1>4, <1>6 DEF Passed

LEMMA EmitDiff ==
  ASSUME NamesInv, DiffInv, NEW k \in Keys, EmitLeft(k) \/ EmitRight(k) \/ EmitBoth(k)
  PROVE  DiffInv'
<1> SUFFICES ASSUME merge'.running PROVE \A j \in Keys : Passed(j)'
  BY DEF DiffInv
<1> DEFINE B(j) == commits[merge.base].rows[j]
           O(j) == commits[tip.main].rows[j]
           T(j) == commits[tip.f].rows[j]
           edited(row) == /\ merge'.edits = Set(merge.edits, k, row)
                          /\ merge'.conf = merge.conf /\ row \in Row
           same == merge'.edits = merge.edits /\ merge'.conf = merge.conf
<1>1. /\ UNCHANGED <<commits, tip>> /\ merge'.base = merge.base /\ merge'.running = merge.running
      /\ merge'.left = merge.left \ {k} /\ merge'.right = merge.right \ {k}
      /\ k \in merge.left \cup merge.right
  BY EmitIs DEF Unmerged
<1>2. \/ k \notin merge.right /\ same
      \/ k \notin merge.left /\ edited(T(k))
      \/ k \in merge.left /\ k \in merge.right /\ O(k) = T(k) /\ same
      \/ /\ k \in merge.left /\ k \in merge.right /\ O(k) # T(k)
         /\ NoRow \in {B(k), O(k), T(k)} \/ CellsClash(B(k), O(k), T(k))
         /\ merge'.edits = merge.edits /\ merge'.conf = Set(merge.conf, k, T(k))
      \/ /\ k \in merge.left /\ k \in merge.right /\ O(k) # T(k)
         /\ NoRow \notin {B(k), O(k), T(k)} /\ ~CellsClash(B(k), O(k), T(k))
         /\ edited(CellMerge(B(k), O(k), T(k)))
  BY EmitIs
<1>3. merge.edits \in Partial(Row) /\ merge.conf \in Partial(Row) /\ merge.running
      /\ T(k) \in Row
  <2>1. merge.edits \in Partial(Row) /\ merge.conf \in Partial(Row)
    BY StatesAre DEF MergeType
  <2>2. T(k) \in Row
    BY StatesAre, CommitsAre, CleanIs
  <2> QED BY <1>1, <2>1, <2>2
<1>4. \A j \in Keys : Passed(j)
  BY <1>3 DEF DiffInv
<1> DEFINE put(f, g, row) == /\ DOMAIN g = DOMAIN f \cup {k} /\ g[k] = row
                             /\ \A j \in (DOMAIN f) \ {k} : g[j] = f[j]
<1>5. /\ \A row : edited(row) => put(merge.edits, merge'.edits, row)
      /\ merge'.conf = Set(merge.conf, k, T(k)) => put(merge.conf, merge'.conf, T(k))
  <2>1. ASSUME NEW f \in Partial(Row), NEW row \in Row PROVE put(f, Set(f, k, row), row)
    <3>1. /\ DOMAIN Set(f, k, row) = (DOMAIN f) \cup {k} /\ Set(f, k, row)[k] = row
          /\ \A j \in (DOMAIN f) \ {k} : Set(f, k, row)[j] = f[j]
      BY SetIs
    <3> QED BY <3>1
  <2> HIDE DEF put
  <2>2. ASSUME NEW row, edited(row) PROVE put(merge.edits, merge'.edits, row)
    BY <1>3, <2>1, <2>2
  <2>3. merge'.conf = Set(merge.conf, k, T(k)) => put(merge.conf, merge'.conf, T(k))
    BY <1>3, <2>1
  <2> QED BY <2>2, <2>3
<1> HIDE DEF put
<1>8. \/ same
      \/ merge'.conf = merge.conf /\ \E row : put(merge.edits, merge'.edits, row)
      \/ merge'.edits = merge.edits /\ put(merge.conf, merge'.conf, T(k))
  BY <1>2, <1>5
<1>6. ASSUME NEW j \in Keys \ {k} PROVE Passed(j)'
  <2>1. /\ j \in DOMAIN merge'.edits <=> j \in DOMAIN merge.edits
        /\ j \in DOMAIN merge.edits => merge'.edits[j] = merge.edits[j]
        /\ j \in DOMAIN merge'.conf <=> j \in DOMAIN merge.conf
        /\ j \in DOMAIN merge.conf => merge'.conf[j] = merge.conf[j]
    BY <1>8 DEF put
  <2>2. MergedRows'[j] = MergedRows[j]
    BY <1>1, <2>1, MergedRow DEF MergedRows
  <2>3. /\ j \in merge'.left <=> j \in merge.left
        /\ j \in merge'.right <=> j \in merge.right
    BY <1>1
  <2> QED BY <1>1, <1>4, <2>1, <2>2, <2>3 DEF Passed
<1>7. Passed(k)'
  <2>1. /\ k \in merge.left <=> B(k) # O(k)
        /\ k \in merge.right <=> B(k) # T(k)
        /\ k \notin DOMAIN merge.edits /\ k \notin DOMAIN merge.conf
    BY <1>1, <1>4 DEF Passed
  <2>2. k \notin merge'.left \cup merge'.right
    BY <1>1
  <2>3. MergedRows'[k] = IF k \in DOMAIN merge'.edits THEN merge'.edits[k] ELSE O(k)
    BY <1>1 DEF MergedRows
  <2>4. \/ k \in DOMAIN merge'.conf /\ k \notin DOMAIN merge'.edits /\ merge'.conf[k] = T(k)
           /\ Disputed(B(k), O(k), T(k))
        \/ k \notin DOMAIN merge'.conf /\ Joined(MergedRows'[k], B(k), O(k), T(k))
    <3>1. CASE k \notin merge.right /\ same
      BY <2>1, <2>3, <3>1 DEF Joined
    <3>2. CASE k \notin merge.left /\ edited(T(k))
      <4>1. k \in DOMAIN merge'.edits /\ merge'.edits[k] = T(k) /\ merge'.conf = merge.conf
        BY <1>5, <3>2 DEF put
      <4> QED BY <2>1, <2>3, <3>2, <4>1 DEF Joined
    <3>3. CASE k \in merge.left /\ k \in merge.right /\ O(k) = T(k) /\ same
      BY <2>1, <2>3, <3>3 DEF Joined
    <3>4. CASE /\ k \in merge.left /\ k \in merge.right /\ O(k) # T(k)
               /\ NoRow \in {B(k), O(k), T(k)} \/ CellsClash(B(k), O(k), T(k))
               /\ merge'.edits = merge.edits /\ merge'.conf = Set(merge.conf, k, T(k))
      <4>1. k \in DOMAIN merge'.conf /\ merge'.conf[k] = T(k)
        BY <1>5, <3>4 DEF put
      <4> QED BY <2>1, <3>4, <4>1 DEF Disputed
    <3>5. CASE /\ k \in merge.left /\ k \in merge.right /\ O(k) # T(k)
               /\ NoRow \notin {B(k), O(k), T(k)} /\ ~CellsClash(B(k), O(k), T(k))
               /\ edited(CellMerge(B(k), O(k), T(k)))
      <4>1. /\ k \in DOMAIN merge'.edits /\ merge'.conf = merge.conf
            /\ merge'.edits[k] = CellMerge(B(k), O(k), T(k))
        BY <1>5, <3>5 DEF put
      <4> QED BY <2>1, <2>3, <3>5, <4>1 DEF Joined
    <3> QED BY <1>2, <3>1, <3>2, <3>3, <3>4, <3>5
  <2> QED BY <1>1, <2>2, <2>4 DEF Passed
<1> QED BY <1>6, <1>7

\* What else happens while a merge runs ends it
LEMMA DiffKept == NamesInv /\ DiffInv /\ [Next]_vars => DiffInv'
<1> SUFFICES ASSUME NamesInv, DiffInv, [Next]_vars PROVE DiffInv'
  OBVIOUS
<1>1. CASE StartMerge
  BY <1>1, StartMergeDiff
<1>2. ASSUME NEW k \in Keys, EmitLeft(k) \/ EmitRight(k) \/ EmitBoth(k) PROVE DiffInv'
  BY <1>2, EmitDiff
<1>3. CASE UNCHANGED vars
  BY <1>3, QuietDiff DEF vars
<1>4. CASE Crash \/ MergeCommit \/ KeepConflicts \/ UndoMerge
  <2>1. ~merge'.running
    BY <1>4, StatesAre, NoMergeIs DEF Crash, MergeCommit, KeepConflicts, UndoMerge
  <2> QED BY <2>1, QuietDiff
<1>5. CASE \/ Begin \/ Commit \/ Leave \/ Read \/ FastForward \/ ResolveOurs \/ ResolveTheirs
           \/ DoltCommit \/ RefuseCommit \/ Abort \/ CutAbort
  <2>1. Idle /\ merge' = merge
    BY <1>5 DEF Begin, Commit, Leave, Read, FastForward, ResolveOurs, ResolveTheirs, Resolve,
                DoltCommit, RefuseCommit, Abort, CutAbort
  <2> QED BY <2>1, QuietDiff DEF Idle
<1>6. ASSUME NEW k \in Keys,
             DropConflict(k) \/ \E row \in Updates : Update(k, row) \/ CommitToF(k, row)
      PROVE  DiffInv'
  <2>1. Idle /\ merge' = merge
    BY <1>6 DEF DropConflict, Update, CommitToF
  <2> QED BY <2>1, QuietDiff DEF Idle
<1> QED BY <1>1, <1>2, <1>3, <1>4, <1>5, <1>6 DEF Next

LEMMA DiffHolds == Spec => [](NamesInv /\ DiffInv)
<1>1. Init => DiffInv
  BY InitIs, NoMergeIs DEF DiffInv
<1> QED BY <1>1, InitNames, NamesKept, DiffKept, PTL DEF Spec

\* Every row that prollyThreeWayDiff has passed has what each side changed of
\* it, and is in conflict exactly when no row has both (rowMergeCallback,
\* tryCellMerge), for any three tables.
THEOREM RowsMerged == Spec => []MergesBoth
<1>1. NamesInv /\ DiffInv => MergesBoth
  <2> SUFFICES ASSUME NamesInv, DiffInv, merge.running,
                      NEW k \in Keys \ (merge.left \cup merge.right)
               PROVE  LET b == commits[merge.base].rows[k]
                          o == commits[tip.main].rows[k]
                          t == commits[tip.f].rows[k]
                      IN IF k \in DOMAIN merge.conf
                         THEN /\ MergedRows[k] = o /\ merge.conf[k] = t
                              /\ ~\E m \in Row : Has(m, b, o, t)
                         ELSE Has(MergedRows[k], b, o, t)
    BY DEF MergesBoth
  <2> DEFINE b == commits[merge.base].rows[k]
             o == commits[tip.main].rows[k]
             t == commits[tip.f].rows[k]
  <2>1. b \in Row /\ o \in Row /\ t \in Row
    BY StatesAre, CommitsAre, CleanIs
  <2>2. Passed(k)
    BY DEF DiffInv
  <2>3. CASE k \in DOMAIN merge.conf
    <3>1. k \notin DOMAIN merge.edits /\ merge.conf[k] = t /\ Disputed(b, o, t)
      BY <2>2, <2>3 DEF Passed
    <3>2. MergedRows[k] = o
      BY <3>1, MergedRow
    <3>3. ~\E m \in Row : Has(m, b, o, t)
      BY <2>1, <3>1, DisputedHasNone
    <3> QED BY <2>3, <3>1, <3>2, <3>3
  <2>4. CASE k \notin DOMAIN merge.conf
    <3>1. Joined(MergedRows[k], b, o, t)
      BY <2>2, <2>4 DEF Passed
    <3>2. Has(MergedRows[k], b, o, t)
      BY <2>1, <3>1, JoinedHas
    <3> QED BY <2>4, <3>2
  <2> QED BY <2>3, <2>4
<1> QED BY <1>1, DiffHolds, PTL

-----------------------------------------------------------------------------
(* The index.                                                              *)

\* Merging the index of a table is what the merged rows say, row by row
LEMMA MergedAgrees ==
  ASSUME NamesInv, DiffInv, Diffed, merge.conf = NoConflict,
         \A c \in DOMAIN commits : Agrees(commits[c]),
         NEW i \in Columns, Indexed \subseteq {i}
  PROVE  MergedIndex = Entries(MergedRows)
<1> DEFINE base == commits[merge.base]
           ours == commits[tip.main]
           theirs == commits[tip.f]
<1>1. /\ base.rows \in Table /\ ours.rows \in Table /\ theirs.rows \in Table
      /\ base.index = Entries(base.rows) /\ ours.index = Entries(ours.rows)
      /\ theirs.index = Entries(theirs.rows) /\ MergedRows \in Table
  BY StatesAre, CommitsAre, CleanIs, MergedIs DEF Agrees
<1>2. ASSUME NEW k \in Keys
      PROVE  Entry(k, MergedRows[k])
               = (Entry(k, ours.rows[k]) \cup (Entry(k, theirs.rows[k]) \ Entry(k, base.rows[k])))
                   \ (Entry(k, base.rows[k]) \ Entry(k, theirs.rows[k]))
  <2>1. merge.running /\ k \notin merge.left \cup merge.right /\ k \notin DOMAIN merge.conf
    BY NoConflictIs DEF Diffed
  <2>2. Joined(MergedRows[k], base.rows[k], ours.rows[k], theirs.rows[k])
    BY <2>1 DEF DiffInv, Passed
  <2>3. base.rows[k] \in Row /\ ours.rows[k] \in Row /\ theirs.rows[k] \in Row
    BY <1>1 DEF Table
  <2> QED BY <2>2, <2>3, JoinedEntry
<1>3. MergedIndex = (ours.index \cup (theirs.index \ base.index)) \ (base.index \ theirs.index)
  BY DEF MergedIndex
<1> HIDE DEF base, ours, theirs
<1>4. \A x : x \in MergedIndex <=> x \in Entries(MergedRows)
  <2> TAKE x
  <2>1. \A rows \in Table : x \in Entries(rows) <=> /\ x \in [Indexed -> Cells] \X Keys
                                                    /\ x \in Entry(x[2], rows[x[2]])
    BY EntriesAre
  <2>2. CASE x \in [Indexed -> Cells] \X Keys
    <3>1. x[2] \in Keys
      BY <2>2
    <3> QED BY <1>1, <1>2, <1>3, <2>1, <2>2, <3>1
  <2>3. CASE x \notin [Indexed -> Cells] \X Keys
    BY <1>1, <1>3, <2>1, <2>3
  <2> QED BY <2>2, <2>3
<1> QED BY <1>4

\* Steps that write states and commits whose index is as their rows say
LEMMA IndexStep ==
  ASSUME IndexInv, spoiled' = spoiled,
         ~spoiled => /\ \A w \in {sess', disk', committed'} :
                          w \in {sess, disk, committed} \/ (Agrees(w) /\ w.conf = NoConflict)
                     /\ \A c \in DOMAIN commits' :
                          \/ c \in DOMAIN commits /\ commits'[c] = commits[c]
                          \/ Agrees(commits'[c])
  PROVE  IndexInv'
<1> SUFFICES ASSUME ~spoiled
             PROVE  /\ Agrees(sess)' /\ sess'.conf = NoConflict
                    /\ Agrees(disk)' /\ disk'.conf = NoConflict
                    /\ Agrees(committed)' /\ committed'.conf = NoConflict
                    /\ \A c \in DOMAIN commits' : Agrees(commits'[c])
  BY DEF IndexInv, Agrees
<1> QED BY DEF IndexInv, Agrees

\* Steps that move main on, to a state and a commit that agree
LEMMA IndexAdvanced ==
  ASSUME IndexInv, spoiled' = spoiled, NEW c, NEW work, NEW to, Advanced(c, work, to),
         ~spoiled => Agrees(work) /\ work.conf = NoConflict,
         ~spoiled => \A d \in DOMAIN commits' :
                       \/ d \in DOMAIN commits /\ commits'[d] = commits[d]
                       \/ Agrees(commits'[d])
  PROVE  IndexInv'
<1>1. sess' = work /\ disk' = work /\ committed' \in {committed, work}
  BY DEF Advanced
<1> QED BY <1>1, IndexStep

LEMMA IndexKept ==
  ASSUME NamesInv, DiffInv, IndexInv, [Next]_vars, NEW i \in Columns, Indexed \subseteq {i}
  PROVE  IndexInv'
<1>1. CASE Begin \/ StartMerge \/ UNCHANGED vars
  <2>1. UNCHANGED <<commits, sess, disk, committed, spoiled>>
    BY <1>1 DEF Begin, StartMerge, vars
  <2> QED BY <2>1, IndexStep
<1>2. CASE Commit \/ Leave \/ Crash \/ Read \/ UndoMerge \/ RefuseCommit
  <2>1. UNCHANGED <<commits, spoiled>>
    BY <1>2 DEF Commit, Leave, Crash, Read, UndoMerge, RefuseCommit
  <2>2. PICK w \in {sess, disk, committed} : AllIs(w)
    BY <1>2 DEF Commit, Leave, Crash, Read, UndoMerge, RefuseCommit, Ended
  <2> QED BY <2>1, <2>2, IndexStep DEF AllIs
<1>3. CASE ResolveOurs \/ ResolveTheirs
  <2>1. sess.conf # NoConflict /\ spoiled' = spoiled
    BY <1>3 DEF ResolveOurs, ResolveTheirs, Resolve
  <2> QED BY <2>1 DEF IndexInv
<1>4. CASE KeepConflicts
  BY <1>4 DEF KeepConflicts, IndexInv
<1>5. CASE FastForward
  <2>1. PICK work \in WorkType :
          /\ Advanced(tip.f, work, tx) /\ UNCHANGED <<commits, spoiled>>
          /\ work.rows = commits[tip.f].rows /\ work.index = commits[tip.f].index
          /\ work.conf = sess.conf
    BY <1>5, FastForwardIs
  <2>2. ~spoiled => Agrees(work) /\ work.conf = NoConflict
    BY <2>1, StatesAre, CommitsAre DEF IndexInv, Agrees
  <2> QED BY <2>1, <2>2, IndexAdvanced
<1>6. CASE MergeCommit
  <2>1. PICK x \in CommitType, work \in WorkType :
          /\ x.parents = {tip.main, tip.f} /\ x.rows = MergedRows /\ x.index = MergedIndex
          /\ commits' = Append(commits, x)
          /\ work.rows = MergedRows /\ work.index = MergedIndex /\ work.conf = sess.conf
          /\ Advanced(Len(commits'), work, IF Explicit THEN "plain" ELSE "none")
          /\ Diffed /\ merge.conf = NoConflict /\ spoiled' = spoiled
    BY <1>6, MergeCommitIs
  <2>2. /\ \A c \in DOMAIN commits : commits'[c] = commits[c]
        /\ DOMAIN commits' = DOMAIN commits \cup {Len(commits')} /\ commits'[Len(commits')] = x
    BY <2>1, StatesAre, CommitsAre, NewMain DEF Advanced
  <2>3. ~spoiled => MergedIndex = Entries(MergedRows)
    BY <2>1, MergedAgrees DEF IndexInv
  <2>4. ~spoiled => Agrees(work) /\ work.conf = NoConflict /\ Agrees(x)
    BY <2>1, <2>3 DEF IndexInv, Agrees
  <2> QED BY <2>1, <2>2, <2>4, IndexAdvanced
<1>7. CASE DoltCommit
  <2>1. PICK x \in CommitType, work \in WorkType :
          /\ x.parents = {tip.main} /\ x.rows = Ended.rows /\ x.index = Ended.index
          /\ commits' = Append(commits, x) /\ Advanced(Len(commits'), work, "none")
          /\ work.rows = Ended.rows /\ work.index = Ended.index /\ work.conf = Ended.conf
          /\ Ended.conf = NoConflict /\ spoiled' = spoiled
    BY <1>7, DoltCommitIs
  <2>2. /\ \A c \in DOMAIN commits : commits'[c] = commits[c]
        /\ DOMAIN commits' = DOMAIN commits \cup {Len(commits')} /\ commits'[Len(commits')] = x
    BY <2>1, StatesAre, CommitsAre, NewMain DEF Advanced
  <2>3. ~spoiled => Agrees(Ended)
    BY DEF IndexInv, Ended
  <2>4. ~spoiled => Agrees(work) /\ work.conf = NoConflict /\ Agrees(x)
    BY <2>1, <2>3 DEF Agrees
  <2> QED BY <2>1, <2>2, <2>4, IndexAdvanced
<1>8. CASE Abort \/ CutAbort
  <2>1. /\ UNCHANGED <<commits, spoiled>> /\ disk' = sess' /\ committed' \in {committed, sess'}
        /\ sess'.rows = commits[tip.main].rows /\ sess'.index = commits[tip.main].index
        /\ sess'.conf \in {NoConflict, sess.conf}
    BY <1>8, AbortIs
  <2>2. ~spoiled => Agrees(sess') /\ sess'.conf = NoConflict
    BY <2>1, StatesAre, CommitsAre DEF IndexInv, Agrees
  <2> QED BY <2>1, <2>2, IndexStep
<1>9. ASSUME NEW k \in Keys PROVE EmitLeft(k) \/ EmitRight(k) \/ EmitBoth(k) => IndexInv'
  <2>1. EmitLeft(k) \/ EmitRight(k) \/ EmitBoth(k)
          => UNCHANGED <<commits, sess, disk, committed, spoiled>>
    BY DEF EmitLeft, EmitRight, EmitBoth, Unmerged
  <2> QED BY <2>1, IndexStep
<1>10. ASSUME NEW k \in Keys, DropConflict(k) PROVE IndexInv'
  <2>1. sess.conf # NoConflict /\ spoiled' = spoiled
    BY <1>10, DropConflictIs
  <2> QED BY <2>1 DEF IndexInv
<1>11. ASSUME NEW k \in Keys, NEW row \in Updates, Update(k, row) PROVE IndexInv'
  <2>1. row \in Row
    BY MergeAssumption
  <2>2. PICK work \in WorkType, w \in ToldType :
          /\ Write(work) /\ Believe(w) /\ UNCHANGED <<commits, tip, merge, spoiled>>
          /\ updates' \in 0..MaxUpdates
          /\ work.rows = [sess.rows EXCEPT ![k] = row]
          /\ work.index = (sess.index \ Entry(k, sess.rows[k])) \cup Entry(k, row)
          /\ work.conf = sess.conf
          /\ w.rows = [want.rows EXCEPT ![k] = row] /\ w.conf = want.conf
    BY <1>11, <2>1, UpdateIs
  <2>3. sess.rows \in Table
    BY StatesAre DEF WorkType
  <2>4. Entries(work.rows) = (Entries(sess.rows) \ Entry(k, sess.rows[k])) \cup Entry(k, row)
    BY <2>1, <2>2, <2>3, EntriesOfUpdate
  <2>5. ~spoiled => Agrees(work) /\ work.conf = NoConflict
    BY <2>2, <2>4 DEF IndexInv, Agrees
  <2>6. sess' = work /\ disk' \in {disk, work} /\ committed' \in {committed, work}
    BY <2>2, WriteIs
  <2> QED BY <2>2, <2>5, <2>6, IndexStep
<1>12. ASSUME NEW k \in Keys, NEW row \in Updates, CommitToF(k, row) PROVE IndexInv'
  <2>1. row \in Row
    BY MergeAssumption
  <2>2. UNCHANGED <<sess, disk, committed, spoiled>>
    BY <1>12, <2>1, CommitToFIs
  <2>3. /\ DOMAIN commits' = DOMAIN commits \cup {Len(commits')} /\ Agrees(commits'[Len(commits')])
        /\ \A c \in DOMAIN commits : commits'[c] = commits[c]
    BY <1>12, <2>1, CommitToFKeeps
  <2> QED BY <2>2, <2>3, IndexStep
<1> QED BY <1>1, <1>2, <1>3, <1>4, <1>5, <1>6, <1>7, <1>8, <1>9, <1>10, <1>11, <1>12 DEF Next

\* Until a merge with conflicts is kept, the index of the table is what its
\* rows say, although it is merged as a tree of its own (mergeCatalogPass1),
\* if it is of one column at most.
THEOREM IndexOfOneColumn == (\E i \in Columns : Indexed \subseteq {i}) => (Spec => []IndexAgrees)
<1> SUFFICES ASSUME \E i \in Columns : Indexed \subseteq {i} PROVE Spec => []IndexAgrees
  OBVIOUS
<1>1. Init => IndexInv
  <2> SUFFICES ASSUME Init PROVE IndexInv
    OBVIOUS
  <2>1. Agrees(sess) /\ sess.conf = NoConflict
    BY InitIs, CleanIs DEF Agrees
  <2> QED BY <2>1, InitIs DEF IndexInv
<1>2. NamesInv /\ DiffInv /\ IndexInv /\ [Next]_vars => IndexInv'
  BY IndexKept
<1>3. NamesInv /\ IndexInv => IndexAgrees
  BY StatesAre, CommitsAre DEF IndexInv, IndexAgrees, Agrees
<1> QED BY <1>1, <1>2, <1>3, DiffHolds, PTL DEF Spec

-----------------------------------------------------------------------------
(* What users were told.                                                   *)

\* Steps that leave the commits and the tips: what has to hold of the rest
LEMMA ToldStep ==
  ASSUME NamesInv, ToldInv, UNCHANGED <<commits, tip>>,
         merge'.running => tip.f \notin Past(tip.main),
         Same(sess', want'), Same(disk', saved'.work),
         tx' # "plain" => disk' = sess',
         tx' \in {"none", "open"} => committed' = sess',
         tx' # "left" /\ saved'.tip = tip.main => Same(committed', saved'.work),
         saved'.tip \in Past(tip.main)
  PROVE  ToldInv'
<1>1. \A c : Past(c)' = Past(c)
  BY DEF Past
<1> QED BY <1>1 DEF ToldInv, Same

LEMMA AllTold ==
  ASSUME NamesInv, ToldInv, UNCHANGED <<commits, tip>>, merge' = merge \/ merge' = NoMerge,
         NEW work, AllIs(work), Same(work, want'), Same(work, saved'.work),
         saved'.tip \in {saved.tip, tip.main}
  PROVE  ToldInv'
<1>1. saved'.tip \in Past(tip.main)
  BY StatesAre, CommitsAre, PastIs DEF ToldInv
<1>2. merge'.running => tip.f \notin Past(tip.main)
  BY StatesAre, NoMergeIs DEF ToldInv
<1>3. sess' = work /\ disk' = work /\ committed' = work /\ tx' = "none"
  BY DEF AllIs
<1> QED BY <1>1, <1>2, <1>3, ToldStep

LEMMA WriteTold ==
  ASSUME NamesInv, ToldInv, UNCHANGED <<commits, tip>>, merge' = merge \/ merge' = NoMerge,
         NEW work, Write(work), Same(work, want'),
         Explicit => saved' = saved,
         ~Explicit => saved'.work = want' /\ saved'.tip = tip.main
  PROVE  ToldInv'
<1>1. CASE Explicit
  <2>1. sess' = work /\ tx' = "plain" /\ disk' = disk /\ committed' = committed /\ saved' = saved
    BY <1>1 DEF Write
  <2>2. merge'.running => tip.f \notin Past(tip.main)
    BY StatesAre, NoMergeIs DEF ToldInv
  <2>3. tx # "left"
    BY <1>1 DEF Explicit
  <2> QED BY <2>1, <2>2, <2>3, ToldStep DEF ToldInv
<1>2. CASE ~Explicit
  BY <1>2, AllTold DEF Write
<1> QED BY <1>1, <1>2

\* Steps that end the transaction
LEMMA EndTold ==
  ASSUME NamesInv, ToldInv, Habits = {},
         Commit \/ Leave \/ Read \/ Crash \/ RefuseCommit \/ UndoMerge
  PROVE  ToldInv'
<1>1. Same(sess, want) /\ Same(disk, saved.work) /\ (tx # "plain" => disk = sess)
  BY DEF ToldInv
<1>2. saved = [work |-> saved.work, tip |-> saved.tip]
  BY StatesAre
<1>3. CASE Commit \/ RefuseCommit
  <2>1. /\ UNCHANGED <<commits, tip, merge, want>> /\ AllIs(sess)
        /\ saved' = [work |-> want, tip |-> tip.main]
    BY <1>3 DEF Commit, RefuseCommit, Ended, Settled, May
  <2> QED BY <1>1, <2>1, AllTold
<1>4. CASE Leave
  <2>1. /\ UNCHANGED <<commits, tip, merge>> /\ AllIs(committed) /\ want' = saved.work
        /\ saved' = [saved EXCEPT !.tip = tip.main] /\ tx # "left" /\ saved.tip = tip.main
    BY <1>4 DEF Leave, Settled, May
  <2>2. Same(committed, saved.work) /\ saved'.work = saved.work /\ saved'.tip = tip.main
    BY <1>2, <2>1 DEF ToldInv
  <2> QED BY <2>1, <2>2, AllTold
<1>5. CASE Crash
  <2>1. /\ UNCHANGED <<commits, tip>> /\ merge' = NoMerge /\ AllIs(disk) /\ want' = saved.work
        /\ saved' = [saved EXCEPT !.tip = tip.main]
    BY <1>5 DEF Crash
  <2>2. saved'.work = saved.work /\ saved'.tip = tip.main
    BY <1>2, <2>1
  <2> QED BY <1>1, <2>1, <2>2, AllTold
<1>6. CASE Read \/ UndoMerge
  <2>1. /\ UNCHANGED <<commits, tip, want, saved>> /\ (merge' = merge \/ merge' = NoMerge)
        /\ AllIs(sess) /\ tx # "plain"
    BY <1>6 DEF Read, UndoMerge, Explicit
  <2> QED BY <1>1, <2>1, AllTold
<1> QED BY <1>3, <1>4, <1>5, <1>6

\* Statements that write
LEMMA WritesTold ==
  ASSUME NamesInv, ToldInv, NEW k \in Keys, NEW row \in Row, Update(k, row) \/ DropConflict(k)
  PROVE  ToldInv'
<1>1. /\ sess \in WorkType /\ sess.rows = want.rows /\ sess.conf = want.conf
  BY StatesAre DEF ToldInv, Same
<1>2. \E work \in WorkType, w \in ToldType :
        /\ Write(work) /\ Believe(w) /\ UNCHANGED <<commits, tip, merge>>
        /\ work.rows = w.rows /\ work.conf = w.conf
  <2>1. CASE Update(k, row)
    <3>1. PICK work \in WorkType, w \in ToldType :
            /\ Write(work) /\ Believe(w) /\ UNCHANGED <<commits, tip, merge, spoiled>>
            /\ updates' \in 0..MaxUpdates
            /\ work.rows = [sess.rows EXCEPT ![k] = row]
            /\ work.index = (sess.index \ Entry(k, sess.rows[k])) \cup Entry(k, row)
            /\ work.conf = sess.conf
            /\ w.rows = [want.rows EXCEPT ![k] = row] /\ w.conf = want.conf
      BY <2>1, UpdateIs
    <3> QED BY <1>1, <3>1
  <2>2. CASE DropConflict(k)
    BY <1>1, <2>2, DropConflictIs
  <2> QED BY <2>1, <2>2
<1>3. PICK work \in WorkType, w \in ToldType :
        /\ Write(work) /\ Believe(w) /\ UNCHANGED <<commits, tip, merge>>
        /\ work.rows = w.rows /\ work.conf = w.conf
  BY <1>2
<1>4. /\ want' = w /\ Same(work, want')
      /\ Explicit => saved' = saved
      /\ ~Explicit => saved'.work = want' /\ saved'.tip = tip.main
  BY <1>3, BelieveIs DEF Same
<1> QED BY <1>3, <1>4, WriteTold

LEMMA ResolveTold ==
  ASSUME NamesInv, ToldInv, ResolveOurs \/ ResolveTheirs
  PROVE  ToldInv'
<1>1. /\ UNCHANGED <<commits, tip, committed, merge, updates, spoiled>>
      /\ sess' \in WorkType /\ Believe(Told(sess')) /\ Idle
      /\ IF Explicit THEN tx' = "plain" /\ disk' = disk ELSE tx' = "left" /\ disk' = sess'
  BY ResolveIs DEF ResolveOurs, ResolveTheirs, Resolve
<1>2. PICK w \in ToldType : w = Told(sess') /\ Same(sess', w)
  BY <1>1, ToldIs
<1>3. /\ want' = w
      /\ Explicit => saved' = saved
      /\ ~Explicit => saved'.work = w /\ saved'.tip = tip.main
  BY <1>1, <1>2, BelieveIs
<1>4. ~merge'.running
  BY <1>1 DEF Idle
<1>5. tip.main \in Past(tip.main)
  BY StatesAre, CommitsAre, PastIs
<1>6. CASE Explicit
  <2>1. tx # "left" /\ tx' = "plain" /\ disk' = disk /\ saved' = saved
    BY <1>1, <1>3, <1>6 DEF Explicit
  <2> QED BY <1>1, <1>2, <1>3, <1>4, <2>1, ToldStep DEF ToldInv
<1>7. CASE ~Explicit
  <2>1. tx' = "left" /\ disk' = sess' /\ saved'.work = w /\ saved'.tip = tip.main
    BY <1>1, <1>3, <1>7
  <2> QED BY <1>1, <1>2, <1>3, <1>4, <1>5, <2>1, ToldStep
<1> QED BY <1>6, <1>7

LEMMA AbortTold ==
  ASSUME NamesInv, ToldInv, Habits = {}, Abort \/ CutAbort
  PROVE  ToldInv'
<1>1. /\ UNCHANGED <<commits, tip, merge, updates, spoiled>>
      /\ sess' \in WorkType /\ disk' = sess' /\ want' = Told(sess') /\ Idle
      /\ saved'.work = want'
      /\ \/ /\ Abort /\ sess' = Clean(tip.main) /\ saved'.tip = saved.tip
            /\ committed' = (IF tx = "plain" THEN committed ELSE sess') /\ tx' = tx
         \/ committed' = sess' /\ tx' = "none" /\ saved'.tip = tip.main
  BY AbortIs
<1>2. committed' = sess'
  <2>1. CASE Abort /\ sess' = Clean(tip.main)
             /\ committed' = (IF tx = "plain" THEN committed ELSE sess')
    <3>1. tx = "plain" => committed = Clean(tip.main)
      BY <2>1 DEF Abort, May
    <3> QED BY <2>1, <3>1
  <2> QED BY <1>1, <2>1
<1>3. Same(sess', want') /\ ~merge'.running
  BY <1>1, ToldIs DEF Idle
<1>4. saved'.tip \in Past(tip.main)
  BY <1>1, StatesAre, CommitsAre, PastIs DEF ToldInv
<1> QED BY <1>1, <1>2, <1>3, <1>4, ToldStep

\* Steps that move main on
LEMMA AdvancedTold ==
  ASSUME NamesInv, ToldInv, NEW c, NEW work, NEW to, Advanced(c, work, to), tip'.main = c,
         Same(work, want'), saved'.work = want',
         to = "plain" => saved'.tip # c, to # "left",
         saved'.tip \in Past(c)', ~merge'.running
  PROVE  ToldInv'
<1>1. /\ sess' = work /\ disk' = work /\ tx' = to
      /\ committed' = IF to = "plain" THEN committed ELSE work
  BY DEF Advanced
<1>2. saved'.tip \in Past(tip.main)'
  <2>1. \A d : d = tip'.main => Past(d)' = Past(tip.main)'
    BY DEF Past
  <2> QED BY <2>1
<1> QED BY <1>1, <1>2 DEF ToldInv, Same

LEMMA FastForwardTold ==
  ASSUME NamesInv, ToldInv, Habits = {}, FastForward
  PROVE  ToldInv'
<1>1. PICK work \in WorkType :
        /\ Advanced(tip.f, work, tx) /\ UNCHANGED <<commits, merge, updates, spoiled>>
        /\ work.rows = commits[tip.f].rows /\ work.index = commits[tip.f].index
        /\ work.conf = sess.conf
        /\ want' \in ToldType /\ want'.rows = commits[tip.f].rows /\ want'.conf = want.conf
        /\ saved' = [work |-> want', tip |-> saved'.tip]
        /\ saved'.tip = IF tx = "plain" THEN saved.tip ELSE tip.f
        /\ tip.main \in Past(tip.f) /\ tip.f \notin Past(tip.main) /\ Idle
        /\ tx # "left" \/ May(HurryOn)
  BY FastForwardIs
<1>2. PICK c : c = tip.f
  OBVIOUS
<1>3. c \in Past(c) /\ Past(tip.main) \subseteq Past(c)
  BY <1>1, <1>2, StatesAre, CommitsAre, PastIs
<1>4. Past(c)' = Past(c)
  BY <1>1 DEF Past
<1>5. tip'.main = c
  BY <1>1, <1>2, StatesAre DEF Advanced, HistoryInv
<1>6. tx # "left" /\ ~merge'.running
  BY <1>1 DEF May, Idle
<1>7. saved.tip \in Past(tip.main) /\ saved.tip # c
  BY <1>1, <1>2 DEF ToldInv
<1>8. Same(work, want') /\ saved'.work = want'
  BY <1>1 DEF ToldInv, Same
<1>9. saved'.tip \in Past(c)' /\ (tx = "plain" => saved'.tip # c)
  BY <1>1, <1>2, <1>3, <1>4, <1>7
<1> QED BY <1>1, <1>2, <1>5, <1>6, <1>8, <1>9, AdvancedTold

LEMMA MergeCommitTold ==
  ASSUME NamesInv, ToldInv, MergeCommit
  PROVE  ToldInv'
<1>1. PICK x \in CommitType, work \in WorkType :
        /\ x.parents = {tip.main, tip.f} /\ commits' = Append(commits, x)
        /\ work.rows = MergedRows /\ work.conf = sess.conf
        /\ Advanced(Len(commits'), work, IF Explicit THEN "plain" ELSE "none")
        /\ want' \in ToldType /\ want'.rows = MergedRows /\ want'.conf = want.conf
        /\ saved' = [work |-> want', tip |-> saved'.tip]
        /\ saved'.tip = IF Explicit THEN saved.tip ELSE Len(commits')
        /\ merge' = NoMerge
  BY MergeCommitIs
<1>2. PICK c : c = Len(commits')
  OBVIOUS
<1>3. /\ Len(commits') \notin DOMAIN commits /\ tip'.main = Len(commits')
      /\ \A n : n = Len(commits') => {n} \cup Past(tip.main) \subseteq Past(n)'
  BY <1>1, StatesAre, CommitsAre, NewMain DEF Advanced
<1>4. {c} \cup Past(tip.main) \subseteq Past(c)' /\ tip'.main = c
  BY <1>2, <1>3
<1>5. saved.tip \in Past(tip.main) /\ saved.tip # c
  BY <1>2, <1>3, StatesAre DEF ToldInv
<1>6. Same(work, want') /\ saved'.work = want' /\ ~merge'.running
  BY <1>1, StatesAre, NoMergeIs DEF ToldInv, Same
<1>7. PICK to : to = IF Explicit THEN "plain" ELSE "none"
  OBVIOUS
<1>8. /\ Advanced(c, work, to) /\ to # "left" /\ saved'.tip \in Past(c)'
      /\ to = "plain" => saved'.tip # c
  BY <1>1, <1>2, <1>4, <1>5, <1>7
<1> QED BY <1>4, <1>6, <1>8, AdvancedTold

LEMMA DoltCommitTold ==
  ASSUME NamesInv, ToldInv, Habits = {}, DoltCommit
  PROVE  ToldInv'
<1>1. PICK x \in CommitType, work \in WorkType :
        /\ x.parents = {tip.main} /\ x.rows = Ended.rows /\ x.index = Ended.index
        /\ commits' = Append(commits, x) /\ Advanced(Len(commits'), work, "none")
        /\ work.rows = Ended.rows /\ work.index = Ended.index /\ work.conf = Ended.conf
        /\ Ended.conf = NoConflict
        /\ want' \in ToldType /\ want'.rows = want.rows /\ want'.conf = NoConflict
        /\ saved' = [work |-> want', tip |-> Len(commits')] /\ saved'.tip = Len(commits')
        /\ Idle /\ UNCHANGED <<merge, updates, spoiled>> /\ (tx # "left" \/ May(HurryOn))
  BY DoltCommitIs
<1>2. PICK c : c = Len(commits')
  OBVIOUS
<1>3. /\ tip'.main = Len(commits')
      /\ \A n : n = Len(commits') => {n} \cup Past(tip.main) \subseteq Past(n)'
  BY <1>1, StatesAre, CommitsAre, NewMain DEF Advanced
<1>4. saved'.tip \in Past(c)' /\ tip'.main = c
  BY <1>1, <1>2, <1>3
<1>5. Ended = sess /\ ~merge'.running
  BY <1>1 DEF Ended, May, Idle
<1>6. Same(work, want') /\ saved'.work = want'
  BY <1>1, <1>5 DEF ToldInv, Same
<1>7. Advanced(c, work, "none")
  BY <1>1, <1>2
<1> QED BY <1>4, <1>5, <1>6, <1>7, AdvancedTold

LEMMA CommitToFTold ==
  ASSUME NamesInv, ToldInv, NEW k \in Keys, NEW row \in Row, CommitToF(k, row)
  PROVE  ToldInv'
<1>1. UNCHANGED <<sess, disk, committed, tx, merge, updates, want, saved, spoiled>> /\ Idle
  BY CommitToFIs
<1>2. PICK c : c = tip.main
  OBVIOUS
<1>3. Past(c)' = Past(c) /\ tip'.main = c
  BY <1>2, CommitToFKeeps, StatesAre, CommitsAre
<1>4. Past(tip.main)' = Past(tip.main) /\ ~merge'.running
  <2>1. Past(tip.main)' = Past(c)'
    BY <1>3 DEF Past
  <2> QED BY <1>1, <1>2, <1>3, <2>1 DEF Idle
<1>5. tip'.main = tip.main
  BY <1>2, <1>3
<1> QED BY <1>1, <1>4, <1>5 DEF ToldInv, Same

LEMMA ToldKept ==
  ASSUME NamesInv, ToldInv, Habits = {}, [Next]_vars
  PROVE  ToldInv'
<1>1. CASE Commit \/ Leave \/ Read \/ Crash \/ RefuseCommit \/ UndoMerge
  BY <1>1, EndTold
<1>2. CASE Begin
  <2>1. /\ UNCHANGED <<commits, tip, sess, disk, committed, merge, want, saved>>
        /\ tx = "none" /\ tx' = "open"
    BY <1>2, StatesAre DEF Begin, Explicit, Settled, May
  <2> QED BY <2>1, ToldStep DEF ToldInv
<1>3. CASE StartMerge
  <2>1. UNCHANGED <<commits, tip, sess, disk, committed, tx, want, saved>> /\ ~Merged
    BY <1>3 DEF StartMerge
  <2> QED BY <2>1, ToldStep DEF ToldInv, Merged
<1>4. ASSUME NEW k \in Keys, EmitLeft(k) \/ EmitRight(k) \/ EmitBoth(k) PROVE ToldInv'
  <2>1. /\ UNCHANGED <<commits, tip, sess, disk, committed, tx, want, saved>>
        /\ merge'.running = merge.running
    BY <1>4, EmitIs DEF Unmerged
  <2> QED BY <2>1, ToldStep DEF ToldInv
<1>5. CASE KeepConflicts
  <2>1. PICK work \in WorkType :
          /\ Write(work) /\ UNCHANGED <<commits, tip, updates, saved>> /\ Explicit /\ Diffed
          /\ want' = Told(work) /\ merge' = NoMerge /\ spoiled' = TRUE
    BY <1>5, KeepConflictsIs
  <2> QED BY <2>1, ToldIs, WriteTold
<1>6. CASE FastForward \/ MergeCommit \/ DoltCommit
  BY <1>6, FastForwardTold, MergeCommitTold, DoltCommitTold
<1>7. CASE ResolveOurs \/ ResolveTheirs
  BY <1>7, ResolveTold
<1>8. CASE Abort \/ CutAbort
  BY <1>8, AbortTold
<1>9. ASSUME NEW k \in Keys,
             DropConflict(k) \/ \E row \in Updates : Update(k, row) \/ CommitToF(k, row)
      PROVE  ToldInv'
  <2>1. Updates \subseteq Row /\ NoRow \in Row
    BY MergeAssumption DEF Row
  <2> QED BY <1>9, <2>1, WritesTold, CommitToFTold
<1>10. CASE UNCHANGED vars
  BY <1>10, ToldStep DEF vars, ToldInv
<1> QED BY <1>1, <1>2, <1>3, <1>4, <1>5, <1>6, <1>7, <1>8, <1>9, <1>10 DEF Next

LEMMA ToldHolds == Habits = {} => (Spec => [](NamesInv /\ ToldInv))
<1> SUFFICES ASSUME Habits = {} PROVE Spec => [](NamesInv /\ ToldInv)
  OBVIOUS
<1>1. Init => ToldInv
  <2> SUFFICES ASSUME Init PROVE ToldInv
    OBVIOUS
  <2>1. HistoryInv /\ tip.main \in DOMAIN commits /\ sess \in WorkType
    BY InitIs, CleanIs
  <2>2. tip.main \in Past(tip.main) /\ Same(sess, want) /\ ~merge.running
    BY <2>1, InitIs, PastIs, NoMergeIs, ToldIs
  <2>3. saved.tip = tip.main /\ saved.work = want
    BY InitIs
  <2> QED BY <2>2, <2>3, InitIs DEF ToldInv
<1>2. NamesInv /\ ToldInv /\ [Next]_vars => ToldInv'
  BY ToldKept
<1> QED BY <1>1, <1>2, InitNames, NamesKept, PTL DEF Spec

\* Users find the rows and the conflicts they were told of, through merges,
\* resolutions, aborts, commits, closes and crashes, unless they do one of the
\* three things dolt_conflicts_resolve, dolt_merge in a BEGIN and --abort do
\* not cope with.
THEOREM FoundAsTold == Habits = {} => (Spec => []AsTold)
<1> SUFFICES ASSUME Habits = {} PROVE Spec => []AsTold
  OBVIOUS
<1>1. NamesInv /\ ToldInv => AsTold
  BY StatesAre, SameTold DEF ToldInv, AsTold
<1>2. Spec => [](NamesInv /\ ToldInv)
  BY ToldHolds
<1> QED BY <1>1, <1>2, PTL

\* What makes a commit of main
LEMMA CommitsOfMain ==
  ASSUME NamesInv, [Next]_vars
  PROVE  MergeCommit \/ DoltCommit \/ tip'.main # Len(commits') \/ Len(commits') = Len(commits)
<1>1. CASE Begin \/ Commit \/ Leave \/ Crash \/ Read \/ FastForward \/ StartMerge \/ KeepConflicts
           \/ UndoMerge \/ ResolveOurs \/ ResolveTheirs \/ RefuseCommit \/ Abort \/ CutAbort
           \/ UNCHANGED vars
  <2>1. commits' = commits
    BY <1>1 DEF Begin, Commit, Leave, Crash, Read, FastForward, StartMerge, KeepConflicts, UndoMerge,
                ResolveOurs, ResolveTheirs, Resolve, RefuseCommit, Abort, CutAbort, vars
  <2> QED BY <2>1
<1>2. ASSUME NEW k \in Keys,
             \/ EmitLeft(k) \/ EmitRight(k) \/ EmitBoth(k) \/ DropConflict(k)
             \/ \E row \in Updates : Update(k, row)
      PROVE  Len(commits') = Len(commits)
  <2>1. commits' = commits
    BY <1>2 DEF EmitLeft, EmitRight, EmitBoth, Unmerged, DropConflict, Update
  <2> QED BY <2>1
<1>3. ASSUME NEW k \in Keys, NEW row \in Updates, CommitToF(k, row)
      PROVE  tip'.main # Len(commits')
  BY <1>3, MergeAssumption, CommitToFKeeps, StatesAre, CommitsAre
<1> QED BY <1>1, <1>2, <1>3 DEF Next

\* dolt_commit records the rows users were told of, and never while one of the
\* conflicts they know of is unresolved.
THEOREM CommittedAsTold == Habits = {} => (Spec => CommitsAsTold)
<1> SUFFICES ASSUME Habits = {} PROVE Spec => CommitsAsTold
  OBVIOUS
<1>1. NamesInv /\ ToldInv /\ [Next]_vars =>
        [ Len(commits') > Len(commits) /\ tip'.main = Len(commits')
          /\ commits'[tip'.main].parents = {tip.main}
          => want.conf = NoConflict /\ commits'[tip'.main].rows = want.rows ]_vars
  <2> SUFFICES ASSUME NamesInv, ToldInv, [Next]_vars, Len(commits') > Len(commits),
                      tip'.main = Len(commits'), commits'[tip'.main].parents = {tip.main}
               PROVE  want.conf = NoConflict /\ commits'[tip'.main].rows = want.rows
    OBVIOUS
  <2>1. MergeCommit \/ DoltCommit
    BY CommitsOfMain, StatesAre, CommitsAre
  <2>2. CASE MergeCommit
    <3>1. PICK x \in CommitType :
            x.parents = {tip.main, tip.f} /\ commits' = Append(commits, x) /\ Diffed
            /\ tip' = [tip EXCEPT !.main = Len(commits')]
      BY <2>2, MergeCommitIs DEF Advanced
    <3>2. commits'[Len(commits')] = x
      BY <3>1, StatesAre, CommitsAre, NewMain
    <3>3. tip.main \in Past(tip.main) /\ tip.f \notin Past(tip.main)
      BY <3>1, StatesAre, CommitsAre, PastIs DEF Diffed, ToldInv
    <3> QED BY <3>1, <3>2, <3>3
  <2>3. CASE DoltCommit
    <3>1. PICK x \in CommitType :
            /\ x.parents = {tip.main} /\ x.rows = Ended.rows /\ commits' = Append(commits, x)
            /\ tip' = [tip EXCEPT !.main = Len(commits')]
            /\ Ended.conf = NoConflict /\ (tx # "left" \/ May(HurryOn))
      BY <2>3, DoltCommitIs DEF Advanced
    <3>2. commits'[Len(commits')] = x
      BY <3>1, StatesAre, CommitsAre, NewMain
    <3>3. Ended = sess
      BY <3>1 DEF Ended, May
    <3> QED BY <3>1, <3>2, <3>3 DEF ToldInv, Same
  <2> QED BY <2>1, <2>2, <2>3
<1>2. Spec => [](NamesInv /\ ToldInv)
  BY ToldHolds
<1> QED BY <1>1, <1>2, PTL DEF Spec, CommitsAsTold
=============================================================================
