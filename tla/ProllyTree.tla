----------------------------- MODULE ProllyTree -----------------------------
(***************************************************************************)
(* The tree one table is stored in: how the chunker cuts rows into nodes,  *)
(* how a batch of edits is written without reading the nodes it leaves     *)
(* alone, how two trees are compared, and how dolt_merge merges three of   *)
(* them by splicing the nodes at most one side has changed.                *)
(*                                                                         *)
(* A node has a level and a sequence of items.  Its content address is the *)
(* node itself, so that two nodes have one address exactly when they are   *)
(* equal.  An item of a leaf, whose level is 0, is a row; an item of any   *)
(* other node has a child and the key of the last row under it.  A row has *)
(* one column, whose value is also its size; a content address has size 1. *)
(*                                                                         *)
(* Trees are read from the root down, and rows by key.                     *)
(***************************************************************************)
EXTENDS Naturals, FiniteSets, Sequences, SequencesExt, FiniteSetsExt

CONSTANTS MaxKey,     \* the keys are the numbers from 1 on
          KeySize,    \* the size of each key
          Depth,      \* PROLLY_CURSOR_MAX_DEPTH
          Vals,       \* a set of numbers: the values of a row
          MinSize,    \* PROLLY_CHUNK_MIN
          MaxSize,    \* PROLLY_CHUNK_MAX
          Hashes,     \* what the hash of a key may be, at the levels it is asked
          Bases,      \* the tables the ancestor starts with
          Batch       \* bound: the keys one batch writes, by version

Absent == 0
Keys == 1..MaxKey
Levels == 0..(Depth - 1)
Versions == {"anc", "ours", "theirs"}
Table == [Keys -> Vals \cup {Absent}]
NoRows == [k \in Keys |-> Absent]

ASSUME ProllyTreeAssumption ==
  /\ MaxKey \in Nat /\ Vals \subseteq Nat \ {Absent}
  /\ KeySize \in [Keys -> Nat] /\ Depth \in Nat \ {0}
  /\ MinSize \in Nat \ {0} /\ MaxSize \in Nat /\ MaxSize >= MinSize
  /\ Hashes \subseteq [Levels -> [Keys -> MinSize..MaxSize]]
  /\ Bases \subseteq Table /\ Batch \in [Versions -> Nat]

VARIABLES ends,      \* by level and key, the size from which the key ends a node
          tree,      \* the root of each version
          written,   \* history: the rows each version should have
          stage,     \* how far the branches are
          merged,    \* what dolt_merge made of them
          full       \* a write was refused: SQLITE_FULL

vars == <<ends, tree, written, stage, merged, full>>

Node(level, items) == [level |-> level, items |-> items]
Empty == Node(0, <<>>)
Failed == Node(Depth, <<>>)
Row(k, v) == [key |-> k, val |-> v]
LastKey(node) == Last(node.items).key

\* mutant: a node is known by its first key
UpFirst(node) == [key |-> node.items[1].key, child |-> node]
Up(node) == [key |-> LastKey(node), child |-> node]

Children(node) ==
  IF node.level = 0 THEN {} ELSE {node.items[i].child : i \in DOMAIN node.items}

NodesOf(root) ==
  LET down[d \in 0..root.level] ==
        IF d = 0 THEN {root} ELSE UNION {Children(n) : n \in down[d - 1]}
  IN UNION {down[d] : d \in 0..root.level}

ItemsOf(root) == UNION {Range(n.items) : n \in {m \in NodesOf(root) : m.level > 0}}
Rows(root) == UNION {Range(n.items) : n \in {m \in NodesOf(root) : m.level = 0}}

KeysOf(rows) == {r.key : r \in rows}
AsTable(rows) ==
  [k \in Keys |-> IF k \in KeysOf(rows) THEN (CHOOSE r \in rows : r.key = k).val ELSE Absent]
TableOf(root) == AsTable(Rows(root))

-----------------------------------------------------------------------------
(* The chunker: the items that are waiting, by level, and the item that no *)
(* level has taken yet.  A node cut at the last level has nowhere to go,   *)
(* and all that was added is given up.                                     *)

NoItems == [at |-> [l \in Levels |-> <<>>], up |-> <<>>]
Full(ch) == ch.up # <<>>

ItemSize(l, it) == KeySize[it.key] + (IF l = 0 THEN it.val ELSE 1)
Size(l, items) == FoldLeft(LAMBDA n, it : n + ItemSize(l, it), 0, items)
Splits(l, items) == Size(l, items) >= ends[l][Last(items).key]

\* the item waits at the level, unless it ends a node, which goes on
Take(ch, l) ==
  LET items == Append(ch.at[l], ch.up[1])
  IN IF ch.up = <<>> THEN ch
     ELSE IF Splits(l, items)
     THEN [at |-> [ch.at EXCEPT ![l] = <<>>], up |-> <<Up(Node(l, items))>>]
     ELSE [at |-> [ch.at EXCEPT ![l] = items], up |-> <<>>]

AddTo(ch, l, it) ==
  LET climb[m \in l..Depth] ==
        IF m = l THEN [ch EXCEPT !.up = <<it>>] ELSE Take(climb[m - 1], m - 1)
  IN IF Full(ch) THEN ch ELSE climb[Depth]

AddRow(ch, k, v) == IF v = Absent THEN ch ELSE AddTo(ch, 0, Row(k, v))

AddRows(ch, rows) ==
  LET add[k \in 0..MaxKey] == IF k = 0 THEN ch ELSE AddRow(add[k - 1], k, rows[k])
  IN add[MaxKey]

\* nothing waits below the level, so that a node can be added to it as it is
Aligned(ch, l) == \A below \in 0..(l - 1) : ch.at[below] = <<>>

Pending(ch, l) == \E above \in Levels : above > l /\ ch.at[above] # <<>>

\* what waits at the level becomes a node of the next one that is in use
Close(ch, l) ==
  IF ~Full(ch) /\ ch.at[l] # <<>> /\ Pending(ch, l)
  THEN AddTo([ch EXCEPT !.at[l] = <<>>], l + 1, Up(Node(l, ch.at[l])))
  ELSE ch

Finish(ch) ==
  LET closed[l \in 0..Depth] == IF l = 0 THEN ch ELSE Close(closed[l - 1], l - 1)
      end == closed[Depth]
      top == CHOOSE l \in Levels : end.at[l] # <<>>
  IN IF Full(end) THEN Failed
     ELSE IF end = NoItems THEN Empty
     ELSE Node(top, end.at[top])

Build(rows) == Finish(AddRows(NoItems, rows))

-----------------------------------------------------------------------------
(* Writing a batch of edits: by key, the new value or Absent.  The walk    *)
(* has come as far as the key st.done; what comes next are the nodes whose *)
(* rows are the ones from there on.                                        *)

Edited(rows, edits) == [k \in Keys |-> IF k \in DOMAIN edits THEN edits[k] ELSE rows[k]]

Left(edits, st) == {k \in DOMAIN edits : k > st.done}

Follows(root, done, node) ==
  KeysOf(Rows(node)) = {k \in KeysOf(Rows(root)) : done < k /\ k <= LastKey(node)}

\* the edits up to the leaf's last key, and after the last leaf all the rest
Here(root, leaf, edits, st) ==
  {k \in Left(edits, st) : k <= LastKey(leaf) \/ LastKey(leaf) = LastKey(root)}

Beyond(root, leaf) == IF LastKey(leaf) = LastKey(root) THEN MaxKey ELSE LastKey(leaf)

\* mutant: a leaf that was read is cut where it was cut before
MergeLeafCut(root, leaf, edits, st) ==
  LET here == Here(root, leaf, edits, st)
      ch == AddRows(st.ch, Edited(TableOf(leaf), [k \in here |-> edits[k]]))
  IN [ch |-> IF Full(ch) \/ ch.at[0] = <<>> THEN ch
             ELSE AddTo([ch EXCEPT !.at[0] = <<>>], 1, Up(Node(0, ch.at[0]))),
      done |-> Beyond(root, leaf)]

MergeLeaf(root, leaf, edits, st) ==
  LET here == Here(root, leaf, edits, st)
  IN [ch |-> AddRows(st.ch, Edited(TableOf(leaf), [k \in here |-> edits[k]])),
      done |-> Beyond(root, leaf)]

\* mutant: edits behind the last row are not led to the last leaf
UntouchedIfBefore(root, it, edits, st) ==
  (\A k \in Left(edits, st) : k > it.key) /\ Aligned(st.ch, it.child.level + 1)

\* no edit is for the child, and the chunker is aligned with it
Untouched(root, it, edits, st) ==
  /\ it.key = LastKey(root) => Left(edits, st) = {}
  /\ \A k \in Left(edits, st) : k > it.key
  /\ Aligned(st.ch, it.child.level + 1)

\* the highest untouched child that comes next is added as it is; if there
\* is none, the leaf that comes next is read
MergeNext(root, edits, st) ==
  LET whole == {it \in ItemsOf(root) : /\ Follows(root, st.done, it.child)
                                       /\ Untouched(root, it, edits, st)}
      it == CHOOSE i \in whole : \A j \in whole : j.child.level <= i.child.level
      leaves == {n \in NodesOf(root) : n.level = 0 /\ Follows(root, st.done, n)}
  IN IF Full(st.ch) \/ leaves = {} THEN st
     ELSE IF whole # {} THEN [ch |-> AddTo(st.ch, it.child.level + 1, it), done |-> it.key]
     ELSE MergeLeaf(root, CHOOSE leaf \in leaves : TRUE, edits, st)

Flush(root, edits) ==
  LET walk[n \in 0..MaxKey] == IF n = 0 THEN [ch |-> NoItems, done |-> 0]
                               ELSE MergeNext(root, edits, walk[n - 1])
  IN IF DOMAIN edits = {} THEN root
     ELSE IF root = Empty THEN Build(Edited(NoRows, edits))
     ELSE Finish(walk[MaxKey].ch)

-----------------------------------------------------------------------------
(* Cursors: the rows that are ahead of one.                                *)

\* the first item from the key on, or the last one
At(node, k) ==
  LET found == {i \in DOMAIN node.items : node.items[i].key >= k}
  IN IF found = {} THEN Len(node.items) ELSE Min(found)

Path(root, k) ==
  LET path[d \in 0..root.level] ==
        IF d = 0 THEN root ELSE LET n == path[d - 1] IN n.items[At(n, k)].child
  IN path

\* mutant: the first child that only one side has is forgotten
UnderNext(node, n) == UNION {Rows(node.items[i].child) : i \in (n + 2)..Len(node.items)}
Under(node, n) == UNION {Rows(node.items[i].child) : i \in (n + 1)..Len(node.items)}

\* a cursor sought past the end stays on the last row
Seek(root, k) ==
  LET path == Path(root, k)
      leaf == path[root.level]
  IN {leaf.items[i] : i \in At(leaf, k)..Len(leaf.items)}
     \cup UNION {Under(path[d], At(path[d], k)) : d \in 0..(root.level - 1)}

After(root, k) == {r \in Seek(root, k) : r.key # k}

-----------------------------------------------------------------------------
(* prollyDiff: pairs of nodes from a stack; at the first pair whose bounds *)
(* do not agree, both trees are read to their ends.                        *)

Change(k, v, w) == [key |-> k, old |-> v, new |-> w]

Changes(old, new) == {Change(k, old[k], new[k]) : k \in {j \in Keys : old[j] # new[j]}}

RowsDiffer(old, new) == Changes(AsTable(old), AsTable(new))

Shorter(old, new) == Min({Len(old.items), Len(new.items)})

\* the children that differ and whose bounds do too
Apart(old, new) ==
  {i \in 1..Shorter(old, new) : /\ old.items[i].child # new.items[i].child
                                /\ old.items[i].key # new.items[i].key}
Agree(old, new) ==
  IF Apart(old, new) = {} THEN Shorter(old, new) ELSE Min(Apart(old, new)) - 1

IsEmpty(old, new) == Empty \in {old, new}
Inner(old, new) == old.level > 0 /\ new.level > 0

\* the pairs a pair leaves
Below(old, new) ==
  IF old = new \/ IsEmpty(old, new) \/ ~Inner(old, new) THEN {}
  ELSE {<<old.items[i].child, new.items[i].child>> :
          i \in {j \in 1..Agree(old, new) : old.items[j].child # new.items[j].child}}

\* and what it tells at once
Tells(old, new, oldRoot, newRoot) ==
  LET n == Agree(old, new)
  IN IF old = new THEN {}
     ELSE IF IsEmpty(old, new) \/ {old.level, new.level} = {0}
     THEN RowsDiffer(Rows(old), Rows(new))
     ELSE IF ~Inner(old, new) THEN RowsDiffer(Rows(oldRoot), Rows(newRoot))
     ELSE IF Apart(old, new) = {} THEN RowsDiffer(Under(old, n), Under(new, n))
     ELSE IF n = 0 THEN RowsDiffer(Rows(oldRoot), Rows(newRoot))
     ELSE RowsDiffer(After(oldRoot, old.items[n].key), After(newRoot, old.items[n].key))

Diff(oldRoot, newRoot) ==
  LET pairs[n \in 0..oldRoot.level] ==
        IF n = 0 THEN {<<oldRoot, newRoot>>}
        ELSE UNION {Below(p[1], p[2]) : p \in pairs[n - 1]}
  IN UNION {Tells(p[1], p[2], oldRoot, newRoot) : p \in UNION {pairs[n] : n \in 0..oldRoot.level}}

-----------------------------------------------------------------------------
(* prollyThreeWayMergeFast.  A part is three nodes and what is asked of    *)
(* them: their rows after the key from, up to the key to.  They are read   *)
(* from their first row, or from behind the row with the key seek.         *)

\* mutant: a row one side has deleted is deleted whatever the other did
ClashUnlessDeleted(a, o, t) == o # a /\ t # a /\ o # t /\ Absent \notin {o, t}
Clash(a, o, t) == o # a /\ t # a /\ o # t

\* the value of a row both sides agree on or one side has left alone
Resolve(a, o, t) == IF o = a THEN t ELSE o

MergeRow(st, k, a, o, t) ==
  IF ~st.ok \/ Full(st.ch) THEN st
  ELSE IF Clash(a, o, t) THEN [st EXCEPT !.ok = FALSE]
  ELSE [st EXCEPT !.ch = AddRow(@, k, Resolve(a, o, t))]

\* row by row, until the first that both sides have changed differently
MergeRows(st, a, o, t) ==
  LET merge[k \in 0..MaxKey] ==
        IF k = 0 THEN st ELSE MergeRow(merge[k - 1], k, a[k], o[k], t[k])
  IN merge[MaxKey]

Part(from, to, seek, a, o, t) ==
  [from |-> from, to |-> to, seek |-> seek, anc |-> a, ours |-> o, theirs |-> t]

Settled(x) == x.ours = x.theirs \/ x.ours = x.anc \/ x.theirs = x.anc
OneLevel(x) == x.ours.level = x.anc.level /\ x.theirs.level = x.anc.level
OneLength(x) == Len(x.ours.items) = Len(x.anc.items) /\ Len(x.theirs.items) = Len(x.anc.items)

\* the children with one bound in all three, before the first with another
OneBound(x, i) == /\ x.ours.items[i].key = x.anc.items[i].key
                  /\ x.theirs.items[i].key = x.anc.items[i].key
Walks(x) == {i \in DOMAIN x.anc.items : \A j \in 1..i : OneBound(x, j)}

Walked(x) ==
  /\ ~Settled(x) /\ OneLevel(x) /\ x.anc.level > 0 /\ x.seek = 0
  /\ OneLength(x) /\ Walks(x) # {}

Bound(x, i) == IF i = 0 THEN x.from ELSE x.anc.items[i].key

\* the children one by one while the bounds agree, and from there the rows
Split(x) ==
  LET n == Max(Walks(x))
      child(i) == Part(Bound(x, i - 1), Bound(x, i), 0, x.anc.items[i].child,
                       x.ours.items[i].child, x.theirs.items[i].child)
      rest == Part(Bound(x, n), x.to, Bound(x, n), x.anc, x.ours, x.theirs)
  IN IF ~Walked(x) THEN {x}
     ELSE {child(i) : i \in 1..n} \cup (IF n = Len(x.anc.items) THEN {} ELSE {rest})

RowsFrom(node, seek) == AsTable(IF seek = 0 THEN Rows(node) ELSE After(node, seek))

\* a node at most one side has changed is spliced in, or its rows are if the
\* chunker is not aligned; of any other three the rows are merged
MergePart(st, x) ==
  LET whole == IF x.ours = x.anc THEN x.theirs ELSE x.ours
      level == whole.level + 1
  IN IF ~st.ok \/ Full(st.ch) THEN st
     ELSE IF Settled(x)
     THEN [st EXCEPT !.ch = IF Aligned(@, level) THEN AddTo(@, level, [key |-> x.to, child |-> whole])
                            ELSE AddRows(@, TableOf(whole))]
     ELSE IF ~OneLevel(x) THEN [st EXCEPT !.ok = FALSE]
     ELSE MergeRows(st, RowsFrom(x.anc, x.seek), RowsFrom(x.ours, x.seek), RowsFrom(x.theirs, x.seek))

Parts(a, o, t) ==
  LET parts[n \in 0..a.level] ==
        IF n = 0 THEN {Part(0, MaxKey, 0, a, o, t)} ELSE UNION {Split(x) : x \in parts[n - 1]}
  IN parts[a.level]

MergeFrom(st, parts, k) ==
  IF \E x \in parts : x.from = k THEN MergePart(st, CHOOSE x \in parts : x.from = k) ELSE st

MergeParts(parts) ==
  LET start == [ok |-> TRUE, ch |-> NoItems]
      merge[k \in 0..MaxKey] == MergeFrom(IF k = 0 THEN start ELSE merge[k - 1], parts, k)
  IN merge[MaxKey]

Handled(root) == [handled |-> TRUE, root |-> root]
NotHandled == [handled |-> FALSE, root |-> Empty]

FastMerge(a, o, t) ==
  LET end == MergeParts(Parts(a, o, t))
  IN IF o = t THEN Handled(o)
     ELSE IF o = a THEN Handled(t)
     ELSE IF t = a THEN Handled(o)
     ELSE IF Empty \in {a, o, t} THEN NotHandled
     ELSE IF o.level # a.level \/ t.level # a.level THEN NotHandled
     ELSE IF end.ok THEN Handled(Finish(end.ch)) ELSE NotHandled

-----------------------------------------------------------------------------
(* mergeTableRows: theirs' changes to rows ours has left alone are written *)
(* over ours; rows both have changed differently are conflicts.            *)

Changed(old, new) == {k \in Keys : TableOf(old)[k] # TableOf(new)[k]}

SlowMerge(a, o, t) ==
  LET only == Changed(a, t) \ Changed(a, o)
      both == Changed(a, t) \cap Changed(a, o)
  IN [root |-> Flush(o, [k \in only |-> TableOf(t)[k]]),
      conflicts |-> {k \in both : TableOf(o)[k] # TableOf(t)[k]}]

MergeTables(a, o, t) ==
  LET fast == FastMerge(a, o, t)
  IN IF fast.handled THEN [root |-> fast.root, conflicts |-> {}]
     ELSE SlowMerge(a, o, t)

-----------------------------------------------------------------------------

NotMerged == [root |-> Empty, conflicts |-> {}]

Init ==
  /\ ends \in Hashes
  /\ \E base \in Bases :
       /\ tree = [v \in Versions |-> Build(base)]
       /\ written = [v \in Versions |-> base]
  /\ tree.anc # Failed
  /\ stage = "base" /\ merged = NotMerged /\ full = FALSE

Edits(v) == UNION {[S -> Vals \cup {Absent}] : S \in UNION {kSubset(n, Keys) : n \in 0..Batch[v]}}

\* a transaction's mutation map reaches the tree of some versions, or is
\* refused as a whole
Write(vs, edits) ==
  LET root == [v \in vs |-> Flush(tree[v], edits)]
  IN IF \E v \in vs : root[v] = Failed
     THEN full' = TRUE /\ UNCHANGED <<tree, written>>
     ELSE /\ tree' = [v \in Versions |-> IF v \in vs THEN root[v] ELSE tree[v]]
          /\ written' = [v \in Versions |->
               IF v \in vs THEN Edited(written[v], edits) ELSE written[v]]
          /\ UNCHANGED full

WriteAncestor == /\ stage = "base" /\ stage' = "anc"
                 /\ \E edits \in Edits("anc") : Write(Versions, edits)
                 /\ UNCHANGED <<ends, merged>>

WriteOurs == /\ stage = "anc" /\ stage' = "ours"
             /\ \E edits \in Edits("ours") : Write({"ours"}, edits)
             /\ UNCHANGED <<ends, merged>>

WriteTheirs == /\ stage = "ours" /\ stage' = "theirs"
               /\ \E edits \in Edits("theirs") : Write({"theirs"}, edits)
               /\ UNCHANGED <<ends, merged>>

MergeTheirs ==
  /\ stage = "theirs"
  /\ LET result == MergeTables(tree.anc, tree.ours, tree.theirs)
     IN IF result.root = Failed THEN full' = TRUE /\ UNCHANGED <<stage, merged>>
        ELSE stage' = "merged" /\ merged' = result /\ UNCHANGED full
  /\ UNCHANGED <<ends, tree, written>>

Next == WriteAncestor \/ WriteOurs \/ WriteTheirs \/ MergeTheirs

Spec == Init /\ [][Next]_vars

-----------------------------------------------------------------------------

\* the version that was written last
Newest == IF stage = "base" THEN "anc" ELSE stage
Roots == IF stage = "merged" THEN {merged.root} ELSE {tree[Newest]}

\* A node's items are sorted and not empty; each item's child is one level
\* below, and its rows are those after the item before, up to the item's key.
Sorted(node) ==
  /\ node.items # <<>>
  /\ \A i, j \in DOMAIN node.items : i < j => node.items[i].key < node.items[j].key
  /\ node.level > 0 => \A i \in DOMAIN node.items :
       LET it == node.items[i]
       IN /\ it.child.level = node.level - 1 /\ it.child.items # <<>>
          /\ it.key = LastKey(it.child)
          /\ \A k \in KeysOf(Rows(it.child)) :
               k <= it.key /\ (i > 1 => k > node.items[i - 1].key)

WellFormed(root) == root.level \in Levels /\ \A n \in NodesOf(root) : Sorted(n)

TypeOK ==
  /\ ends \in Hashes
  /\ \A root \in Roots : root = Empty \/ WellFormed(root)
  /\ written \in [Versions -> Table]
  /\ stage \in {"base", "anc", "ours", "theirs", "merged"}
  /\ merged.conflicts \subseteq Keys /\ full \in BOOLEAN

\* Each tree has exactly the rows that were written, in the order of their
\* keys, and a cursor sought for any key stands at the first row from it on:
\* no batch loses, doubles or misplaces a row next to a node it did not read.
HoldsWritten ==
  stage # "merged" =>
    /\ TableOf(tree[Newest]) = written[Newest]
    /\ \A k \in Keys :
         LET later == {j \in Keys : j >= k /\ written[Newest][j] # Absent}
         IN later # {} => Min(KeysOf(Seek(tree[Newest], k))) = Min(later)

\* nodes with a single child at the top say nothing of the rows
Trim(root) ==
  LET trim[d \in 0..root.level] ==
        IF d = 0 THEN root
        ELSE LET n == trim[d - 1] IN IF n.level > 0 /\ Len(n.items) = 1 THEN n.items[1].child ELSE n
  IN trim[root.level]

\* Where a table is cut depends on its rows alone, however they came there:
\* a tree that was edited or merged has the nodes of one that is built from
\* the same rows, but for single-child nodes at the top.
SameChunks == \A root \in Roots : Trim(root) = Trim(Build(TableOf(root)))

Agrees(v, w) == Diff(tree[v], tree[w]) = Changes(written[v], written[w])

\* prollyDiff tells every row that differs and nothing else.
DiffIsComplete ==
  stage # "merged" => \A v \in Versions : Agrees(v, Newest) /\ Agrees(Newest, v)

\* What becomes of each row does not depend on the way the merge took, nor
\* on how the trees are cut: a change of one side is taken, and a row the
\* sides have changed differently is a conflict and stays as ours has it.
MergeIsExact ==
  stage = "merged" =>
    LET a == written.anc
        o == written.ours
        t == written.theirs
    IN /\ merged.conflicts = {k \in Keys : o[k] # a[k] /\ t[k] # a[k] /\ o[k] # t[k]}
       /\ TableOf(merged.root) = [k \in Keys |-> IF o[k] = a[k] THEN t[k] ELSE o[k]]

\* The same with no exception, which a content hash would need.  The code
\* violates it: a batch that leaves one leaf alone and deletes all others
\* ends with an inner node over that leaf, which is not taken away.
HashOfContent == \A root \in Roots : root = Build(TableOf(root))

\* No write is refused: there is a level for every key.
NeverFull == ~full
=============================================================================
