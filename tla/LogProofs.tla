------------------------------ MODULE LogProofs ------------------------------
(***************************************************************************)
(* Proofs about ChunkLog, for any chunks and any length of the file.       *)
(* Without a commit that was appended to a torn record the file is well    *)
(* formed: from the manifest on it is a sequence of records, the last of   *)
(* them perhaps torn; a chunk record comes after those of the chunks it    *)
(* names, a root record after that of its refs.  Replay is proved, by      *)
(* induction over the records, to read such a file up to its last complete *)
(* root record; every step of Next is proved to leave such a file, of the  *)
(* refs that were acknowledged (LogInv).                                   *)
(***************************************************************************)
EXTENDS ChunkLog, Lemmas

-----------------------------------------------------------------------------
(* Types of what replay makes.                                             *)

ScanState == [state : {"run", "stopped", "corrupt"}, pos : Nat, found : [Chunks -> Nat],
              index : [Chunks -> Nat], refs : Hashes, roots : BOOLEAN]

Start(d) == [state |-> "run", pos |-> 2, found |-> NoIndex, index |-> NoIndex,
             refs |-> d[2].of, roots |-> FALSE]

IsScan(s, d, m) ==
  s = [n \in 0..m |-> IF n = 0 THEN Start(d) ELSE ReplayStep(d, s[n - 1])]

\* Replay has a state after each number of records
LEMMA ScanIs == ASSUME NEW d, Len(d) \in Nat PROVE IsScan(Scan(d), d, Len(d))
<1> DEFINE S == {m \in Nat : \E f : IsScan(f, d, m)}
<1>1. 0 \in S
  <2> DEFINE f == [n \in 0..0 |-> Start(d)]
  <2>1. f = [n \in 0..0 |-> IF n = 0 THEN Start(d) ELSE ReplayStep(d, f[n - 1])]
    OBVIOUS
  <2>2. IsScan(f, d, 0)
    BY <2>1 DEF IsScan
  <2> QED BY <2>2
<1>2. ASSUME NEW m \in Nat, m \in S PROVE m + 1 \in S
  <2>1. PICK f : IsScan(f, d, m)
    BY <1>2
  <2> DEFINE g == [n \in 0..(m + 1) |-> IF n = m + 1 THEN ReplayStep(d, f[m]) ELSE f[n]]
  <2>2. \A n \in 0..m : f[n] = IF n = 0 THEN Start(d) ELSE ReplayStep(d, f[n - 1])
    BY <2>1 DEF IsScan
  <2>3. \A n \in 0..(m + 1) : g[n] = IF n = 0 THEN Start(d) ELSE ReplayStep(d, g[n - 1])
    <3> TAKE n \in 0..(m + 1)
    <3>1. CASE n = m + 1
      <4>1. n # 0 /\ n - 1 = m /\ g[m] = f[m] /\ g[n] = ReplayStep(d, f[m])
        BY <3>1
      <4> HIDE DEF g
      <4> QED BY <4>1
    <3>2. CASE n = 0
      <4>1. g[0] = f[0] /\ 0 \in 0..m
        OBVIOUS
      <4> QED BY <2>2, <3>2, <4>1
    <3>3. CASE n # m + 1 /\ n # 0
      <4>1. n \in 0..m /\ g[n] = f[n] /\ g[n - 1] = f[n - 1]
        BY <3>3
      <4> HIDE DEF g
      <4> QED BY <2>2, <3>3, <4>1
    <3> QED BY <3>1, <3>2, <3>3
  <2>4. g = [n \in 0..(m + 1) |-> g[n]]
    OBVIOUS
  <2> HIDE DEF g
  <2>5. g = [n \in 0..(m + 1) |-> IF n = 0 THEN Start(d) ELSE ReplayStep(d, g[n - 1])]
    BY <2>3, <2>4
  <2>6. IsScan(g, d, m + 1)
    BY <2>5 DEF IsScan
  <2> QED BY <2>6
<1> HIDE DEF S
<1>3. Len(d) \in S
  BY <1>1, <1>2, NumberInduction
<1>4. PICK f : IsScan(f, d, Len(d))
  BY <1>3 DEF S
<1> QED
  BY <1>4 DEF Scan, IsScan, Start

LEMMA NotedIs ==
  ASSUME NEW f \in [Chunks -> Nat], NEW h, NEW at \in Nat
  PROVE  /\ Noted(f, h, at) \in [Chunks -> Nat]
         /\ \A k \in Chunks : Noted(f, h, at)[k] = IF k = h /\ f[k] = 0 THEN at ELSE f[k]
  BY DEF Noted

LEMMA CellIs ==
  ASSUME NEW d \in Seq(Cell), NEW p \in 1..Len(d)
  PROVE  d[p] \in Cell /\ d[p].of \in Hashes
<1>1. d[p] \in Cell
  OBVIOUS
<1> QED BY <1>1 DEF Cell

LEMMA StepType ==
  ASSUME NEW d \in Seq(Cell), NEW s \in ScanState
  PROVE  ReplayStep(d, s) \in ScanState
<1> DEFINE p == s.pos + 1
<1>0. /\ s.pos \in Nat /\ s.found \in [Chunks -> Nat] /\ s.index \in [Chunks -> Nat]
      /\ s.refs \in Hashes /\ s.roots \in BOOLEAN
      /\ s.state \in {"run", "stopped", "corrupt"} 
      /\ Len(d) \in Nat /\ p \in Nat
  BY DEF ScanState
<1>1. [s EXCEPT !.state = "stopped"] \in ScanState /\ [s EXCEPT !.state = "corrupt"] \in ScanState
  BY DEF ScanState
<1>2. \A i \in Nat, f \in [Chunks -> Nat] : [s EXCEPT !.pos = i, !.found = f] \in ScanState
  BY DEF ScanState
<1>3. \A i \in Nat, r \in Hashes :
        [s EXCEPT !.pos = i, !.index = s.found, !.refs = r, !.roots = TRUE] \in ScanState
  BY DEF ScanState
<1>4. CASE s.state # "run"
  BY <1>4 DEF ReplayStep
<1>5. CASE s.state = "run" /\ p >= Len(d)
  <2>1. ReplayStep(d, s) \in {[s EXCEPT !.state = "stopped"], [s EXCEPT !.state = "corrupt"]}
    BY <1>0, <1>5 DEF ReplayStep
  <2> QED BY <1>1, <2>1
<1>6. CASE s.state = "run" /\ p < Len(d)
  <2>0. d[p].of \in Hashes /\ d[p + 1].of \in Hashes /\ ~(p >= Len(d))
    BY <1>0, <1>6, CellIs
  <2>1. CASE d[p].kind = "chunk"
    <3>1. ReplayStep(d, s) = [s EXCEPT !.pos = p + 1, !.found = Noted(s.found, d[p].of, p + 1)]
      BY <1>6, <2>0, <2>1 DEF ReplayStep
    <3>2. Noted(s.found, d[p].of, p + 1) \in [Chunks -> Nat]
      BY <1>0, NotedIs
    <3> DEFINE f == Noted(s.found, d[p].of, p + 1)
    <3> HIDE DEF f
    <3>3. f \in [Chunks -> Nat] /\ p + 1 \in Nat
      BY <1>0, <3>2 DEF f
    <3>4. [s EXCEPT !.pos = p + 1, !.found = f] \in ScanState
      BY ONLY <1>2, <3>3
    <3> QED BY <3>1, <3>4 DEF f
  <2>2. CASE d[p].kind = "root"
    <3>1. ReplayStep(d, s) \in {[s EXCEPT !.state = "stopped"], [s EXCEPT !.state = "corrupt"],
              [s EXCEPT !.pos = p + 1, !.index = s.found, !.refs = d[p + 1].of, !.roots = TRUE]}
      BY <1>6, <2>0, <2>2 DEF ReplayStep
    <3>2. [s EXCEPT !.pos = p + 1, !.index = s.found, !.refs = d[p + 1].of, !.roots = TRUE]
            \in ScanState
      <4>1. p + 1 \in Nat
        BY <1>0
      <4> QED BY ONLY <1>3, <2>0, <4>1
    <3> QED BY <1>1, <3>1, <3>2
  <2>3. CASE d[p].kind # "chunk" /\ d[p].kind # "root"
    <3>1. ReplayStep(d, s) = [s EXCEPT !.state = "corrupt"]
      BY <1>6, <2>0, <2>3 DEF ReplayStep
    <3> QED BY <1>1, <3>1
  <2> QED BY <2>1, <2>2, <2>3
<1> QED BY <1>0, <1>4, <1>5, <1>6

LEMMA ScanType ==
  ASSUME NEW d \in Seq(Cell), Len(d) >= 2
  PROVE  \A n \in 0..Len(d) : Scan(d)[n] \in ScanState
<1> DEFINE T == {n \in Nat : n <= Len(d) => Scan(d)[n] \in ScanState}
<1>0. /\ Scan(d)[0] = Start(d)
      /\ \A n \in 0..Len(d) : n # 0 => Scan(d)[n] = ReplayStep(d, Scan(d)[n - 1])
  BY ScanIs DEF IsScan
<1>1. 0 \in T
  <2>1. d[2].of \in Hashes
    BY CellIs
  <2>2. Start(d) \in ScanState
    BY <2>1 DEF Start, ScanState, NoIndex
  <2> QED BY <1>0, <2>2
<1>2. ASSUME NEW n \in Nat, n \in T PROVE n + 1 \in T
  <2> SUFFICES ASSUME n + 1 <= Len(d) PROVE Scan(d)[n + 1] \in ScanState
    OBVIOUS
  <2>1. n + 1 \in 0..Len(d) /\ n + 1 # 0 /\ (n + 1) - 1 = n /\ Scan(d)[n] \in ScanState
    BY <1>2
  <2>2. Scan(d)[n + 1] = ReplayStep(d, Scan(d)[n])
    BY <1>0, <2>1
  <2> QED BY <2>1, <2>2, StepType
<1> HIDE DEF T
<1>3. Nat \subseteq T
  BY <1>1, <1>2, NumberInduction
<1> QED BY <1>3 DEF T

OpenedType(r) == /\ r.ok \in BOOLEAN
                 /\ r.index \in [Chunks -> Nat]
                 /\ r.refs \in Hashes

LEMMA OpenedHasType ==
  ASSUME NEW d \in Seq(Cell)
  PROVE  OpenedType(Opened(d))
<1>1. NoIndex \in [Chunks -> Nat] /\ NoChunk \in Hashes
  BY DEF NoIndex, Hashes
<1>2. CASE d = <<>> \/ Len(d) < 2
  BY <1>1, <1>2 DEF Opened, Replay, OpenedType
<1>3. CASE d # <<>> /\ Len(d) >= 2
  <2> DEFINE s == Scan(d)[Len(d)]
             refs == IF s.roots THEN s.refs ELSE NoChunk
             ok == s.state # "corrupt" /\ (refs # NoChunk => Readable(d, s.index, refs))
  <2>1. s \in ScanState
    BY <1>3, ScanType
  <2>2. Opened(d) = [ok |-> ok, index |-> s.index, refs |-> refs]
    BY <1>3 DEF Opened, Replay
  <2> HIDE DEF s
  <2>3. s.index \in [Chunks -> Nat] /\ refs \in Hashes
    BY <2>1, <1>1 DEF ScanState
  <2>4. ok \in BOOLEAN
    OBVIOUS
  <2> HIDE DEF refs, ok
  <2> QED BY <2>2, <2>3, <2>4 DEF OpenedType
<1> QED BY <1>2, <1>3

-----------------------------------------------------------------------------
(* Well-formed files, and what replay makes of them.  Record r is the      *)
(* cells 2r + 1 and 2r + 2; the manifest of the file is before record 1.   *)

IsChunk(d, r, h) == d[2 * r + 1] = C("chunk", h)
IsRoot(d, r) == d[2 * r + 1].kind = "root"
Before(d, r, h) == \E q \in 1..(r - 1) : IsChunk(d, q, h)

\* Records, the last of which may lack its second cell
ChunkRecord(d, r) ==
  \E h \in Chunks : /\ IsChunk(d, r, h)
                    /\ 2 * r + 2 <= Len(d) => d[2 * r + 2] = C("body", h)
                    /\ \A k \in Kids[h] : Before(d, r, k)

RootRecord(d, r) ==
  /\ IsRoot(d, r)
  /\ 2 * r + 2 <= Len(d) => /\ d[2 * r + 2].kind = "manifest"
                            /\ d[2 * r + 2].of # NoChunk => Before(d, r, d[2 * r + 2].of)

WellFormed(d) ==
  \A r \in 1..Len(d) : 2 * r + 1 <= Len(d) => ChunkRecord(d, r) \/ RootRecord(d, r)

\* Within the first l cells: the root records, the chunks they can reach, and the
\* refs of the last of them
RootAt(d, l, r) == 2 * r + 2 <= l /\ IsRoot(d, r)
Kept(d, l, h) == \E r \in 1..l : RootAt(d, l, r) /\ Before(d, r, h)
LastRoot(d, l, r) == RootAt(d, l, r) /\ \A q \in 1..l : RootAt(d, l, q) => q <= r
RefsAre(d, l, a) ==
  \/ a = NoChunk /\ \A r \in 1..l : ~RootAt(d, l, r)
  \/ \E r \in 1..l : LastRoot(d, l, r) /\ d[2 * r + 2].of = a

\* An index of the chunk records before record r
Lists(d, index, r) ==
  \A h \in Chunks : /\ index[h] # 0 <=> Before(d, r, h)
                    /\ index[h] # 0 => Readable(d, index, h)

\* The state of replay after n records
InScan(d, n, s) ==
  /\ s.state = "run" /\ s.pos = 2 * n + 2
  /\ Lists(d, s.found, n + 1)
  /\ s.roots = FALSE => s.index = NoIndex /\ \A q \in 1..n : ~IsRoot(d, q)
  /\ s.roots = TRUE => \E r \in 1..n : /\ IsRoot(d, r)
                                       /\ s.refs = d[2 * r + 2].of
                                       /\ \A q \in (r + 1)..n : ~IsRoot(d, q)
                                       /\ Lists(d, s.index, r)

LEMMA ChunkStep ==
  ASSUME NEW d \in Seq(Cell), WellFormed(d), NEW s \in ScanState, NEW n \in Nat,
         2 * n + 4 <= Len(d), InScan(d, n, s), NEW h \in Chunks, IsChunk(d, n + 1, h)
  PROVE  InScan(d, n + 1, ReplayStep(d, s))
<1> DEFINE p == 2 * n + 3
           f == Noted(s.found, h, p + 1)
           t == [s EXCEPT !.pos = p + 1, !.found = f]
<1>1. /\ s.pos + 1 = p /\ p < Len(d) /\ ~(p >= Len(d)) /\ 2 * (n + 1) + 1 = p /\ p \in Nat
      /\ 2 * (n + 1) + 2 = p + 1 /\ p + 1 \in 1..Len(d) /\ n + 1 \in 1..Len(d)
      /\ Len(d) \in Nat
  BY DEF InScan
<1>2. d[p].kind = "chunk" /\ d[p].of = h
  BY <1>1 DEF IsChunk, C
<1>3. ReplayStep(d, s) = t
  BY <1>1, <1>2 DEF InScan, ReplayStep
<1>4. d[p + 1] = C("body", h)
  <2>1. ChunkRecord(d, n + 1)
    <3>1. ChunkRecord(d, n + 1) \/ RootRecord(d, n + 1)
      BY <1>1 DEF WellFormed
    <3>2. ~RootRecord(d, n + 1)
      BY <1>1, <1>2 DEF RootRecord, IsRoot
    <3> QED BY <3>1, <3>2
  <2>2. PICK k \in Chunks : IsChunk(d, n + 1, k) /\ d[2 * (n + 1) + 2] = C("body", k)
    BY <1>1, <2>1 DEF ChunkRecord
  <2>3. k = h
    BY <2>2 DEF IsChunk, C
  <2> QED BY <1>1, <2>2, <2>3
<1>5. /\ f \in [Chunks -> Nat]
      /\ \A k \in Chunks : f[k] = IF k = h /\ s.found[k] = 0 THEN p + 1 ELSE s.found[k]
  BY <1>1, NotedIs DEF ScanState
<1> HIDE DEF f
<1>6. \A k \in Chunks : Before(d, n + 2, k) <=> Before(d, n + 1, k) \/ k = h
  <2> TAKE k \in Chunks
  <2>1. IsChunk(d, n + 1, k) <=> k = h
    BY DEF IsChunk, C
  <2>2. \A q \in 1..(n + 1) : q \in 1..n \/ q = n + 1
    OBVIOUS
  <2>3. 1..n \subseteq 1..(n + 1) /\ n + 1 \in 1..(n + 1) /\ (n + 2) - 1 = n + 1 /\ (n + 1) - 1 = n
    OBVIOUS
  <2> QED BY <2>1, <2>2, <2>3 DEF Before
<1>7. Lists(d, f, n + 2)
  <2> SUFFICES ASSUME NEW k \in Chunks
               PROVE  /\ f[k] # 0 <=> Before(d, n + 2, k)
                      /\ f[k] # 0 => Readable(d, f, k)
    BY DEF Lists
  <2>1. /\ s.found[k] # 0 <=> Before(d, n + 1, k)
        /\ s.found[k] # 0 => Readable(d, s.found, k)
    BY DEF InScan, Lists
  <2>2. CASE k = h /\ s.found[k] = 0
    <3>1. f[k] = p + 1 /\ f[k] # 0
      BY <1>1, <1>5, <2>2
    <3>2. Readable(d, f, k)
      BY <1>1, <1>4, <2>2, <3>1 DEF Readable
    <3> QED BY <1>6, <2>2, <3>1, <3>2
  <2>3. CASE ~(k = h /\ s.found[k] = 0)
    <3>1. f[k] = s.found[k]
      BY <1>5, <2>3
    <3>2. f[k] # 0 => Readable(d, f, k)
      BY <2>1, <3>1 DEF Readable
    <3> QED BY <1>6, <2>1, <2>3, <3>1, <3>2
  <2> QED BY <2>2, <2>3
<1>8. ~IsRoot(d, n + 1)
  BY <1>1, <1>2 DEF IsRoot
<1>9. /\ t.state = s.state /\ t.pos = p + 1 /\ t.found = f /\ t.index = s.index
      /\ t.refs = s.refs /\ t.roots = s.roots
  BY DEF ScanState
<1> HIDE DEF t
<1>10. (n + 1) + 1 = n + 2 /\ \A q \in 1..(n + 1) : q \in 1..n \/ q = n + 1
  OBVIOUS
<1>11. t.roots = FALSE => t.index = NoIndex /\ \A q \in 1..(n + 1) : ~IsRoot(d, q)
  BY <1>8, <1>9, <1>10 DEF InScan
<1>12. t.roots = TRUE => \E r \in 1..(n + 1) : /\ IsRoot(d, r)
                                               /\ t.refs = d[2 * r + 2].of
                                               /\ \A q \in (r + 1)..(n + 1) : ~IsRoot(d, q)
                                               /\ Lists(d, t.index, r)
  <2> SUFFICES ASSUME t.roots = TRUE
               PROVE  \E r \in 1..(n + 1) : /\ IsRoot(d, r)
                                            /\ t.refs = d[2 * r + 2].of
                                            /\ \A q \in (r + 1)..(n + 1) : ~IsRoot(d, q)
                                            /\ Lists(d, t.index, r)
    OBVIOUS
  <2>1. PICK r \in 1..n : /\ IsRoot(d, r)
                          /\ s.refs = d[2 * r + 2].of
                          /\ \A q \in (r + 1)..n : ~IsRoot(d, q)
                          /\ Lists(d, s.index, r)
    BY <1>9 DEF InScan
  <2>2. r \in 1..(n + 1) /\ \A q \in (r + 1)..(n + 1) : q \in (r + 1)..n \/ q = n + 1
    OBVIOUS
  <2>3. \A q \in (r + 1)..(n + 1) : ~IsRoot(d, q)
    BY <1>8, <2>1, <2>2
  <2> QED BY <1>9, <2>1, <2>2, <2>3
<1>13. t.state = "run" /\ t.pos = 2 * (n + 1) + 2
  BY <1>1, <1>9 DEF InScan
<1>14. Lists(d, t.found, (n + 1) + 1)
  BY <1>7, <1>9, <1>10
<1> QED
  BY <1>3, <1>11, <1>12, <1>13, <1>14 DEF InScan

LEMMA RootStep ==
  ASSUME NEW d \in Seq(Cell), WellFormed(d), NEW s \in ScanState, NEW n \in Nat,
         2 * n + 4 <= Len(d), InScan(d, n, s), IsRoot(d, n + 1)
  PROVE  InScan(d, n + 1, ReplayStep(d, s))
<1> DEFINE p == 2 * n + 3
           t == [s EXCEPT !.pos = p + 1, !.index = s.found, !.refs = d[p + 1].of, !.roots = TRUE]
<1>1. /\ s.pos + 1 = p /\ p < Len(d) /\ ~(p >= Len(d)) /\ 2 * (n + 1) + 1 = p /\ p \in Nat
      /\ 2 * (n + 1) + 2 = p + 1 /\ p + 1 \in 1..Len(d) /\ n + 1 \in 1..Len(d)
      /\ Len(d) \in Nat
  BY DEF InScan
<1>2. d[p].kind = "root"
  BY <1>1 DEF IsRoot
<1>3. d[p + 1].kind = "manifest"
  <2>1. ChunkRecord(d, n + 1) \/ RootRecord(d, n + 1)
    BY <1>1 DEF WellFormed
  <2>2. ~ChunkRecord(d, n + 1)
    <3>1. \A h \in Chunks : ~IsChunk(d, n + 1, h)
      BY <1>1, <1>2 DEF IsChunk, C
    <3> QED BY <3>1 DEF ChunkRecord
  <2> QED BY <1>1, <2>1, <2>2 DEF RootRecord
<1>4. ReplayStep(d, s) = t
  BY <1>1, <1>2, <1>3 DEF InScan, ReplayStep
<1>5. /\ t.state = s.state /\ t.pos = p + 1 /\ t.found = s.found /\ t.index = s.found
      /\ t.refs = d[p + 1].of /\ t.roots = TRUE
  BY DEF ScanState
<1> HIDE DEF t
<1>6. \A k \in Chunks : Before(d, n + 2, k) <=> Before(d, n + 1, k)
  <2> TAKE k \in Chunks
  <2>1. ~IsChunk(d, n + 1, k)
    BY <1>1, <1>2 DEF IsChunk, C
  <2>2. \A q \in 1..(n + 1) : q \in 1..n \/ q = n + 1
    OBVIOUS
  <2>3. 1..n \subseteq 1..(n + 1) /\ (n + 2) - 1 = n + 1 /\ (n + 1) - 1 = n
    OBVIOUS
  <2> QED BY <2>1, <2>2, <2>3 DEF Before
<1>7. Lists(d, s.found, n + 1) /\ Lists(d, s.found, n + 2)
  BY <1>6 DEF InScan, Lists
<1>8. n + 1 \in 1..(n + 1) /\ \A q \in ((n + 1) + 1)..(n + 1) : FALSE
  OBVIOUS
<1>9. \E r \in 1..(n + 1) : /\ IsRoot(d, r)
                            /\ t.refs = d[2 * r + 2].of
                            /\ \A q \in (r + 1)..(n + 1) : ~IsRoot(d, q)
                            /\ Lists(d, t.index, r)
  BY <1>1, <1>5, <1>7, <1>8
<1>10. t.state = "run" /\ t.pos = 2 * (n + 1) + 2
  BY <1>1, <1>5 DEF InScan
<1>11. Lists(d, t.found, (n + 1) + 1) /\ t.roots # FALSE
  <2>1. (n + 1) + 1 = n + 2
    OBVIOUS
  <2> QED BY <1>5, <1>7, <2>1
<1> QED
  BY <1>4, <1>9, <1>10, <1>11 DEF InScan

\* Replay reads every complete record of a well-formed log
LEMMA ScanRuns ==
  ASSUME NEW d \in Seq(Cell), WellFormed(d), Len(d) >= 2
  PROVE  \A n \in Nat : 2 * n + 2 <= Len(d) => InScan(d, n, Scan(d)[n])
<1> DEFINE T == {n \in Nat : 2 * n + 2 <= Len(d) => InScan(d, n, Scan(d)[n])}
<1>0. /\ Scan(d)[0] = Start(d)
      /\ \A n \in 0..Len(d) : n # 0 => Scan(d)[n] = ReplayStep(d, Scan(d)[n - 1])
  BY ScanIs DEF IsScan
<1>1. 0 \in T
  <2>1. \A h \in Chunks : NoIndex[h] = 0 /\ ~Before(d, 1, h)
    BY DEF NoIndex, Before
  <2>2. Lists(d, NoIndex, 0 + 1)
    BY <2>1 DEF Lists
  <2>3. InScan(d, 0, Start(d))
    BY <2>2 DEF InScan, Start
  <2> QED BY <1>0, <2>3
<1>2. ASSUME NEW n \in Nat, n \in T PROVE n + 1 \in T
  <2> SUFFICES ASSUME 2 * (n + 1) + 2 <= Len(d) PROVE InScan(d, n + 1, Scan(d)[n + 1])
    OBVIOUS
  <2>1. /\ n + 1 \in 0..Len(d) /\ n + 1 # 0 /\ (n + 1) - 1 = n /\ 2 * n + 2 <= Len(d)
        /\ 2 * n + 4 <= Len(d) /\ n \in 0..Len(d) /\ n + 1 \in 1..Len(d)
        /\ 2 * (n + 1) + 1 <= Len(d)
    OBVIOUS
  <2>2. InScan(d, n, Scan(d)[n])
    BY <1>2, <2>1
  <2>3. Scan(d)[n + 1] = ReplayStep(d, Scan(d)[n]) /\ Scan(d)[n] \in ScanState
    BY <1>0, <2>1, ScanType
  <2>4. ChunkRecord(d, n + 1) \/ RootRecord(d, n + 1)
    BY <2>1 DEF WellFormed
  <2>5. CASE ChunkRecord(d, n + 1)
    <3>1. PICK h \in Chunks : IsChunk(d, n + 1, h)
      BY <2>5 DEF ChunkRecord
    <3> QED BY <2>1, <2>2, <2>3, <3>1, ChunkStep
  <2>6. CASE RootRecord(d, n + 1)
    <3>1. IsRoot(d, n + 1)
      BY <2>6 DEF RootRecord
    <3> QED BY <2>1, <2>2, <2>3, <3>1, RootStep
  <2> QED BY <2>4, <2>5, <2>6
<1> HIDE DEF T
<1>3. Nat \subseteq T
  BY <1>1, <1>2, NumberInduction
<1> QED BY <1>3 DEF T

\* and stops behind the last one, at a torn one or at the end
LEMMA ScanEnds ==
  ASSUME NEW d \in Seq(Cell), WellFormed(d), NEW n \in Nat,
         Len(d) = 2 * n + 2 \/ Len(d) = 2 * n + 3
  PROVE  Scan(d)[Len(d)] = [Scan(d)[n] EXCEPT !.state = "stopped"]
<1> DEFINE s == Scan(d)[n]
           t == [s EXCEPT !.state = "stopped"]
           T == {i \in Nat : n + 1 + i <= Len(d) => Scan(d)[n + 1 + i] = t}
<1>0. \A i \in 0..Len(d) : i # 0 => Scan(d)[i] = ReplayStep(d, Scan(d)[i - 1])
  BY ScanIs DEF IsScan
<1>1. s \in ScanState /\ InScan(d, n, s) /\ t.state = "stopped"
  <2>1. s \in ScanState
    BY ScanType
  <2>2. InScan(d, n, s)
    BY ScanRuns
  <2> HIDE DEF s
  <2> QED BY <2>1, <2>2 DEF ScanState
<1>2. ReplayStep(d, s) = t
  <2> HIDE DEF s
  <2>1. s.state = "run" /\ s.pos + 1 = 2 * n + 3 /\ s.pos + 1 >= Len(d)
    BY <1>1 DEF InScan
  <2>2. s.pos + 1 = Len(d) => d[s.pos + 1].kind \in {"chunk", "root"}
    <3> SUFFICES ASSUME Len(d) = 2 * n + 3 PROVE d[2 * n + 3].kind \in {"chunk", "root"}
      BY <2>1
    <3>1. n + 1 \in 1..Len(d) /\ 2 * (n + 1) + 1 = 2 * n + 3
      OBVIOUS
    <3>2. ChunkRecord(d, n + 1) \/ RootRecord(d, n + 1)
      BY <3>1 DEF WellFormed
    <3>3. ASSUME NEW h \in Chunks, IsChunk(d, n + 1, h) PROVE d[2 * n + 3].kind = "chunk"
      BY <3>1, <3>3 DEF IsChunk, C
    <3>4. RootRecord(d, n + 1) => d[2 * n + 3].kind = "root"
      BY <3>1 DEF RootRecord, IsRoot
    <3> QED BY <3>2, <3>3, <3>4 DEF ChunkRecord
  <2> QED BY <2>1, <2>2 DEF ReplayStep
<1>3. ReplayStep(d, t) = t
  <2> HIDE DEF t
  <2> QED BY <1>1 DEF ReplayStep
<1>4. 0 \in T
  <2>1. n + 1 + 0 = n + 1 /\ n + 1 # 0 /\ (n + 1) - 1 = n /\ (n + 1 <= Len(d) => n + 1 \in 0..Len(d))
    OBVIOUS
  <2> QED BY <1>0, <1>2, <2>1
<1>5. ASSUME NEW i \in Nat, i \in T PROVE i + 1 \in T
  <2> SUFFICES ASSUME n + 1 + (i + 1) <= Len(d) PROVE Scan(d)[n + 1 + (i + 1)] = t
    OBVIOUS
  <2> DEFINE j == n + 1 + i
  <2>1. /\ n + 1 + (i + 1) = j + 1 /\ j + 1 \in 0..Len(d) /\ j + 1 # 0 /\ (j + 1) - 1 = j
        /\ j <= Len(d)
    OBVIOUS
  <2>2. Scan(d)[j] = t
    BY <1>5, <2>1
  <2> HIDE DEF j, t, s
  <2>3. Scan(d)[j + 1] = ReplayStep(d, Scan(d)[j])
    BY <1>0, <2>1
  <2> QED BY <1>3, <2>1, <2>2, <2>3
<1> HIDE DEF T
<1>6. Nat \subseteq T
  BY <1>4, <1>5, NumberInduction
<1>7. Len(d) - (n + 1) \in Nat /\ n + 1 + (Len(d) - (n + 1)) = Len(d)
  OBVIOUS
<1>8. Len(d) - (n + 1) \in T
  BY <1>6, <1>7
<1> QED BY <1>7, <1>8 DEF T

-----------------------------------------------------------------------------
(* Opening a well-formed file.                                             *)

\* What a root record names is in the log before it, with all that it names
LEMMA KeptClosed ==
  ASSUME NEW d \in Seq(Cell), WellFormed(d), NEW l \in 0..Len(d)
  PROVE  /\ \A h \in Chunks : Kept(d, l, h) => \A k \in Kids[h] : k \in Chunks /\ Kept(d, l, k)
         /\ \A a \in Chunks : RefsAre(d, l, a) => Kept(d, l, a)
<1>1. ASSUME NEW h \in Chunks, Kept(d, l, h), NEW k \in Kids[h]
      PROVE  k \in Chunks /\ Kept(d, l, k)
  <2>0. k \in Chunks
    BY ChunksAssumption
  <2>1. PICK r \in 1..l : RootAt(d, l, r) /\ Before(d, r, h)
    BY <1>1 DEF Kept
  <2>2. PICK q \in 1..(r - 1) : IsChunk(d, q, h)
    BY <2>1 DEF Before
  <2>3. 2 * q + 1 <= Len(d) /\ q \in 1..Len(d) /\ Len(d) \in Nat /\ r \in Nat /\ q \in Nat
    BY <2>1 DEF RootAt
  <2>4. ChunkRecord(d, q)
    <3>1. ChunkRecord(d, q) \/ RootRecord(d, q)
      BY <2>3 DEF WellFormed
    <3>2. ~RootRecord(d, q)
      BY <2>2 DEF RootRecord, IsRoot, IsChunk, C
    <3> QED BY <3>1, <3>2
  <2>5. PICK g \in Chunks : IsChunk(d, q, g) /\ \A x \in Kids[g] : Before(d, q, x)
    BY <2>4 DEF ChunkRecord
  <2>6. g = h
    BY <2>2, <2>5 DEF IsChunk, C
  <2>7. Before(d, q, k)
    BY <2>5, <2>6
  <2>8. \A x \in 1..(q - 1) : x \in 1..(r - 1)
    BY <2>3
  <2>9. Before(d, r, k)
    BY <2>7, <2>8 DEF Before
  <2> QED BY <2>0, <2>1, <2>9 DEF Kept
<1>2. ASSUME NEW a \in Chunks, RefsAre(d, l, a)
      PROVE  Kept(d, l, a)
  <2>1. a # NoChunk
    BY ChunksAssumption
  <2>2. PICK r \in 1..l : RootAt(d, l, r) /\ d[2 * r + 2].of = a
    BY <1>2, <2>1 DEF RefsAre, LastRoot
  <2>3. 2 * r + 2 <= Len(d) /\ 2 * r + 1 <= Len(d) /\ r \in 1..Len(d) /\ Len(d) \in Nat
    BY <2>2 DEF RootAt
  <2>4. RootRecord(d, r)
    <3>1. ChunkRecord(d, r) \/ RootRecord(d, r)
      BY <2>3 DEF WellFormed
    <3>2. \A h \in Chunks : ~IsChunk(d, r, h)
      BY <2>2 DEF RootAt, IsRoot, IsChunk, C
    <3> QED BY <3>1, <3>2 DEF ChunkRecord
  <2>5. Before(d, r, a)
    BY <2>1, <2>2, <2>3, <2>4 DEF RootRecord
  <2> QED BY <2>2, <2>5 DEF Kept
<1> QED BY <1>1, <1>2

\* Opening a well-formed log finds what its last root record is of
OpenedRight(d, r) ==
  /\ r.ok = TRUE
  /\ RefsAre(d, Len(d), r.refs)
  /\ \A h \in Chunks : /\ r.index[h] # 0 <=> Kept(d, Len(d), h)
                       /\ r.index[h] # 0 => Readable(d, r.index, h)

LEMMA RootsUpTo ==
  ASSUME NEW d \in Seq(Cell), NEW n \in Nat, Len(d) = 2 * n + 2 \/ Len(d) = 2 * n + 3
  PROVE  \A q \in 1..Len(d) : RootAt(d, Len(d), q) <=> q \in 1..n /\ IsRoot(d, q)
<1> TAKE q \in 1..Len(d)
<1>1. q \in Nat /\ Len(d) \in Nat /\ (2 * q + 2 <= Len(d) <=> q \in 1..n)
  OBVIOUS
<1> QED BY <1>1 DEF RootAt

LEMMA OpenedIs ==
  ASSUME NEW d \in Seq(Cell), WellFormed(d), Len(d) # 1
  PROVE  OpenedRight(d, Opened(d))
<1>1. CASE d = <<>>
  <2>1. Len(d) = 0 /\ 1..0 = {}
    BY <1>1
  <2>2. \A h \in Chunks : NoIndex[h] = 0 /\ ~Kept(d, Len(d), h)
    BY <2>1 DEF NoIndex, Kept
  <2>3. RefsAre(d, Len(d), NoChunk)
    BY <2>1 DEF RefsAre
  <2>4. Opened(d) = [ok |-> TRUE, index |-> NoIndex, refs |-> NoChunk]
    BY <1>1 DEF Opened
  <2> QED BY <2>2, <2>3, <2>4 DEF OpenedRight
<1>2. CASE d # <<>>
  <2>0. Len(d) >= 2 /\ Len(d) \in Nat
    <3>1. Len(d) # 0 /\ Len(d) \in Nat
      BY <1>2
    <3>2. \A i \in Nat : i # 0 /\ i # 1 => i >= 2
      OBVIOUS
    <3> QED BY <3>1, <3>2
  <2>1. PICK n \in Nat : Len(d) = 2 * n + 2 \/ Len(d) = 2 * n + 3
    <3> DEFINE n == (Len(d) - 2) \div 2
    <3>1. n \in Nat /\ (Len(d) = 2 * n + 2 \/ Len(d) = 2 * n + 3)
      BY <2>0
    <3> QED BY <3>1
  <2> DEFINE s == Scan(d)[n]
             e == Scan(d)[Len(d)]
             refs == IF e.roots THEN e.refs ELSE NoChunk
             ok == e.state # "corrupt" /\ (refs # NoChunk => Readable(d, e.index, refs))
  <2>2. s \in ScanState /\ InScan(d, n, s) /\ n \in 1..Len(d) \cup {0}
    BY <2>0, <2>1, ScanType, ScanRuns
  <2>3. e = [s EXCEPT !.state = "stopped"]
    BY <2>1, ScanEnds
  <2>4. Opened(d) = [ok |-> ok, index |-> e.index, refs |-> refs]
    BY <1>2, <2>0 DEF Opened, Replay
  <2> HIDE DEF s
  <2>5. e.state = "stopped" /\ e.index = s.index /\ e.refs = s.refs /\ e.roots = s.roots
    BY <2>2, <2>3 DEF ScanState
  <2> HIDE DEF e
  <2>6. CASE s.roots = FALSE
    <3>1. refs = NoChunk /\ e.index = NoIndex /\ \A q \in 1..n : ~IsRoot(d, q)
      BY <2>2, <2>5, <2>6 DEF InScan
    <3>0. ok
      BY <2>5, <3>1
    <3> HIDE DEF refs, ok
    <3>2. \A q \in 1..Len(d) : ~RootAt(d, Len(d), q)
      BY <2>1, <3>1, RootsUpTo
    <3>3. RefsAre(d, Len(d), refs) /\ \A h \in Chunks : e.index[h] = 0 /\ ~Kept(d, Len(d), h)
      BY <3>1, <3>2 DEF RefsAre, Kept, NoIndex
    <3>4. Opened(d).ok = TRUE /\ Opened(d).index = e.index /\ Opened(d).refs = refs
      BY <2>4, <3>0
    <3> QED BY <3>3, <3>4 DEF OpenedRight
  <2>7. CASE s.roots = TRUE
    <3>1. refs = s.refs
      BY <2>5, <2>7
    <3> HIDE DEF refs, ok
    <3>2. PICK r \in 1..n : /\ IsRoot(d, r)
                            /\ s.refs = d[2 * r + 2].of
                            /\ \A q \in (r + 1)..n : ~IsRoot(d, q)
                            /\ Lists(d, s.index, r)
      BY <2>2, <2>7 DEF InScan
    <3>3. r \in 1..Len(d) /\ r \in Nat /\ \A q \in 1..n : q \in (r + 1)..n \/ q <= r
      BY <2>1
    <3>4. LastRoot(d, Len(d), r)
      BY <2>1, <3>2, <3>3, RootsUpTo DEF LastRoot
    <3>5. RefsAre(d, Len(d), refs)
      BY <3>1, <3>2, <3>3, <3>4 DEF RefsAre
    <3>6. \A h \in Chunks : Before(d, r, h) <=> Kept(d, Len(d), h)
      <4> TAKE h \in Chunks
      <4>1. Before(d, r, h) => Kept(d, Len(d), h)
        BY <3>3, <3>4 DEF Kept, LastRoot
      <4>2. ASSUME Kept(d, Len(d), h) PROVE Before(d, r, h)
        <5>1. PICK q \in 1..Len(d) : RootAt(d, Len(d), q) /\ Before(d, q, h)
          BY <4>2 DEF Kept
        <5>2. q <= r /\ q \in Nat
          BY <3>4, <5>1 DEF LastRoot
        <5>3. \A x \in 1..(q - 1) : x \in 1..(r - 1)
          BY <3>3, <5>2
        <5> QED BY <5>1, <5>3 DEF Before
      <4> QED BY <4>1, <4>2
    <3>7. \A h \in Chunks : /\ e.index[h] # 0 <=> Kept(d, Len(d), h)
                            /\ e.index[h] # 0 => Readable(d, e.index, h)
      BY <2>5, <3>2, <3>6 DEF Lists
    <3>8. refs # NoChunk => Readable(d, e.index, refs)
      <4> SUFFICES ASSUME refs # NoChunk PROVE Readable(d, e.index, refs)
        OBVIOUS
      <4>1. refs \in Chunks
        BY <2>2, <3>1 DEF ScanState, Hashes
      <4>2. Kept(d, Len(d), refs)
        BY <2>0, <3>5, <4>1, KeptClosed
      <4> QED BY <3>7, <4>1, <4>2
    <3>9. ok
      BY <2>5, <3>8 DEF ok
    <3>10. Opened(d).ok = TRUE /\ Opened(d).index = e.index /\ Opened(d).refs = refs
      BY <2>4, <3>9
    <3> QED BY <3>5, <3>7, <3>10 DEF OpenedRight
  <2>8. s.roots = FALSE \/ s.roots = TRUE
    BY <2>2 DEF ScanState
  <2> QED BY <2>6, <2>7, <2>8
<1> QED BY <1>1, <1>2

-----------------------------------------------------------------------------
(* What an append leaves.                                                  *)

\* Two files have the same first l cells
Agree(d, e, l) == l <= Len(d) /\ l <= Len(e) /\ \A p \in 1..l : e[p] = d[p]

LEMMA KeptGrows ==
  ASSUME NEW d \in Seq(Cell), NEW e \in Seq(Cell), NEW l \in Nat, Agree(d, e, l),
         NEW m \in Nat, l <= m, NEW h \in Chunks, Kept(d, l, h)
  PROVE  Kept(e, m, h)
<1>1. PICK r \in 1..l : RootAt(d, l, r) /\ Before(d, r, h)
  BY DEF Kept
<1>2. PICK q \in 1..(r - 1) : IsChunk(d, q, h)
  BY <1>1 DEF Before
<1>3. /\ 2 * r + 2 <= l /\ 2 * r + 1 \in 1..l /\ 2 * q + 1 \in 1..l
      /\ r \in 1..m /\ 2 * r + 2 <= m
  BY <1>1, <1>2 DEF RootAt
<1>4. IsRoot(e, r) /\ IsChunk(e, q, h)
  BY <1>1, <1>2, <1>3 DEF Agree, RootAt, IsRoot, IsChunk
<1> QED BY <1>3, <1>4 DEF Kept, RootAt, Before

LEMMA RefsStay ==
  ASSUME NEW d \in Seq(Cell), NEW e \in Seq(Cell), NEW l \in Nat, Agree(d, e, l),
         NEW a, RefsAre(d, l, a)
  PROVE  RefsAre(e, l, a)
<1>1. \A r \in 1..l : RootAt(d, l, r) <=> RootAt(e, l, r)
  <2> TAKE r \in 1..l
  <2>1. 2 * r + 2 <= l => 2 * r + 1 \in 1..l
    OBVIOUS
  <2> QED BY <2>1 DEF Agree, RootAt, IsRoot
<1>2. \A r \in 1..l : RootAt(d, l, r) => e[2 * r + 2] = d[2 * r + 2]
  <2> TAKE r \in 1..l
  <2>1. 2 * r + 2 <= l => 2 * r + 2 \in 1..l
    OBVIOUS
  <2> QED BY <2>1 DEF Agree, RootAt
<1>3. \A r \in 1..l : LastRoot(d, l, r) => LastRoot(e, l, r) /\ e[2 * r + 2] = d[2 * r + 2]
  BY <1>1, <1>2 DEF LastRoot
<1> QED BY <1>1, <1>3 DEF RefsAre

\* A log that is cut off is well formed
LEMMA CutWellFormed ==
  ASSUME NEW d \in Seq(Cell), NEW e \in Seq(Cell), Agree(d, e, Len(e)), WellFormed(d)
  PROVE  WellFormed(e)
<1> SUFFICES ASSUME NEW r \in 1..Len(e), 2 * r + 1 <= Len(e)
             PROVE  ChunkRecord(e, r) \/ RootRecord(e, r)
  BY DEF WellFormed
<1>0. Len(d) \in Nat /\ Len(e) \in Nat /\ Len(e) <= Len(d)
  BY DEF Agree
<1>1. /\ r \in 1..Len(d) /\ 2 * r + 1 <= Len(d) /\ 2 * r + 1 \in 1..Len(e)
      /\ 2 * r + 2 <= Len(e) => 2 * r + 2 \in 1..Len(e) /\ 2 * r + 2 <= Len(d)
      /\ \A q \in 1..(r - 1) : 2 * q + 1 \in 1..Len(e)
  BY <1>0
<1>2. /\ e[2 * r + 1] = d[2 * r + 1]
      /\ 2 * r + 2 <= Len(e) => e[2 * r + 2] = d[2 * r + 2]
      /\ \A h : Before(d, r, h) => Before(e, r, h)
  BY <1>1 DEF Agree, Before, IsChunk
<1>3. CASE ChunkRecord(d, r)
  <2>1. PICK h \in Chunks : /\ IsChunk(d, r, h)
                            /\ 2 * r + 2 <= Len(d) => d[2 * r + 2] = C("body", h)
                            /\ \A k \in Kids[h] : Before(d, r, k)
    BY <1>3 DEF ChunkRecord
  <2>2. /\ IsChunk(e, r, h)
        /\ 2 * r + 2 <= Len(e) => e[2 * r + 2] = C("body", h)
        /\ \A k \in Kids[h] : Before(e, r, k)
    BY <1>1, <1>2, <2>1 DEF IsChunk
  <2> QED BY <2>2 DEF ChunkRecord
<1>4. CASE RootRecord(d, r)
  BY <1>1, <1>2, <1>4 DEF RootRecord, IsRoot
<1>5. ChunkRecord(d, r) \/ RootRecord(d, r)
  BY <1>1 DEF WellFormed
<1> QED BY <1>3, <1>4, <1>5

\* What a commit puts into a cell behind the manifest of a new file
FirstOf(orig) == IF orig = 0 THEN 2 ELSE orig
PlanEnd(pend, orig) == FirstOf(orig) + 2 * Len(pend) + 2

PlanCell(pend, refs, orig, p, cell) ==
  /\ \A i \in 1..Len(pend) :
       /\ p = FirstOf(orig) + 2 * i - 1 => cell = C("chunk", pend[i])
       /\ p = FirstOf(orig) + 2 * i => cell = C("body", pend[i])
  /\ p = PlanEnd(pend, orig) - 1 => cell = C("root", NoChunk)
  /\ p = PlanEnd(pend, orig) => cell = C("manifest", refs)

\* e has behind its first orig cells what a commit puts there
Written(e, pend, refs, orig) ==
  \A p \in (orig + 1)..Len(e) : PlanCell(pend, refs, orig, p, e[p])

Even(n) == \E m \in Nat : n = 2 * m

\* An index that is good for the first l cells, and what is staged after it
IndexGood(d, l, index) ==
  \A h \in Chunks : index[h] # 0 => /\ Kept(d, l, h)
                                    /\ index[h] <= l /\ Readable(d, index, h)
                                    /\ \A k \in Kids[h] : index[k] # 0

Staged(pend, n, h) == \E i \in 1..n : pend[i] = h
PendGood(index, pend) ==
  \A i \in 1..Len(pend) : \A k \in Kids[pend[i]] : index[k] # 0 \/ Staged(pend, i - 1, k)

Has(index, pend, h) == index[h] # 0 \/ Staged(pend, Len(pend), h)

\* e is the first orig cells of d and what a commit has written behind them
Appended(d, e, pend, refs, orig, index) ==
  /\ WellFormed(d) /\ Agree(d, e, orig) /\ Even(orig)
  /\ Written(e, pend, refs, orig)
  /\ Len(e) <= PlanEnd(pend, orig)
  /\ index \in [Chunks -> Nat] /\ pend \in Seq(Chunks) /\ refs \in Hashes
  /\ IndexGood(d, orig, index) /\ PendGood(index, pend)
  /\ refs # NoChunk => Has(index, pend, refs)

\* The records that are written, from the f-th of the file on
RecordsIn(e, pend, refs, f) ==
  /\ f >= 1 /\ Len(pend) \in Nat
  /\ \A i \in 1..Len(pend) :
       /\ pend[i] \in Chunks
       /\ 2 * (f + i - 1) + 1 <= Len(e) => IsChunk(e, f + i - 1, pend[i])
       /\ 2 * (f + i - 1) + 2 <= Len(e) => e[2 * (f + i - 1) + 2] = C("body", pend[i])
  /\ 2 * (f + Len(pend)) + 1 <= Len(e) => e[2 * (f + Len(pend)) + 1] = C("root", NoChunk)
  /\ 2 * (f + Len(pend)) + 2 <= Len(e) => e[2 * (f + Len(pend)) + 2] = C("manifest", refs)

LEMMA RecordWritten ==
  ASSUME NEW d \in Seq(Cell), NEW e \in Seq(Cell), NEW pend, NEW refs, NEW orig \in Nat,
         NEW index, Appended(d, e, pend, refs, orig, index),
         NEW f \in Nat, FirstOf(orig) = 2 * f
  PROVE  RecordsIn(e, pend, refs, f)
<1>0. Len(pend) \in Nat /\ Len(e) \in Nat /\ pend \in Seq(Chunks)
  BY DEF Appended
<1>1. f >= 1 /\ orig <= 2 * f
  BY DEF FirstOf
<1>2. ASSUME NEW p \in Nat, p <= Len(e), p > 2 * f
      PROVE  PlanCell(pend, refs, orig, p, e[p])
  <2>1. p \in (orig + 1)..Len(e)
    BY <1>0, <1>1, <1>2
  <2> QED BY <2>1 DEF Appended, Written
<1>3. ASSUME NEW i \in 1..Len(pend)
      PROVE  /\ pend[i] \in Chunks
             /\ 2 * (f + i - 1) + 1 <= Len(e) => IsChunk(e, f + i - 1, pend[i])
             /\ 2 * (f + i - 1) + 2 <= Len(e) => e[2 * (f + i - 1) + 2] = C("body", pend[i])
  <2>1. /\ 2 * (f + i - 1) + 1 \in Nat /\ 2 * (f + i - 1) + 2 \in Nat
        /\ 2 * (f + i - 1) + 1 = 2 * f + 2 * i - 1 /\ 2 * (f + i - 1) + 2 = 2 * f + 2 * i
        /\ 2 * f + 2 * i - 1 > 2 * f /\ 2 * f + 2 * i > 2 * f
    BY <1>0
  <2>2. pend[i] \in Chunks
    BY <1>0
  <2> QED BY <1>2, <2>1, <2>2 DEF PlanCell, IsChunk
<1>4. /\ 2 * (f + Len(pend)) + 1 \in Nat /\ 2 * (f + Len(pend)) + 2 \in Nat
      /\ 2 * (f + Len(pend)) + 1 = PlanEnd(pend, orig) - 1
      /\ 2 * (f + Len(pend)) + 2 = PlanEnd(pend, orig)
      /\ 2 * (f + Len(pend)) + 1 > 2 * f /\ 2 * (f + Len(pend)) + 2 > 2 * f
  BY <1>0 DEF PlanEnd
<1>5. /\ 2 * (f + Len(pend)) + 1 <= Len(e) => e[2 * (f + Len(pend)) + 1] = C("root", NoChunk)
      /\ 2 * (f + Len(pend)) + 2 <= Len(e) => e[2 * (f + Len(pend)) + 2] = C("manifest", refs)
  BY <1>2, <1>4 DEF PlanCell
<1> QED BY <1>0, <1>1, <1>3, <1>5 DEF RecordsIn

LEMMA FirstIsEven ==
  ASSUME NEW orig \in Nat, Even(orig)
  PROVE  \E f \in Nat : FirstOf(orig) = 2 * f
<1>1. PICK m \in Nat : orig = 2 * m
  BY DEF Even
<1>2. FirstOf(orig) = 2 * m \/ FirstOf(orig) = 2 * 1
  BY <1>1 DEF FirstOf
<1> QED BY <1>2

\* Records are where they were, or behind the first orig cells
RecordCase(e, pend, orig, f) ==
  \A r \in Nat \ {0} : 2 * r + 1 <= Len(e) =>
    \/ 2 * r + 2 <= orig
    \/ \E i \in 1..Len(pend) : r = f + i - 1
    \/ r = f + Len(pend)

LEMMA RecordCases ==
  ASSUME NEW d \in Seq(Cell), NEW e \in Seq(Cell), NEW pend, NEW refs, NEW orig \in Nat,
         NEW index, Appended(d, e, pend, refs, orig, index),
         NEW f \in Nat, FirstOf(orig) = 2 * f
  PROVE  RecordCase(e, pend, orig, f)
<1> SUFFICES ASSUME NEW r \in Nat \ {0}, 2 * r + 1 <= Len(e), ~(2 * r + 2 <= orig)
             PROVE  (\E i \in 1..Len(pend) : r = f + i - 1) \/ r = f + Len(pend)
  BY DEF RecordCase
<1>1. PICK m \in Nat : orig = 2 * m
  BY DEF Appended, Even
<1>2. r >= f
  <2>1. 2 * r + 2 > 2 * m
    BY <1>1
  <2>2. CASE orig = 0
    <3>1. 2 * f = 2
      BY <2>2 DEF FirstOf
    <3> QED BY <3>1
  <2>3. CASE orig # 0
    <3>1. f = m
      BY <1>1, <2>3 DEF FirstOf
    <3> QED BY <2>1, <3>1
  <2> QED BY <2>2, <2>3
<1>3. Len(pend) \in Nat /\ Len(e) \in Nat
  BY DEF Appended
<1>4. 2 * r + 1 <= 2 * f + 2 * Len(pend) + 2
  BY <1>3 DEF Appended, PlanEnd
<1>5. r <= f + Len(pend)
  BY <1>3, <1>4
<1>6. r # f + Len(pend) => r - f + 1 \in 1..Len(pend) /\ r = f + (r - f + 1) - 1
  BY <1>2, <1>3, <1>5
<1> QED BY <1>6

\* What is indexed or staged before a record of the commit is before it in the log
LEMMA StagedBefore ==
  ASSUME NEW d \in Seq(Cell), NEW e \in Seq(Cell), NEW pend, NEW refs, NEW orig \in Nat,
         NEW index, Appended(d, e, pend, refs, orig, index),
         NEW f \in Nat, FirstOf(orig) = 2 * f,
         NEW n \in 0..Len(pend), 2 * (f + n) + 1 <= Len(e),
         NEW h \in Chunks, index[h] # 0 \/ Staged(pend, n, h)
  PROVE  Before(e, f + n, h)
<1>0. Len(pend) \in Nat /\ Len(e) \in Nat /\ n \in Nat
  BY DEF Appended
<1>r. RecordsIn(e, pend, refs, f)
  BY RecordWritten
<1>1. CASE index[h] # 0
  <2>1. Kept(d, orig, h)
    BY <1>1 DEF Appended, IndexGood
  <2>2. PICK r \in 1..orig : RootAt(d, orig, r) /\ Before(d, r, h)
    BY <2>1 DEF Kept
  <2>3. PICK q \in 1..(r - 1) : IsChunk(d, q, h)
    BY <2>2 DEF Before
  <2>4. 2 * r + 2 <= orig /\ orig <= 2 * f
    BY <2>2 DEF RootAt, FirstOf
  <2>5. 2 * q + 1 \in 1..orig /\ q \in 1..(f + n - 1)
    BY <1>0, <2>4
  <2>6. IsChunk(e, q, h)
    BY <2>3, <2>5 DEF Appended, Agree, IsChunk
  <2> QED BY <2>5, <2>6 DEF Before
<1>2. CASE Staged(pend, n, h)
  <2>1. PICK i \in 1..n : pend[i] = h
    BY <1>2 DEF Staged
  <2>2. i \in 1..Len(pend) /\ 2 * (f + i - 1) + 1 <= Len(e) /\ f >= 1
    BY <1>0, <1>r DEF RecordsIn
  <2>3. IsChunk(e, f + i - 1, h)
    BY <2>1, <2>2, <1>r DEF RecordsIn
  <2>4. f + i - 1 \in 1..(f + n - 1)
    BY <1>0, <2>2
  <2> QED BY <2>3, <2>4 DEF Before
<1> QED BY <1>1, <1>2

\* Appending to a log whose records are complete, as csCommitToFile does, leaves
\* a well-formed log at every point
LEMMA AppendWellFormed ==
  ASSUME NEW d \in Seq(Cell), NEW e \in Seq(Cell), NEW pend, NEW refs, NEW orig \in Nat,
         NEW index, Appended(d, e, pend, refs, orig, index)
  PROVE  WellFormed(e)
<1> SUFFICES ASSUME NEW r \in 1..Len(e), 2 * r + 1 <= Len(e)
             PROVE  ChunkRecord(e, r) \/ RootRecord(e, r)
  BY DEF WellFormed
<1>0. Len(d) \in Nat /\ Len(e) \in Nat /\ Len(pend) \in Nat /\ r \in Nat \ {0}
  BY DEF Appended
<1>1. PICK f \in Nat : FirstOf(orig) = 2 * f
  BY FirstIsEven DEF Appended
<1>r. RecordsIn(e, pend, refs, f) /\ RecordCase(e, pend, orig, f)
  BY <1>1, RecordWritten, RecordCases
<1>2. CASE 2 * r + 2 <= orig
  <2>1. /\ r \in 1..Len(d) /\ 2 * r + 1 <= Len(d) /\ 2 * r + 2 <= Len(d) /\ 2 * r + 2 <= Len(e)
        /\ 2 * r + 1 \in 1..orig /\ 2 * r + 2 \in 1..orig
        /\ \A q \in 1..(r - 1) : 2 * q + 1 \in 1..orig
    BY <1>0, <1>2 DEF Appended, Agree
  <2>2. /\ e[2 * r + 1] = d[2 * r + 1] /\ e[2 * r + 2] = d[2 * r + 2]
        /\ \A h : Before(d, r, h) => Before(e, r, h)
    BY <2>1 DEF Appended, Agree, Before, IsChunk
  <2>3. ChunkRecord(d, r) \/ RootRecord(d, r)
    BY <2>1 DEF Appended, WellFormed
  <2>4. CASE ChunkRecord(d, r)
    <3>1. PICK h \in Chunks : /\ IsChunk(d, r, h) /\ d[2 * r + 2] = C("body", h)
                              /\ \A k \in Kids[h] : Before(d, r, k)
      BY <2>1, <2>4 DEF ChunkRecord
    <3>2. /\ IsChunk(e, r, h) /\ e[2 * r + 2] = C("body", h)
          /\ \A k \in Kids[h] : Before(e, r, k)
      BY <2>2, <3>1 DEF IsChunk
    <3> QED BY <3>2 DEF ChunkRecord
  <2>5. CASE RootRecord(d, r)
    BY <2>1, <2>2, <2>5 DEF RootRecord, IsRoot
  <2> QED BY <2>3, <2>4, <2>5
<1>3. ASSUME NEW i \in 1..Len(pend), r = f + i - 1
      PROVE  ChunkRecord(e, r)
  <2>1. /\ pend[i] \in Chunks
        /\ IsChunk(e, r, pend[i])
        /\ 2 * r + 2 <= Len(e) => e[2 * r + 2] = C("body", pend[i])
    BY <1>r, <1>3 DEF RecordsIn
  <2>2. ASSUME NEW k \in Kids[pend[i]] PROVE Before(e, r, k)
    <3>1. k \in Chunks
      BY <2>1, ChunksAssumption
    <3>2. index[k] # 0 \/ Staged(pend, i - 1, k)
      BY DEF Appended, PendGood
    <3>3. i - 1 \in 0..Len(pend) /\ f + (i - 1) = r
      BY <1>0, <1>3
    <3>4. Before(e, f + (i - 1), k)
      BY <1>1, <3>1, <3>2, <3>3, StagedBefore
    <3> QED BY <3>3, <3>4
  <2> QED BY <2>1, <2>2 DEF ChunkRecord
<1>4. ASSUME r = f + Len(pend)
      PROVE  RootRecord(e, r)
  <2>1. /\ e[2 * r + 1] = C("root", NoChunk)
        /\ 2 * r + 2 <= Len(e) => e[2 * r + 2] = C("manifest", refs)
    BY <1>r, <1>4 DEF RecordsIn
  <2>2. ASSUME refs # NoChunk PROVE Before(e, r, refs)
    <3>1. refs \in Chunks /\ (index[refs] # 0 \/ Staged(pend, Len(pend), refs))
      BY <2>2 DEF Appended, Has, Hashes
    <3>2. Len(pend) \in 0..Len(pend)
      BY <1>0
    <3> QED BY <1>1, <1>4, <3>1, <3>2, StagedBefore
  <2>3. C("root", NoChunk).kind = "root" /\ C("manifest", refs).kind = "manifest"
        /\ C("manifest", refs).of = refs
    BY DEF C
  <2> QED BY <2>1, <2>2, <2>3 DEF RootRecord, IsRoot
<1>5. (\E i \in 1..Len(pend) : r = f + i - 1) \/ r = f + Len(pend) \/ 2 * r + 2 <= orig
  BY <1>0, <1>r DEF RecordCase
<1> QED BY <1>2, <1>3, <1>4, <1>5

\* Until its root record is complete it is of the refs it was of,
LEMMA UntilRoot ==
  ASSUME NEW d \in Seq(Cell), NEW e \in Seq(Cell), NEW pend, NEW refs, NEW orig \in Nat,
         NEW index, Appended(d, e, pend, refs, orig, index),
         Len(e) < PlanEnd(pend, orig), orig <= Len(e), NEW a, RefsAre(d, orig, a)
  PROVE  RefsAre(e, Len(e), a)
<1>0. Len(d) \in Nat /\ Len(e) \in Nat /\ Len(pend) \in Nat
  BY DEF Appended
<1>1. PICK f \in Nat : FirstOf(orig) = 2 * f
  BY FirstIsEven DEF Appended
<1>r. RecordsIn(e, pend, refs, f) /\ RecordCase(e, pend, orig, f)
  BY <1>1, RecordWritten, RecordCases
<1>2. \A r \in 1..Len(e) : RootAt(e, Len(e), r) => r \in 1..orig /\ RootAt(e, orig, r)
  <2> SUFFICES ASSUME NEW r \in 1..Len(e), RootAt(e, Len(e), r)
               PROVE  2 * r + 2 <= orig
    BY <1>0 DEF RootAt
  <2>0. 2 * r + 2 <= Len(e) /\ 2 * r + 1 <= Len(e) /\ r \in Nat \ {0}
    BY <1>0 DEF RootAt
  <2>1. r # f + Len(pend)
    BY <1>0, <1>1, <2>0 DEF PlanEnd
  <2>2. ASSUME NEW i \in 1..Len(pend), r = f + i - 1 PROVE FALSE
    <3>1. IsChunk(e, r, pend[i])
      BY <1>r, <2>0, <2>2 DEF RecordsIn
    <3> QED BY <3>1 DEF IsChunk, RootAt, IsRoot, C
  <2> QED BY <1>r, <2>0, <2>1, <2>2 DEF RecordCase
<1>3. RefsAre(e, orig, a)
  BY RefsStay DEF Appended
<1>4. \A r \in 1..orig : r \in 1..Len(e) /\ (RootAt(e, orig, r) => RootAt(e, Len(e), r))
  BY <1>0 DEF RootAt
<1>5. \A r \in 1..orig : LastRoot(e, orig, r) => LastRoot(e, Len(e), r)
  BY <1>2, <1>4 DEF LastRoot
<1> QED BY <1>2, <1>3, <1>4, <1>5 DEF RefsAre

\* What is staged can be read where Landed says
BodiesIn(e, pend, orig) ==
  \A i \in 1..Len(pend) : /\ FirstOf(orig) + 2 * i \in 1..Len(e)
                          /\ e[FirstOf(orig) + 2 * i] = C("body", pend[i])

\* and then of those that were committed, with all that is indexed or staged
LEMMA FromRoot ==
  ASSUME NEW d \in Seq(Cell), NEW e \in Seq(Cell), NEW pend, NEW refs, NEW orig \in Nat,
         NEW index, Appended(d, e, pend, refs, orig, index),
         Len(e) = PlanEnd(pend, orig)
  PROVE  /\ RefsAre(e, Len(e), refs)
         /\ \A h \in Chunks : Has(index, pend, h) => Kept(e, Len(e), h)
         /\ BodiesIn(e, pend, orig)
<1>0. Len(d) \in Nat /\ Len(e) \in Nat /\ Len(pend) \in Nat
  BY DEF Appended
<1>1. PICK f \in Nat : FirstOf(orig) = 2 * f
  BY FirstIsEven DEF Appended
<1>r. RecordsIn(e, pend, refs, f) /\ RecordCase(e, pend, orig, f)
  BY <1>1, RecordWritten, RecordCases
<1> DEFINE r == f + Len(pend)
<1>2. /\ 2 * r + 2 = Len(e) /\ r \in 1..Len(e) /\ 2 * r + 1 <= Len(e) /\ r \in Nat
      /\ Len(pend) \in 0..Len(pend)
  BY <1>0, <1>1, <1>r DEF PlanEnd, RecordsIn
<1>3. e[2 * r + 1] = C("root", NoChunk) /\ e[2 * r + 2] = C("manifest", refs)
  BY <1>r, <1>2 DEF RecordsIn
<1>4. RootAt(e, Len(e), r) /\ e[2 * r + 2].of = refs
  BY <1>2, <1>3 DEF RootAt, IsRoot, C
<1>5. \A q \in 1..Len(e) : RootAt(e, Len(e), q) => q <= r
  BY <1>2 DEF RootAt
<1>6. RefsAre(e, Len(e), refs)
  BY <1>2, <1>4, <1>5 DEF RefsAre, LastRoot
<1>7. ASSUME NEW h \in Chunks, Has(index, pend, h)
      PROVE  Kept(e, Len(e), h)
  <2>1. Before(e, r, h)
    BY <1>1, <1>2, <1>7, StagedBefore DEF Has
  <2> QED BY <1>2, <1>4, <2>1 DEF Kept
<1>8. ASSUME NEW i \in 1..Len(pend)
      PROVE  /\ FirstOf(orig) + 2 * i \in 1..Len(e)
             /\ e[FirstOf(orig) + 2 * i] = C("body", pend[i])
  <2>1. /\ 2 * (f + i - 1) + 2 = FirstOf(orig) + 2 * i /\ 2 * (f + i - 1) + 2 <= Len(e)
        /\ FirstOf(orig) + 2 * i \in 1..Len(e)
    BY <1>0, <1>1 DEF PlanEnd
  <2> QED BY <1>r, <2>1 DEF RecordsIn
<1> QED BY <1>6, <1>7, <1>8 DEF BodiesIn

-----------------------------------------------------------------------------
(* The writes of a commit.                                                 *)

\* t is a sequence of writes that follow each other from cell at on, the last
\* one of which completes the root record
Cuts(t, at, pend, refs, orig, cut) ==
  /\ cut \in [0..Len(t) -> Nat]
  /\ cut[0] = at /\ cut[Len(t)] = PlanEnd(pend, orig)
  /\ \A j \in 1..Len(t) :
       /\ cut[j - 1] <= PlanEnd(pend, orig) - 2 /\ cut[j - 1] <= cut[j]
       /\ Len(t[j]) = cut[j] - cut[j - 1]
       /\ \A i \in 1..Len(t[j]) : PlanCell(pend, refs, orig, cut[j - 1] + i, t[j][i])

Queue(t, at, pend, refs, orig) == \E cut : Cuts(t, at, pend, refs, orig, cut)

LEMMA ConcatIs ==
  \A S : \A s, t \in Seq(S) :
    /\ s \o t \in Seq(S)
    /\ Len(s) \in Nat /\ Len(t) \in Nat /\ Len(s \o t) = Len(s) + Len(t)
    /\ \A i \in 1..Len(s) : (s \o t)[i] = s[i]
    /\ \A i \in 1..Len(t) : (s \o t)[Len(s) + i] = t[i]
<1> TAKE S
<1> TAKE s, t \in Seq(S)
<1> QED OBVIOUS

LEMMA CIsCell ==
  ASSUME NEW h \in Hashes, NEW k \in {"first", "manifest", "root", "chunk", "body"}
  PROVE  C(k, h) \in Cell
  BY DEF C, Cell

LEMMA WritesAre ==
  ASSUME NEW refs \in Hashes, NEW batch \in BOOLEAN, cs.pend \in Seq(Chunks),
         NEW orig \in Nat
  PROVE  /\ Writes(refs, batch) \in Seq(Seq(Cell))
         /\ Queue(Writes(refs, batch), FirstOf(orig), cs.pend, refs, orig)
<1> DEFINE n == Len(cs.pend)
           F == FirstOf(orig)
           P(p, c) == PlanCell(cs.pend, refs, orig, p, c)
           cell(i) == C(IF i % 2 = 1 THEN "chunk" ELSE "body", cs.pend[(i + 1) \div 2])
           cells == [i \in 1..2 * n |-> cell(i)]
           root == <<C("root", NoChunk), C("manifest", refs)>>
<1>0. n \in Nat /\ F \in Nat /\ PlanEnd(cs.pend, orig) = F + 2 * n + 2 /\ 2 * n \in Nat
  BY DEF FirstOf, PlanEnd
<1>1. \A i \in 1..2 * n : \E k \in 1..n : \/ i = 2 * k - 1 /\ cell(i) = C("chunk", cs.pend[k])
                                          \/ i = 2 * k /\ cell(i) = C("body", cs.pend[k])
  <2> TAKE i \in 1..2 * n
  <2> DEFINE k == (i + 1) \div 2
  <2>1. k \in 1..n /\ (i % 2 = 1 => i = 2 * k - 1) /\ (i % 2 # 1 => i = 2 * k)
    BY <1>0
  <2>2. cell(i) = C(IF i % 2 = 1 THEN "chunk" ELSE "body", cs.pend[k])
    OBVIOUS
  <2> HIDE DEF k, cell
  <2> QED BY <2>1, <2>2
<1>2. \A i \in 1..2 * n : cell(i) \in Cell /\ P(F + i, cell(i))
  <2> TAKE i \in 1..2 * n
  <2>1. PICK k \in 1..n : \/ i = 2 * k - 1 /\ cell(i) = C("chunk", cs.pend[k])
                          \/ i = 2 * k /\ cell(i) = C("body", cs.pend[k])
    BY <1>1
  <2> HIDE DEF cell
  <2>2. cs.pend[k] \in Hashes
    BY DEF Hashes
  <2>3. cell(i) \in Cell
    BY <2>1, <2>2, CIsCell
  <2>4. \A x \in 1..n : /\ F + i = F + 2 * x - 1 => i = 2 * x - 1
                        /\ F + i = F + 2 * x => i = 2 * x
    BY <1>0
  <2>5. F + i # F + 2 * n + 1 /\ F + i # F + 2 * n + 2
    BY <1>0
  <2>6. \A x \in 1..n : /\ i = 2 * x - 1 => cell(i) = C("chunk", cs.pend[x])
                        /\ i = 2 * x => cell(i) = C("body", cs.pend[x])
    <3> TAKE x \in 1..n
    <3>1. CASE i = 2 * k - 1
      <4>1. i # 2 * x /\ (i = 2 * x - 1 => x = k) /\ i # 2 * k
        BY <1>0, <3>1
      <4> QED BY <2>1, <4>1
    <3>2. CASE i = 2 * k
      <4>1. i # 2 * x - 1 /\ (i = 2 * x => x = k) /\ i # 2 * k - 1
        BY <1>0, <3>2
      <4> QED BY <2>1, <4>1
    <3> QED BY <2>1, <3>1, <3>2
  <2>7. P(F + i, cell(i))
    BY <1>0, <2>4, <2>5, <2>6 DEF PlanCell
  <2> QED BY <2>3, <2>7
<1>3. /\ cells \in Seq(Cell) /\ Len(cells) = 2 * n
      /\ \A i \in 1..2 * n : cells[i] \in Cell /\ P(F + i, cells[i])
  <2>1. cells \in Seq(Cell)
    BY <1>0, <1>2
  <2> QED BY <1>0, <1>2, <2>1
<1>4. /\ root \in Seq(Cell) /\ Len(root) = 2
      /\ P(F + 2 * n + 1, root[1]) /\ P(F + 2 * n + 2, root[2])
  <2>1. C("root", NoChunk) \in Cell /\ C("manifest", refs) \in Cell
    BY CIsCell DEF Hashes
  <2>2. \A x \in 1..n : /\ F + 2 * n + 1 # F + 2 * x - 1 /\ F + 2 * n + 1 # F + 2 * x
                        /\ F + 2 * n + 2 # F + 2 * x - 1 /\ F + 2 * n + 2 # F + 2 * x
    BY <1>0
  <2>3. P(F + 2 * n + 1, C("root", NoChunk)) /\ P(F + 2 * n + 2, C("manifest", refs))
    BY <1>0, <2>2 DEF PlanCell
  <2> QED BY <2>1, <2>3
<1>e. \A j \in Nat \ {0} : j - 1 \in Nat
  OBVIOUS
<1> HIDE DEF root, cells, P, cell, n, F
<1>5. CASE n = 0
  <2>1. Writes(refs, batch) = <<root>>
    <3>1. Writes(refs, batch) = <<>> \o <<root>>
      BY <1>5 DEF Writes, root, n
    <3>2. <<root>> \in Seq(Seq(Cell))
      BY <1>4
    <3>3. \A r \in Seq(Seq(Cell)) : <<>> \o r = r
      OBVIOUS
    <3> QED BY <3>1, <3>2, <3>3
  <2> DEFINE cut == [j \in 0..1 |-> IF j = 0 THEN F ELSE F + 2]
  <2>2. cut \in [0..1 -> Nat] /\ cut[0] = F /\ cut[1] = F + 2
    BY <1>0
  <2>3. Len(<<root>>) = 1 /\ <<root>>[1] = root /\ <<root>> \in Seq(Seq(Cell))
    BY <1>4
  <2>4. \A i \in 1..2 : P(F + i, root[i])
    BY <1>0, <1>4, <1>5
  <2> HIDE DEF cut
  <2>5. Cuts(<<root>>, F, cs.pend, refs, orig, cut)
    <3>1. \A j \in 1..1 : j = 1 /\ j - 1 = 0
      OBVIOUS
    <3>2. PlanEnd(cs.pend, orig) = F + 2 /\ PlanEnd(cs.pend, orig) - 2 = F
      BY <1>0, <1>5
    <3>3. F <= F /\ F <= F + 2 /\ 2 = (F + 2) - F
      BY <1>0
    <3> QED BY <1>4, <2>2, <2>3, <2>4, <3>1, <3>2, <3>3 DEF Cuts, P
  <2> QED BY <2>1, <2>3, <2>5 DEF Queue, F
<1>6. CASE n # 0 /\ batch
  <2> DEFINE t == <<cells>> \o <<root>>
  <2>1. Writes(refs, batch) = t
    BY <1>6 DEF Writes, root, cells, cell, n
  <2> DEFINE cut == [j \in 0..2 |-> IF j = 0 THEN F ELSE IF j = 1 THEN F + 2 * n ELSE F + 2 * n + 2]
  <2>2. cut \in [0..2 -> Nat] /\ cut[0] = F /\ cut[1] = F + 2 * n /\ cut[2] = F + 2 * n + 2
    BY <1>0
  <2>3. Len(t) = 2 /\ t[1] = cells /\ t[2] = root /\ t \in Seq(Seq(Cell))
    <3>1. cells \in Seq(Cell) /\ root \in Seq(Cell)
      BY <1>3, <1>4
    <3> QED BY <3>1
  <2>4. \A i \in 1..2 : P(F + 2 * n + i, root[i])
    BY <1>0, <1>4
  <2> HIDE DEF cut, t
  <2>5. ASSUME NEW j \in 1..Len(t)
        PROVE  /\ cut[j - 1] <= F + 2 * n /\ cut[j - 1] <= cut[j]
               /\ Len(t[j]) = cut[j] - cut[j - 1]
               /\ \A i \in 1..Len(t[j]) : P(cut[j - 1] + i, t[j][i])
    <3>1. CASE j = 1
      <4>1. j - 1 = 0 /\ cut[j - 1] = F /\ cut[j] = F + 2 * n /\ t[j] = cells
        BY <2>2, <2>3, <3>1
      <4>2. F <= F + 2 * n /\ 2 * n = (F + 2 * n) - F
        BY <1>0
      <4> QED BY <1>3, <4>1, <4>2
    <3>2. CASE j = 2
      <4>1. j - 1 = 1 /\ cut[j - 1] = F + 2 * n /\ cut[j] = F + 2 * n + 2 /\ t[j] = root
        BY <2>2, <2>3, <3>2
      <4>2. F + 2 * n <= F + 2 * n /\ F + 2 * n <= F + 2 * n + 2 /\ 2 = (F + 2 * n + 2) - (F + 2 * n)
        BY <1>0
      <4> QED BY <1>4, <2>4, <4>1, <4>2
    <3> QED BY <2>3, <3>1, <3>2
  <2>6. F + 2 * n = PlanEnd(cs.pend, orig) - 2
    BY <1>0
  <2>7. Cuts(t, F, cs.pend, refs, orig, cut)
    BY <1>0, <2>2, <2>3, <2>5, <2>6 DEF Cuts, P
  <2> QED BY <2>1, <2>3, <2>7 DEF Queue, F
<1>7. CASE n # 0 /\ ~batch
  <2> DEFINE s == [i \in 1..2 * n |-> <<cells[i]>>]
             t == s \o <<root>>
  <2>1. Writes(refs, batch) = t
    BY <1>7 DEF Writes, root, cells, cell, n
  <2>2. s \in Seq(Seq(Cell)) /\ Len(s) = 2 * n /\ \A i \in 1..2 * n : s[i] = <<cells[i]>>
    BY <1>0, <1>3
  <2> HIDE DEF s
  <2>3. /\ t \in Seq(Seq(Cell)) /\ Len(t) = 2 * n + 1
        /\ \A i \in 1..2 * n : t[i] = <<cells[i]>>
        /\ t[2 * n + 1] = root
    <3>1. <<root>> \in Seq(Seq(Cell)) /\ Len(<<root>>) = 1 /\ <<root>>[1] = root
      BY <1>4
    <3> DEFINE r == <<root>>
    <3> HIDE DEF r
    <3>2. r \in Seq(Seq(Cell)) /\ Len(r) = 1 /\ r[1] = root
      BY <3>1 DEF r
    <3>3. /\ s \o r \in Seq(Seq(Cell)) /\ Len(s \o r) = Len(s) + Len(r)
          /\ \A i \in 1..Len(s) : (s \o r)[i] = s[i]
          /\ \A i \in 1..Len(r) : (s \o r)[Len(s) + i] = r[i]
      <4>1. s \in Seq(Seq(Cell)) /\ r \in Seq(Seq(Cell))
        BY <2>2, <3>2
      <4> QED BY ONLY <4>1, ConcatIs
    <3>4. (s \o r)[2 * n + 1] = r[1]
      BY <2>2, <3>2, <3>3
    <3> QED BY <2>2, <3>2, <3>3, <3>4 DEF r
  <2> DEFINE cut == [j \in 0..(2 * n + 1) |-> IF j = 2 * n + 1 THEN F + 2 * n + 2 ELSE F + j]
  <2>4. /\ cut \in [0..(2 * n + 1) -> Nat] /\ cut[0] = F /\ cut[2 * n + 1] = F + 2 * n + 2
        /\ \A j \in 1..(2 * n + 1) : cut[j - 1] = F + j - 1
        /\ \A j \in 1..2 * n : cut[j] = F + j
    BY <1>0
  <2>5. \A i \in 1..2 : P(F + 2 * n + i, root[i])
    BY <1>0, <1>4
  <2> HIDE DEF cut, t
  <2>6. ASSUME NEW j \in 1..Len(t)
        PROVE  /\ cut[j - 1] <= F + 2 * n /\ cut[j - 1] <= cut[j]
               /\ Len(t[j]) = cut[j] - cut[j - 1]
               /\ \A i \in 1..Len(t[j]) : P(cut[j - 1] + i, t[j][i])
    <3>1. CASE j \in 1..2 * n
      <4>0. j \in Nat /\ j \in 1..(2 * n + 1) /\ (F + j - 1) + 1 = F + j
        BY <1>0, <3>1
      <4>1. Len(t[j]) = 1 /\ t[j][1] = cells[j] /\ cut[j - 1] = F + j - 1 /\ cut[j - 1] + 1 = F + j
            /\ cut[j] = F + j
        <5>1. t[j] = <<cells[j]>>
          BY <2>3, <3>1
        <5>2. Len(t[j]) = 1 /\ t[j][1] = cells[j]
          BY <5>1
        <5>3. cut[j - 1] = F + j - 1
          BY <2>4, <4>0
        <5>4. cut[j] = F + j
          BY <2>4, <3>1
        <5> QED BY <4>0, <5>2, <5>3, <5>4
      <4>2. \A i \in 1..1 : i = 1
        OBVIOUS
      <4>3. \A i \in 1..Len(t[j]) : P(cut[j - 1] + i, t[j][i])
        BY <1>3, <3>1, <4>1, <4>2
      <4>4. F + j - 1 <= F + 2 * n /\ F + j - 1 <= F + j /\ 1 = (F + j) - (F + j - 1)
        BY <1>0, <3>1, <4>0
      <4> QED BY <4>1, <4>3, <4>4
    <3>2. CASE j = 2 * n + 1
      <4>0. j \in 1..(2 * n + 1) /\ F + j - 1 = F + 2 * n
        BY <1>0, <3>2
      <4>1. cut[j - 1] = F + 2 * n /\ cut[j] = F + 2 * n + 2 /\ t[j] = root
        BY <2>3, <2>4, <3>2, <4>0
      <4>2. F + 2 * n <= F + 2 * n /\ F + 2 * n <= F + 2 * n + 2 /\ 2 = (F + 2 * n + 2) - (F + 2 * n)
        BY <1>0
      <4> QED BY <1>4, <2>5, <4>1, <4>2
    <3>3. \A i \in 1..(2 * n + 1) : i \in 1..2 * n \/ i = 2 * n + 1
      BY <1>0
    <3> QED BY <2>3, <3>1, <3>2, <3>3
  <2>7. F + 2 * n = PlanEnd(cs.pend, orig) - 2
    BY <1>0
  <2>8. Cuts(t, F, cs.pend, refs, orig, cut)
    BY <1>0, <2>3, <2>4, <2>6, <2>7 DEF Cuts, P
  <2> QED BY <2>1, <2>3, <2>8 DEF Queue, F
<1> QED BY <1>5, <1>6, <1>7

\* Of a new file the manifest is written first
LEMMA CommitWrites ==
  ASSUME NEW refs \in Hashes, NEW batch \in BOOLEAN, cs.pend \in Seq(Chunks), disk \in Seq(Cell)
  PROVE  /\ FirstWrite(refs) \o Writes(refs, batch) \in Seq(Seq(Cell))
         /\ Queue(FirstWrite(refs) \o Writes(refs, batch), Len(disk), cs.pend, refs, Len(disk))
<1> DEFINE w == Writes(refs, batch)
           orig == Len(disk)
<1>0. orig \in Nat /\ (disk = <<>> <=> orig = 0)
  OBVIOUS
<1> HIDE DEF orig
<1>1. w \in Seq(Seq(Cell)) /\ Queue(w, FirstOf(orig), cs.pend, refs, orig)
  BY <1>0, WritesAre
<1> HIDE DEF w
<1>2. CASE orig # 0
  <2>1. FirstWrite(refs) = <<>> /\ FirstOf(orig) = orig
    BY <1>0, <1>2 DEF FirstWrite, FirstOf
  <2>2. FirstWrite(refs) \o w = w
    BY <1>1, <2>1
  <2> QED BY <1>1, <2>1, <2>2 DEF w, orig
<1>3. CASE orig = 0
  <2> DEFINE first == <<C("first", refs), C("manifest", refs)>>
             t == <<first>> \o w
  <2>1. FirstWrite(refs) = <<first>> /\ FirstOf(orig) = 2
    BY <1>0, <1>3 DEF FirstWrite, FirstOf
  <2>2. first \in Seq(Cell) /\ Len(first) = 2
    BY CIsCell
  <2> HIDE DEF first
  <2>3. /\ t \in Seq(Seq(Cell)) /\ Len(t) = Len(w) + 1 /\ t[1] = first
        /\ \A j \in 2..(Len(w) + 1) : t[j] = w[j - 1]
    BY <1>1, <2>2
  <2> HIDE DEF t
  <2>4. PICK c : Cuts(w, 2, cs.pend, refs, orig, c)
    BY <1>1, <2>1 DEF Queue
  <2> DEFINE cut == [j \in 0..Len(t) |-> IF j = 0 THEN 0 ELSE c[j - 1]]
  <2>5. Len(w) \in Nat /\ c \in [0..Len(w) -> Nat] /\ c[0] = 2
    BY <1>1, <2>4 DEF Cuts
  <2>6. /\ cut \in [0..Len(t) -> Nat] /\ cut[0] = 0 /\ cut[1] = 2
        /\ \A j \in 1..Len(t) : cut[j] = c[j - 1]
        /\ \A j \in 2..Len(t) : cut[j - 1] = c[j - 2]
    BY <2>3, <2>5
  <2> HIDE DEF cut
  <2>7. cut[Len(t)] = PlanEnd(cs.pend, orig) /\ PlanEnd(cs.pend, orig) - 2 >= 0
        /\ PlanEnd(cs.pend, orig) - 2 = 2 + 2 * Len(cs.pend) /\ Len(cs.pend) \in Nat
    <3>1. Len(t) \in 1..Len(t) /\ Len(t) - 1 = Len(w)
      BY <2>3, <2>5
    <3>2. cut[Len(t)] = c[Len(w)]
      BY <2>6, <3>1
    <3>3. c[Len(w)] = PlanEnd(cs.pend, orig)
      BY <2>4 DEF Cuts
    <3>4. \A i \in Nat : 2 + 2 * i + 2 - 2 = 2 + 2 * i /\ 2 + 2 * i >= 0
      OBVIOUS
    <3>5. Len(cs.pend) \in Nat /\ PlanEnd(cs.pend, orig) = 2 + 2 * Len(cs.pend) + 2
      BY <2>1 DEF PlanEnd
    <3> QED BY <3>2, <3>3, <3>4, <3>5
  <2>8. ASSUME NEW j \in 1..Len(t)
        PROVE  /\ cut[j - 1] <= PlanEnd(cs.pend, orig) - 2 /\ cut[j - 1] <= cut[j]
               /\ Len(t[j]) = cut[j] - cut[j - 1]
               /\ \A i \in 1..Len(t[j]) : PlanCell(cs.pend, refs, orig, cut[j - 1] + i, t[j][i])
    <3>1. CASE j = 1
      <4>1. cut[j - 1] = 0 /\ cut[j] = 2 /\ Len(t[j]) = 2
        BY <2>2, <2>3, <2>6, <3>1
      <4>2. ASSUME NEW i \in 1..2 PROVE PlanCell(cs.pend, refs, orig, i, t[j][i])
        <5>1. /\ \A x \in 1..Len(cs.pend) : i # 2 + 2 * x - 1 /\ i # 2 + 2 * x
              /\ i # PlanEnd(cs.pend, orig) - 1 /\ i # PlanEnd(cs.pend, orig)
          <6> DEFINE q == Len(cs.pend)
                     z == PlanEnd(cs.pend, orig)
          <6>1. q \in Nat /\ z - 2 = 2 + 2 * q /\ z = 2 + 2 * q + 2
            BY <2>1, <2>7 DEF PlanEnd
          <6> HIDE DEF q, z
          <6>2. /\ \A x \in 1..q : i # 2 + 2 * x - 1 /\ i # 2 + 2 * x
                /\ i # z - 1 /\ i # z
            BY <6>1
          <6> QED BY <6>2 DEF q, z
        <5> QED BY <2>1, <5>1 DEF PlanCell
      <4>3. \A i \in 1..2 : cut[j - 1] + i = i
        BY <4>1
      <4> QED BY <2>7, <4>1, <4>2, <4>3
    <3>2. CASE j \in 2..Len(t)
      <4>1. j - 1 \in 1..Len(w) /\ (j - 1) - 1 = j - 2 /\ cut[j] = c[j - 1] /\ cut[j - 1] = c[j - 2]
            /\ t[j] = w[j - 1]
        BY <2>3, <2>5, <2>6, <3>2
      <4> QED BY <2>4, <4>1 DEF Cuts
    <3> QED BY <2>3, <2>5, <3>1, <3>2
  <2>9. Cuts(t, 0, cs.pend, refs, orig, cut)
    BY <2>6, <2>7, <2>8 DEF Cuts
  <2>10. Queue(t, orig, cs.pend, refs, orig)
    BY <1>3, <2>9 DEF Queue
  <2> QED BY <2>1, <2>3, <2>10 DEF t, w, orig
<1> QED BY <1>2, <1>3

-----------------------------------------------------------------------------
(* Type correctness.                                                       *)

\* A commit that is under way is behind what was acknowledged
SizeInv == job.busy => /\ cs.open
                       /\ safe <= job.orig /\ job.orig <= job.off
                       /\ job.off = Len(disk)

TypeInv == TypeOK /\ SizeInv

LEMMA TypeParts ==
  ASSUME TypeOK
  PROVE  /\ disk \in Seq(Cell) /\ Len(disk) \in Nat
         /\ cs.open \in BOOLEAN /\ cs.seen \in Nat /\ cs.index \in [Chunks -> Nat]
         /\ cs.pend \in Seq(Chunks) /\ cs.refs \in Hashes /\ cs.committed \in Hashes
         /\ job.busy \in BOOLEAN /\ job.todo \in Seq(Seq(Cell))
         /\ job.off \in Nat /\ job.orig \in Nat
         /\ acked \in Hashes /\ safe \in Nat /\ safe <= Len(disk) /\ soiled \in BOOLEAN
  BY DEF TypeOK, Store, Job

LEMMA Idle == ClosedStore \in Store /\ IdleJob \in Job
  BY DEF ClosedStore, Store, NoIndex, IdleJob, Job, Hashes

LEMMA ReloadedIs ==
  ASSUME TypeOK, NEW r, OpenedType(r)
  PROVE  /\ Reloaded(r) \in Store
         /\ Reloaded(r).index = r.index /\ Reloaded(r).refs = r.refs
         /\ Reloaded(r).committed = r.refs /\ Reloaded(r).pend = cs.pend
         /\ Reloaded(r).open = cs.open
<1>1. cs \in Store /\ Len(disk) \in Nat /\ r.index \in [Chunks -> Nat] /\ r.refs \in Hashes
  BY DEF TypeOK, OpenedType
<1> DEFINE n == Len(disk)
           i == r.index
           h == r.refs
           e == Reloaded(r)
<1>2. e = [cs EXCEPT !.seen = n, !.index = i, !.refs = h, !.committed = h]
  BY DEF Reloaded
<1> HIDE DEF n, i, h, e
<1>3. n \in Nat /\ i \in [Chunks -> Nat] /\ h \in Hashes
  BY <1>1 DEF n, i, h
<1>4. e \in Store
  BY <1>1, <1>2, <1>3 DEF Store
<1>5. e.open = cs.open /\ e.index = i /\ e.pend = cs.pend /\ e.refs = h /\ e.committed = h
  BY <1>1, <1>2 DEF Store
<1> QED BY <1>4, <1>5 DEF e, i, h

\* What is in the file after a part of a write
LEMMA PartlyIs ==
  ASSUME TypeOK, NEW n \in CellsWritten
  PROVE  /\ Partly(n) \in Seq(Cell) /\ Len(Partly(n)) \in Nat /\ Len(disk) <= Len(Partly(n))
         /\ \A p \in 1..Len(disk) : Partly(n)[p] = disk[p]
         /\ job.todo = <<>> => Partly(n) = disk
         /\ job.todo # <<>> =>
              /\ job.todo[1] \in Seq(Cell) /\ Len(Partly(n)) - Len(disk) < Len(job.todo[1])
              /\ \A i \in 1..(Len(Partly(n)) - Len(disk)) : Partly(n)[Len(disk) + i] = job.todo[1][i]
<1>0. disk \in Seq(Cell) /\ job.todo \in Seq(Seq(Cell)) /\ Len(disk) \in Nat
  BY TypeParts
<1>1. CASE job.todo = <<>>
  BY <1>0, <1>1 DEF Partly
<1>2. CASE job.todo # <<>>
  <2> DEFINE h == Head(job.todo)
             s == SubSeq(h, 1, n)
  <2>1. h = job.todo[1] /\ h \in Seq(Cell)
    BY <1>0, <1>2
  <2>2. n \in 0..Len(h) - 1
    BY <1>2 DEF CellsWritten
  <2>3. s \in Seq(Cell) /\ Len(s) = n /\ \A i \in 1..n : s[i] = h[i]
    BY <2>1, <2>2
  <2>4. Partly(n) = disk \o s
    BY <1>2 DEF Partly
  <2> HIDE DEF s, h
  <2>5. /\ disk \o s \in Seq(Cell) /\ Len(disk \o s) = Len(disk) + n
        /\ \A i \in 1..Len(disk) : (disk \o s)[i] = disk[i]
        /\ \A i \in 1..n : (disk \o s)[Len(disk) + i] = s[i]
    <3>1. disk \in Seq(Cell) /\ s \in Seq(Cell) /\ Len(s) = n
      BY <1>0, <2>3
    <3>2. /\ disk \o s \in Seq(Cell) /\ Len(disk \o s) = Len(disk) + Len(s)
          /\ \A i \in 1..Len(disk) : (disk \o s)[i] = disk[i]
          /\ \A i \in 1..Len(s) : (disk \o s)[Len(disk) + i] = s[i]
      <4>1. \A x, y \in Seq(Cell) : /\ x \o y \in Seq(Cell) /\ Len(x \o y) = Len(x) + Len(y)
                                    /\ \A i \in 1..Len(x) : (x \o y)[i] = x[i]
                                    /\ \A i \in 1..Len(y) : (x \o y)[Len(x) + i] = y[i]
        BY ConcatIs
      <4> QED BY ONLY <3>1, <4>1
    <3> QED BY <3>1, <3>2
  <2>6. n \in Nat /\ Len(h) \in Nat /\ n < Len(h) /\ (Len(disk) + n) - Len(disk) = n
    BY <1>0, <2>1, <2>2
  <2> QED BY <1>0, <1>2, <2>1, <2>3, <2>4, <2>5, <2>6
<1> QED BY <1>1, <1>2

LEMMA WriteIs ==
  ASSUME TypeOK, job.busy, Write
  PROVE  /\ disk' \in Seq(Cell) /\ job.todo[1] \in Seq(Cell) /\ job.todo # <<>>
         /\ Len(disk') = Len(disk) + Len(job.todo[1])
         /\ \A p \in 1..Len(disk) : disk'[p] = disk[p]
         /\ \A i \in 1..Len(job.todo[1]) : disk'[Len(disk) + i] = job.todo[1][i]
         /\ job' = [busy |-> TRUE, todo |-> Tail(job.todo), off |-> Len(disk'), orig |-> job.orig]
         /\ job' \in Job
<1>1. /\ disk \in Seq(Cell) /\ job.todo \in Seq(Seq(Cell)) /\ Len(disk) \in Nat
      /\ job.todo # <<>> /\ disk' = disk \o Head(job.todo) /\ job \in Job
  BY TypeParts DEF Write, TypeOK
<1>2. Head(job.todo) = job.todo[1] /\ job.todo[1] \in Seq(Cell) /\ Tail(job.todo) \in Seq(Seq(Cell))
  BY <1>1
<1>3. /\ disk' \in Seq(Cell) /\ Len(disk') = Len(disk) + Len(job.todo[1]) /\ Len(disk') \in Nat
      /\ \A p \in 1..Len(disk) : disk'[p] = disk[p]
      /\ \A i \in 1..Len(job.todo[1]) : disk'[Len(disk) + i] = job.todo[1][i]
  BY <1>1, <1>2, ConcatIs
<1>4. job' = [job EXCEPT !.todo = Tail(job.todo), !.off = Len(disk')]
  BY DEF Write
<1>5. job' = [busy |-> TRUE, todo |-> Tail(job.todo), off |-> Len(disk'), orig |-> job.orig]
  BY <1>1, <1>4 DEF Job
<1>6. job' \in Job
  BY <1>1, <1>2, <1>3, <1>5, TypeParts DEF Job
<1> QED BY <1>1, <1>2, <1>3, <1>5, <1>6

LEMMA CutBackIs ==
  ASSUME TypeInv, job.busy, NEW d \in Seq(Cell), Len(disk) <= Len(d),
         \A p \in 1..Len(disk) : d[p] = disk[p]
  PROVE  /\ CutBack(d) \in Seq(Cell)
         /\ job.orig <= Len(CutBack(d))
         /\ \A p \in 1..Len(CutBack(d)) : CutBack(d)[p] = d[p]
         /\ job.off > job.orig => Len(CutBack(d)) = job.orig
         /\ ~(job.off > job.orig) => CutBack(d) = d
<1>0. /\ job.orig \in Nat /\ job.off \in Nat /\ Len(disk) \in Nat /\ Len(d) \in Nat
      /\ job.orig <= Len(d) /\ job.orig <= job.off
  BY TypeParts DEF TypeInv, SizeInv
<1>1. CASE job.off > job.orig
  <2>1. CutBack(d) = SubSeq(d, 1, job.orig)
    BY <1>1 DEF CutBack
  <2> QED BY <1>0, <1>1, <2>1
<1>2. CASE ~(job.off > job.orig)
  BY <1>0, <1>2 DEF CutBack
<1> QED BY <1>1, <1>2

\* Types and sizes at a commit
LEMMA CommitIs ==
  ASSUME TypeInv, NEW refs \in Blobs, Commit(refs)
  PROVE  \E kept \in Hashes :
           /\ cs' \in Store /\ job' \in Job /\ job'.busy = TRUE
           /\ job'.off = Len(disk) /\ job'.orig = Len(disk)
           /\ Queue(job'.todo, Len(disk), cs.pend, kept, Len(disk))
           /\ cs'.open = TRUE /\ cs'.refs = kept /\ cs'.pend = cs.pend
           /\ \/ /\ kept = refs
                 /\ cs'.index = cs.index /\ cs'.committed = cs.committed
              \/ /\ kept = refs \/ (kept = Opened(disk).refs /\ cs.pend = <<>>)
                 /\ Opened(disk).ok
                 /\ cs'.index = Opened(disk).index /\ cs'.committed = Opened(disk).refs
<1> DEFINE grown == Len(disk) > cs.seen
           kept == IF grown /\ cs.pend = <<>> THEN Opened(disk).refs ELSE refs
           base == IF grown THEN Reloaded(Opened(disk)) ELSE cs
<1>0. /\ disk \in Seq(Cell) /\ Len(disk) \in Nat /\ cs.pend \in Seq(Chunks) /\ cs \in Store
      /\ cs.open = TRUE /\ TypeOK
  BY TypeParts DEF TypeInv, TypeOK, Commit
<1>1. OpenedType(Opened(disk))
  BY <1>0, OpenedHasType
<1>2. kept \in Hashes
  BY <1>1, ChunksAssumption DEF OpenedType, Hashes
<1>3. /\ base \in Store /\ base.pend = cs.pend /\ base.open = cs.open
      /\ \/ ~grown /\ base.index = cs.index /\ base.committed = cs.committed
         \/ grown /\ base.index = Opened(disk).index /\ base.committed = Opened(disk).refs
  BY <1>0, <1>1, ReloadedIs
<1>4. cs' = [base EXCEPT !.refs = kept] /\ (grown => Opened(disk).ok)
  BY DEF Commit
<1>5. PICK batch \in BOOLEAN :
        job' = [busy |-> TRUE, todo |-> FirstWrite(kept) \o Writes(kept, batch),
                off |-> Len(disk), orig |-> Len(disk)]
  BY DEF Commit
<1> HIDE DEF base
<1>6. kept = refs \/ (kept = Opened(disk).refs /\ grown /\ cs.pend = <<>>)
  OBVIOUS
<1> HIDE DEF kept, grown
<1>7. /\ FirstWrite(kept) \o Writes(kept, batch) \in Seq(Seq(Cell))
      /\ Queue(FirstWrite(kept) \o Writes(kept, batch), Len(disk), cs.pend, kept, Len(disk))
  BY <1>0, <1>2, CommitWrites
<1>8. job' \in Job
  BY <1>0, <1>5, <1>7 DEF Job
<1>9. /\ cs' \in Store /\ cs'.open = TRUE /\ cs'.refs = kept /\ cs'.pend = cs.pend
      /\ cs'.index = base.index /\ cs'.committed = base.committed
  BY <1>0, <1>2, <1>3, <1>4 DEF Store
<1> QED BY <1>2, <1>3, <1>4, <1>5, <1>6, <1>7, <1>8, <1>9

LEMMA TypeInit == Init => TypeInv
<1> SUFFICES ASSUME Init PROVE TypeInv
  OBVIOUS
<1>1. disk \in Seq(Cell) /\ Len(disk) = 0 /\ NoChunk \in Hashes
  BY DEF Init, Hashes
<1>2. TypeOK
  <2>1. cs \in Store /\ job \in Job
    BY Idle DEF Init
  <2>2. acked \in Hashes /\ soiled \in BOOLEAN
    BY <1>1 DEF Init
  <2>3. safe \in 0..Len(disk)
    <3>1. safe = 0
      BY DEF Init
    <3> QED BY <1>1, <3>1
  <2> QED BY <1>1, <2>1, <2>2, <2>3 DEF TypeOK
<1>3. SizeInv
  BY DEF Init, SizeInv, IdleJob
<1> QED BY <1>2, <1>3 DEF TypeInv

\* What opening sets
LEMMA OpenIs ==
  ASSUME TypeOK, Open
  PROVE  /\ cs' \in Store
         /\ cs'.open = TRUE /\ cs'.index = Opened(disk).index /\ cs'.pend = <<>>
         /\ cs'.refs = Opened(disk).refs /\ cs'.committed = Opened(disk).refs
<1> DEFINE n == Len(disk)
           i == Opened(disk).index
           h == Opened(disk).refs
<1>1. n \in Nat /\ i \in [Chunks -> Nat] /\ h \in Hashes
  BY OpenedHasType DEF TypeOK, OpenedType
<1>2. cs' = [ClosedStore EXCEPT !.open = TRUE, !.seen = n, !.index = i, !.refs = h, !.committed = h]
  BY DEF Open
<1> HIDE DEF n, i, h
<1>3. cs' = [open |-> TRUE, seen |-> n, index |-> i, pend |-> <<>>, refs |-> h, committed |-> h]
  BY <1>2 DEF ClosedStore
<1>4. cs' \in Store
  BY <1>1, <1>3 DEF Store
<1> QED BY <1>3, <1>4 DEF i, h

\* What is set when a commit has been written
LEMMA LandedIs ==
  ASSUME TypeOK
  PROVE  \A h \in Chunks :
           /\ Landed(h) \in Nat
           /\ \/ /\ Landed(h) = cs.index[h] /\ \A i \in 1..Len(cs.pend) : cs.pend[i] # h
              \/ \E i \in 1..Len(cs.pend) : /\ cs.pend[i] = h
                                            /\ Landed(h) = FirstOf(job.orig) + 2 * i
<1> TAKE h \in Chunks
<1> DEFINE at == {i \in 1..Len(cs.pend) : cs.pend[i] = h}
<1>1. cs.index \in [Chunks -> Nat] /\ job.orig \in Nat /\ FirstOf(job.orig) \in Nat /\ Len(cs.pend) \in Nat
  BY TypeParts DEF FirstOf
<1>2. CASE at = {}
  <2>1. Landed(h) = cs.index[h]
    BY <1>2 DEF Landed
  <2> QED BY <1>1, <1>2, <2>1
<1>3. CASE at # {}
  <2> DEFINE i == CHOOSE i \in at : TRUE
  <2>1. i \in at
    BY <1>3
  <2>2. Landed(h) = FirstOf(job.orig) + 2 * i
    BY <1>3 DEF Landed, FirstOf
  <2> HIDE DEF i
  <2>3. i \in 1..Len(cs.pend) /\ cs.pend[i] = h /\ FirstOf(job.orig) + 2 * i \in Nat
    BY <1>1, <2>1
  <2> QED BY <2>2, <2>3
<1> QED BY <1>2, <1>3

LEMMA SyncIs ==
  ASSUME TypeOK, Sync
  PROVE  /\ cs' \in Store /\ cs'.open = cs.open /\ cs'.pend = <<>>
         /\ cs'.refs = cs.refs /\ cs'.committed = cs.refs
         /\ \A h \in Chunks : cs'.index[h] = Landed(h)
<1> DEFINE n == job.off
           i == [h \in Chunks |-> Landed(h)]
           r == cs.refs
<1>1. cs \in Store /\ n \in Nat /\ i \in [Chunks -> Nat] /\ r \in Hashes
  BY TypeParts, LandedIs DEF TypeOK
<1> DEFINE p == <<>>
<1>p. p \in Seq(Chunks)
  OBVIOUS
<1>2. cs' = [cs EXCEPT !.seen = n, !.index = i, !.pend = p, !.committed = r]
  BY DEF Sync
<1>3. \A h \in Chunks : i[h] = Landed(h)
  OBVIOUS
<1>r. cs.refs = r
  OBVIOUS
<1> HIDE DEF n, i, p, r
<1>4. cs' \in Store
  BY <1>1, <1>2, <1>p DEF Store
<1>5. cs'.open = cs.open /\ cs'.pend = p /\ cs'.refs = r /\ cs'.committed = r /\ cs'.index = i
  BY <1>1, <1>2, <1>r DEF Store
<1> QED BY <1>3, <1>4, <1>5 DEF p, r

\* Steps of the store alone
LEMMA PutIs ==
  ASSUME TypeOK, NEW h \in Chunks, Put(h)
  PROVE  /\ cs' \in Store /\ cs'.open = cs.open /\ cs'.pend = Append(cs.pend, h)
         /\ cs'.refs = cs.refs /\ cs'.committed = cs.committed /\ cs'.index = cs.index
<1>1. cs \in Store /\ Append(cs.pend, h) \in Seq(Chunks)
  BY TypeParts DEF TypeOK
<1> DEFINE p == Append(cs.pend, h)
<1>2. cs' = [cs EXCEPT !.pend = p]
  BY DEF Put
<1> HIDE DEF p
<1>3. cs' \in Store
  BY <1>1, <1>2 DEF Store, p
<1>4. /\ cs'.open = cs.open /\ cs'.pend = p
      /\ cs'.refs = cs.refs /\ cs'.committed = cs.committed /\ cs'.index = cs.index
  BY <1>1, <1>2 DEF Store
<1> QED BY <1>3, <1>4 DEF p

LEMMA RollbackIs ==
  ASSUME TypeOK, Rollback
  PROVE  /\ cs' \in Store /\ cs'.open = cs.open /\ cs'.pend = <<>>
         /\ cs'.refs = cs.committed /\ cs'.committed = cs.committed /\ cs'.index = cs.index
<1> DEFINE p == <<>>
           c == cs.committed
<1>1. cs \in Store /\ c \in Hashes /\ p \in Seq(Chunks)
  BY TypeParts DEF TypeOK
<1>2. cs' = [cs EXCEPT !.pend = p, !.refs = c]
  BY DEF Rollback
<1>3. cs.committed = c
  OBVIOUS
<1> HIDE DEF p, c
<1>4. cs' \in Store
  BY <1>1, <1>2 DEF Store
<1>5. cs'.open = cs.open /\ cs'.pend = p /\ cs'.refs = c /\ cs'.committed = c /\ cs'.index = cs.index
  BY <1>1, <1>2, <1>3 DEF Store
<1> QED BY <1>4, <1>5 DEF p, c

LEMMA FailIs ==
  ASSUME TypeOK, CommitFails
  PROVE  /\ cs' \in Store /\ cs'.open = cs.open /\ cs'.pend = cs.pend
         /\ cs'.refs = cs.committed /\ cs'.committed = cs.committed /\ cs'.index = cs.index
<1>1. cs \in Store /\ cs.committed \in Hashes /\ cs' = [cs EXCEPT !.refs = cs.committed]
  BY TypeParts DEF TypeOK, CommitFails
<1>2. cs' \in Store
  BY <1>1 DEF Store
<1>3. /\ cs'.open = cs.open /\ cs'.pend = cs.pend
      /\ cs'.refs = cs.committed /\ cs'.committed = cs.committed /\ cs'.index = cs.index
  BY <1>1 DEF Store
<1> QED BY <1>2, <1>3

\* The file after a failed commit has the bytes of the acknowledged ones
LEMMA FailKeeps ==
  ASSUME TypeInv, CommitFails
  PROVE  \E n \in CellsWritten :
           /\ disk' = CutBack(Partly(n)) /\ disk' \in Seq(Cell) /\ job.orig <= Len(disk')
           /\ \A p \in 1..Len(disk') : disk'[p] = Partly(n)[p]
           /\ \A p \in 1..job.orig : disk'[p] = disk[p]
<1>1. PICK n \in CellsWritten : disk' = CutBack(Partly(n))
  BY DEF CommitFails
<1>2. job.busy /\ TypeOK
  BY DEF CommitFails, TypeInv
<1>3. /\ Partly(n) \in Seq(Cell) /\ Len(disk) <= Len(Partly(n))
      /\ \A p \in 1..Len(disk) : Partly(n)[p] = disk[p]
  BY <1>2, PartlyIs
<1>4. /\ disk' \in Seq(Cell) /\ job.orig <= Len(disk')
      /\ \A p \in 1..Len(disk') : disk'[p] = Partly(n)[p]
  BY <1>1, <1>2, <1>3, CutBackIs
<1>5. job.orig \in Nat /\ Len(disk') \in Nat /\ Len(disk) \in Nat /\ job.orig <= Len(disk)
  BY <1>2, <1>4, TypeParts DEF TypeInv, SizeInv
<1>6. \A p \in 1..job.orig : p \in 1..Len(disk') /\ p \in 1..Len(disk)
  BY <1>4, <1>5
<1> QED BY <1>1, <1>3, <1>4, <1>6

LEMMA TypeStep == TypeInv /\ [Next]_vars => TypeInv'
<1> SUFFICES ASSUME TypeInv, [Next]_vars PROVE TypeInv'
  OBVIOUS
<1>0. TypeOK /\ SizeInv
  BY DEF TypeInv
<1>1. CASE Open
  <2>1. cs' \in Store
    BY <1>0, <1>1, OpenIs
  <2>2. ~job.busy
    BY <1>0, <1>1 DEF Open, SizeInv
  <2> QED BY <1>0, <1>1, <2>1, <2>2 DEF Open, TypeInv, TypeOK, SizeInv
<1>2. CASE Refresh
  <2>1. cs' \in Store
    BY <1>0, <1>2, OpenedHasType, ReloadedIs DEF Refresh, TypeOK
  <2> QED BY <1>0, <1>2, <2>1 DEF Refresh, TypeInv, TypeOK, SizeInv
<1>3. CASE Rollback
  <2>1. cs' \in Store
    BY <1>0, <1>3, RollbackIs
  <2> QED BY <1>0, <1>3, <2>1 DEF Rollback, TypeInv, TypeOK, SizeInv
<1>4. CASE Write
  <2>1. job.busy
    BY <1>4 DEF Write
  <2>2. /\ disk' \in Seq(Cell) /\ Len(disk') = Len(disk) + Len(job.todo[1])
        /\ job.todo[1] \in Seq(Cell)
        /\ job' = [busy |-> TRUE, todo |-> Tail(job.todo), off |-> Len(disk'), orig |-> job.orig]
        /\ job' \in Job
    BY <1>0, <1>4, <2>1, WriteIs
  <2>3. job'.busy = TRUE /\ job'.off = Len(disk') /\ job'.orig = job.orig
    BY <2>2
  <2>4. Len(disk) \in Nat /\ Len(job.todo[1]) \in Nat /\ safe \in Nat /\ safe <= Len(disk)
        /\ job.orig \in Nat /\ job.orig <= Len(disk) /\ safe <= job.orig /\ cs.open
    BY <1>0, <2>1, <2>2, TypeParts DEF SizeInv
  <2>5. UNCHANGED <<cs, acked, safe, soiled>>
    BY <1>4 DEF Write
  <2>6. safe \in 0..Len(disk') /\ job.orig <= Len(disk')
    BY <2>2, <2>4
  <2>7. TypeOK'
    BY <1>0, <2>2, <2>5, <2>6 DEF TypeOK
  <2>8. SizeInv'
    BY <2>3, <2>4, <2>5, <2>6 DEF SizeInv
  <2> QED BY <2>7, <2>8 DEF TypeInv
<1>5. CASE Sync
  <2>1. cs' \in Store
    BY <1>0, <1>5, SyncIs
  <2>2. job.off = Len(disk) /\ Len(disk) \in Nat /\ cs.refs \in Hashes
    BY <1>0, <1>5, TypeParts DEF Sync, SizeInv
  <2> QED BY <1>0, <1>5, <2>1, <2>2, Idle DEF Sync, TypeInv, TypeOK, SizeInv, IdleJob
<1>6. CASE CommitFails
  <2>1. cs' \in Store
    BY <1>0, <1>6, FailIs
  <2>2. disk' \in Seq(Cell) /\ job.orig <= Len(disk')
    BY <1>6, FailKeeps
  <2>3. safe <= job.orig /\ safe \in Nat /\ job.orig \in Nat
    BY <1>0, <1>6, TypeParts DEF CommitFails, SizeInv
  <2>4. safe \in 0..Len(disk')
    BY <2>2, <2>3
  <2> QED BY <1>0, <1>6, <2>1, <2>2, <2>4, Idle DEF CommitFails, TypeInv, TypeOK, SizeInv, IdleJob
<1>7. CASE Crash
  <2>1. PICK n \in CellsWritten : disk' = Partly(n)
    BY <1>7 DEF Crash
  <2>2. disk' \in Seq(Cell) /\ Len(disk) <= Len(disk') /\ Len(disk') \in Nat
    BY <1>0, <2>1, PartlyIs
  <2>3. /\ Len(disk) \in Nat /\ safe \in Nat /\ safe <= Len(disk) /\ acked \in Hashes /\ cs.refs \in Hashes
        /\ job.busy => job.off = Len(disk)
    BY <1>0, TypeParts DEF SizeInv
  <2>4. acked' \in Hashes /\ safe' \in 0..Len(disk')
    BY <1>7, <2>2, <2>3 DEF Crash
  <2> QED BY <1>0, <1>7, <2>2, <2>4, Idle DEF Crash, TypeInv, TypeOK, SizeInv, IdleJob
<1>8. ASSUME NEW h \in Chunks, Put(h) PROVE TypeInv'
  <2>1. cs' \in Store
    BY <1>0, <1>8, PutIs
  <2> QED BY <1>0, <1>8, <2>1 DEF Put, TypeInv, TypeOK, SizeInv
<1>9. ASSUME NEW refs \in Blobs, Commit(refs) PROVE TypeInv'
  <2>1. /\ cs' \in Store /\ job' \in Job /\ job'.busy = TRUE
        /\ job'.off = Len(disk) /\ job'.orig = Len(disk) /\ cs'.open = TRUE
    BY <1>9, CommitIs
  <2>2. soiled' \in BOOLEAN /\ UNCHANGED <<disk, acked, safe>>
    BY <1>9 DEF Commit
  <2>3. safe <= Len(disk) /\ Len(disk) \in Nat
    BY <1>0, TypeParts
  <2> QED BY <1>0, <2>1, <2>2, <2>3 DEF TypeInv, TypeOK, SizeInv
<1>10. CASE UNCHANGED vars
  BY <1>0, <1>10 DEF vars, TypeInv, TypeOK, SizeInv
<1> QED
  BY <1>1, <1>2, <1>3, <1>4, <1>5, <1>6, <1>7, <1>8, <1>9, <1>10 DEF Next

\* The file, the store and the commit under way have their types in every
\* reachable state, whatever a crash or a failed write has left in the file and
\* csReplayWal then reads; and what was acknowledged is within the file
THEOREM TypeCorrect == Spec => []TypeOK
<1>1. TypeInv => TypeOK
  BY DEF TypeInv
<1> QED BY <1>1, TypeInit, TypeStep, PTL DEF Spec

-----------------------------------------------------------------------------
(* The bytes of acknowledged commits.                                      *)

Stays == safe <= Len(disk') /\ SubSeq(disk', 1, safe) = SubSeq(disk, 1, safe)

LEMMA SamePrefix ==
  ASSUME NEW d \in Seq(Cell), NEW e \in Seq(Cell), NEW n \in Nat, Agree(d, e, n)
  PROVE  SubSeq(e, 1, n) = SubSeq(d, 1, n)
<1>1. n <= Len(d) /\ n <= Len(e) /\ Len(d) \in Nat /\ Len(e) \in Nat
  BY DEF Agree
<1>2. /\ SubSeq(d, 1, n) \in Seq(Cell) /\ SubSeq(e, 1, n) \in Seq(Cell)
      /\ Len(SubSeq(d, 1, n)) = n /\ Len(SubSeq(e, 1, n)) = n
      /\ \A i \in 1..n : SubSeq(d, 1, n)[i] = d[i] /\ SubSeq(e, 1, n)[i] = e[i]
  BY <1>1
<1>3. \A i \in 1..n : SubSeq(d, 1, n)[i] = SubSeq(e, 1, n)[i]
  BY <1>2 DEF Agree
<1> QED BY <1>2, <1>3

LEMMA BytesStep == TypeInv /\ [Next]_vars => Stays \/ UNCHANGED vars
<1> SUFFICES ASSUME TypeInv, Next PROVE Stays
  BY DEF vars
<1>0. /\ TypeOK /\ SizeInv /\ disk \in Seq(Cell) /\ Len(disk) \in Nat /\ safe \in Nat
      /\ safe <= Len(disk)
  BY TypeParts DEF TypeInv
<1>1. CASE disk' = disk
  BY <1>0, <1>1 DEF Stays
<1>2. CASE Write
  <2>1. /\ disk' \in Seq(Cell) /\ Len(disk') = Len(disk) + Len(job.todo[1])
        /\ job.todo[1] \in Seq(Cell) /\ \A p \in 1..Len(disk) : disk'[p] = disk[p]
    BY <1>0, <1>2, WriteIs DEF Write
  <2>2. Agree(disk, disk', safe)
    BY <1>0, <2>1 DEF Agree
  <2> QED BY <1>0, <2>1, <2>2, SamePrefix DEF Stays, Agree
<1>3. CASE CommitFails
  <2>1. /\ disk' \in Seq(Cell) /\ job.orig <= Len(disk')
        /\ \A p \in 1..job.orig : disk'[p] = disk[p]
    BY <1>3, FailKeeps
  <2>2. safe <= job.orig /\ job.orig \in Nat /\ Len(disk') \in Nat
    BY <1>0, <1>3, <2>1, TypeParts DEF CommitFails, SizeInv
  <2>3. Agree(disk, disk', safe)
    BY <1>0, <2>1, <2>2 DEF Agree
  <2> QED BY <1>0, <2>1, <2>3, SamePrefix DEF Stays, Agree
<1>4. CASE Crash
  <2>1. PICK n \in CellsWritten : disk' = Partly(n)
    BY <1>4 DEF Crash
  <2>2. /\ disk' \in Seq(Cell) /\ Len(disk) <= Len(disk') /\ Len(disk') \in Nat
        /\ \A p \in 1..Len(disk) : disk'[p] = disk[p]
    BY <1>0, <2>1, PartlyIs
  <2>3. Agree(disk, disk', safe)
    BY <1>0, <2>2 DEF Agree
  <2> QED BY <1>0, <2>2, <2>3, SamePrefix DEF Stays, Agree
<1>5. disk' = disk \/ Write \/ CommitFails \/ Crash
  BY DEF Next, Open, Refresh, Rollback, Sync, Put, Commit
<1> QED BY <1>1, <1>2, <1>3, <1>4, <1>5

\* csRollbackFailedAppend never cuts off a byte of an acknowledged commit, and
\* nothing overwrites one: also for a log that was appended to behind a torn record
THEOREM BytesStay == Spec => AckedBytesStay
<1>1. TypeInv /\ [Next]_vars => [Stays]_vars
  BY BytesStep
<1> QED BY <1>1, TypeInit, TypeStep, PTL DEF Spec, AckedBytesStay, Stays

-----------------------------------------------------------------------------
(* The log is well formed.                                                 *)

\* The cells of the log that the commit under way found
End == IF job.busy THEN job.orig ELSE Len(disk)

StoreGood(d, l, s) ==
  /\ IndexGood(d, l, s.index) /\ PendGood(s.index, s.pend)
  /\ s.committed # NoChunk => s.index[s.committed] # 0
  /\ s.refs # NoChunk => Has(s.index, s.pend, s.refs)

Planned == /\ Even(job.orig)
           /\ Written(disk, cs.pend, cs.refs, job.orig)
           /\ Queue(job.todo, Len(disk), cs.pend, cs.refs, job.orig)

LogInv == /\ WellFormed(disk)
          /\ RefsAre(disk, End, acked)
          /\ cs.open => StoreGood(disk, End, cs)
          /\ job.busy => Planned
          /\ ~job.busy => job.todo = <<>>

\* The inductive invariant
LogTrue == TypeInv /\ (~soiled => LogInv)

\* An index stays good when the file grows behind what it indexes, or is cut there
LEMMA IndexStays ==
  ASSUME NEW d \in Seq(Cell), NEW e \in Seq(Cell), NEW l \in Nat, Agree(d, e, l),
         NEW m \in Nat, l <= m, m <= Len(e), NEW index \in [Chunks -> Nat],
         IndexGood(d, l, index)
  PROVE  IndexGood(e, m, index)
<1> SUFFICES ASSUME NEW h \in Chunks, index[h] # 0
             PROVE  /\ Kept(e, m, h) /\ index[h] <= m /\ Readable(e, index, h)
                    /\ \A k \in Kids[h] : index[k] # 0
  BY DEF IndexGood
<1>1. /\ Kept(d, l, h) /\ index[h] <= l /\ Readable(d, index, h)
      /\ \A k \in Kids[h] : index[k] # 0
  BY DEF IndexGood
<1>2. index[h] \in 1..l /\ index[h] <= m /\ index[h] \in DOMAIN e
  <2>1. index[h] \in Nat /\ Len(e) \in Nat
    OBVIOUS
  <2>2. index[h] \in 1..Len(e)
    BY <1>1, <2>1
  <2> QED BY <1>1, <2>1, <2>2
<1>3. Readable(e, index, h)
  BY <1>1, <1>2 DEF Readable, Agree
<1>4. Kept(e, m, h)
  BY <1>1, KeptGrows
<1> QED BY <1>1, <1>2, <1>3, <1>4

\* What a reload finds is good,
LEMMA ReloadGood ==
  ASSUME NEW d \in Seq(Cell), WellFormed(d), NEW r, OpenedType(r), OpenedRight(d, r)
  PROVE  /\ IndexGood(d, Len(d), r.index)
         /\ r.refs # NoChunk => r.index[r.refs] # 0
<1>0. Len(d) \in 0..Len(d) /\ Len(d) \in Nat
  OBVIOUS
<1>1. ASSUME NEW h \in Chunks, r.index[h] # 0
      PROVE  /\ Kept(d, Len(d), h) /\ r.index[h] <= Len(d) /\ Readable(d, r.index, h)
             /\ \A k \in Kids[h] : r.index[k] # 0
  <2>1. Kept(d, Len(d), h) /\ Readable(d, r.index, h)
    BY <1>1 DEF OpenedRight
  <2>2. r.index[h] <= Len(d)
    BY <1>0, <2>1 DEF Readable
  <2>3. \A k \in Kids[h] : k \in Chunks /\ Kept(d, Len(d), k)
    BY <1>0, <2>1, KeptClosed
  <2>4. \A k \in Kids[h] : r.index[k] # 0
    BY <2>3 DEF OpenedRight
  <2> QED BY <2>1, <2>2, <2>4
<1>2. ASSUME r.refs # NoChunk PROVE r.index[r.refs] # 0
  <2>1. r.refs \in Chunks /\ RefsAre(d, Len(d), r.refs)
    BY <1>2 DEF OpenedType, OpenedRight, Hashes
  <2>2. Kept(d, Len(d), r.refs)
    BY <1>0, <2>1, KeptClosed
  <2> QED BY <2>1, <2>2 DEF OpenedRight
<1> QED BY <1>1, <1>2 DEF IndexGood

\* and has what was indexed, for what is staged
LEMMA ReloadHas ==
  ASSUME NEW d \in Seq(Cell), NEW r, OpenedRight(d, r),
         NEW index, NEW pend \in Seq(Chunks), IndexGood(d, Len(d), index), PendGood(index, pend)
  PROVE  /\ PendGood(r.index, pend)
         /\ \A h \in Chunks : Has(index, pend, h) => Has(r.index, pend, h)
<1>1. \A h \in Chunks : index[h] # 0 => r.index[h] # 0
  BY DEF IndexGood, OpenedRight
<1>2. ASSUME NEW i \in 1..Len(pend), NEW k \in Kids[pend[i]]
      PROVE  r.index[k] # 0 \/ Staged(pend, i - 1, k)
  <2>1. pend[i] \in Chunks
    OBVIOUS
  <2>2. k \in Chunks
    BY <2>1, ChunksAssumption
  <2> QED BY <1>1, <2>2 DEF PendGood
<1>3. PendGood(r.index, pend)
  BY <1>2 DEF PendGood
<1> QED BY <1>1, <1>3 DEF Has

\* A file with half a manifest cannot be opened
LEMMA OpensWhole == ASSUME NEW d \in Seq(Cell), Opened(d).ok = TRUE PROVE Len(d) # 1
<1> SUFFICES ASSUME Len(d) = 1 PROVE FALSE
  OBVIOUS
<1>1. d # <<>> /\ Len(d) < 2
  OBVIOUS
<1>2. Opened(d) = [ok |-> FALSE, index |-> NoIndex, refs |-> NoChunk]
  BY <1>1 DEF Opened, Replay
<1> QED BY <1>2

LEMMA OpenedGood ==
  ASSUME NEW d \in Seq(Cell), WellFormed(d), Opened(d).ok
  PROVE  OpenedRight(d, Opened(d)) /\ OpenedType(Opened(d))
<1>1. OpenedType(Opened(d))
  BY OpenedHasType
<1>2. Opened(d).ok = TRUE
  OBVIOUS
<1>3. Len(d) # 1
  BY <1>2, OpensWhole
<1> QED BY <1>1, <1>3, OpenedIs

LEMMA NothingStaged == \A index : PendGood(index, <<>>)
  BY DEF PendGood

LEMMA KnownIs ==
  ASSUME cs.pend \in Seq(Chunks)
  PROVE  /\ \A h : h \in Pending <=> Staged(cs.pend, Len(cs.pend), h)
         /\ \A h : h \in Known <=> h \in Chunks /\ Has(cs.index, cs.pend, h)
<1>1. \A h : h \in Pending <=> Staged(cs.pend, Len(cs.pend), h)
  BY DEF Pending, ToSet, Staged
<1>2. \A h : Staged(cs.pend, Len(cs.pend), h) => h \in Chunks
  BY DEF Staged
<1> QED BY <1>1, <1>2 DEF Known, Has

LEMMA PutGood ==
  ASSUME NEW index, NEW pend \in Seq(Chunks), NEW h \in Chunks, PendGood(index, pend),
         \A k \in Kids[h] : Has(index, pend, k)
  PROVE  /\ PendGood(index, Append(pend, h))
         /\ \A k : Has(index, pend, k) => Has(index, Append(pend, h), k)
<1> DEFINE q == Append(pend, h)
<1>0. Len(pend) \in Nat /\ Len(q) = Len(pend) + 1 /\ q[Len(pend) + 1] = h
      /\ \A i \in 1..Len(pend) : q[i] = pend[i]
  OBVIOUS
<1> HIDE DEF q
<1>1. \A n \in 0..Len(pend) : \A k : Staged(pend, n, k) => Staged(q, n, k) /\ Staged(q, Len(q), k)
  BY <1>0 DEF Staged
<1>2. ASSUME NEW i \in 1..Len(q), NEW k \in Kids[q[i]]
      PROVE  index[k] # 0 \/ Staged(q, i - 1, k)
  <2>1. CASE i \in 1..Len(pend)
    <3>1. q[i] = pend[i] /\ i - 1 \in 0..Len(pend)
      BY <1>0, <2>1
    <3>2. index[k] # 0 \/ Staged(pend, i - 1, k)
      BY <1>2, <2>1, <3>1 DEF PendGood
    <3> QED BY <1>1, <3>1, <3>2
  <2>2. CASE i = Len(pend) + 1
    <3>1. q[i] = h /\ i - 1 = Len(pend) /\ Len(pend) \in 0..Len(pend)
      BY <1>0, <2>2
    <3>2. Has(index, pend, k)
      BY <1>2, <3>1
    <3> QED BY <1>1, <3>1, <3>2 DEF Has
  <2> QED BY <1>0, <2>1, <2>2
<1>3. Len(pend) \in 0..Len(pend)
  BY <1>0
<1> QED BY <1>1, <1>2, <1>3 DEF PendGood, Has, q

\* The first write of a queue, and what is left
LEMMA QueueShift ==
  ASSUME NEW t \in Seq(Seq(Cell)), t # <<>>, NEW at \in Nat, NEW pend \in Seq(Chunks),
         NEW refs, NEW orig \in Nat, Queue(t, at, pend, refs, orig)
  PROVE  /\ Queue(Tail(t), at + Len(t[1]), pend, refs, orig)
         /\ at + Len(t[1]) <= PlanEnd(pend, orig) /\ at <= PlanEnd(pend, orig) - 2
         /\ \A i \in 1..Len(t[1]) : PlanCell(pend, refs, orig, at + i, t[1][i])
<1> DEFINE u == Tail(t)
           P(p, c) == PlanCell(pend, refs, orig, p, c)
           z == PlanEnd(pend, orig)
<1>1. /\ Len(t) \in Nat /\ Len(t) >= 1 /\ Len(u) = Len(t) - 1 /\ \A j \in 1..Len(u) : u[j] = t[j + 1]
      /\ t[1] \in Seq(Cell)
  OBVIOUS
<1>2. PICK cut : Cuts(t, at, pend, refs, orig, cut)
  BY DEF Queue
<1>3. /\ cut \in [0..Len(t) -> Nat] /\ cut[0] = at /\ cut[Len(t)] = z
      /\ \A j \in 1..Len(t) :
           /\ cut[j - 1] <= z - 2 /\ cut[j - 1] <= cut[j]
           /\ Len(t[j]) = cut[j] - cut[j - 1]
           /\ \A i \in 1..Len(t[j]) : P(cut[j - 1] + i, t[j][i])
  BY <1>2 DEF Cuts
<1>4. z \in Nat
  BY DEF PlanEnd, FirstOf
<1> HIDE DEF u, P, z
<1>5. 1 \in 1..Len(t) /\ 1 - 1 = 0
  BY <1>1
<1>6. /\ at <= z - 2 /\ Len(t[1]) = cut[1] - at
      /\ \A i \in 1..Len(t[1]) : P(at + i, t[1][i])
  BY <1>3, <1>5
<1>c. \A j \in 0..Len(t) : cut[j] \in Nat
  BY <1>3
<1>7. cut[1] \in Nat /\ at + Len(t[1]) = cut[1]
  <2>1. 1 \in 0..Len(t)
    BY <1>1
  <2>2. cut[1] \in Nat /\ Len(t[1]) \in Nat
    BY <1>c, <1>1, <2>1
  <2> QED BY <1>6, <2>2
<1>8. cut[1] <= z
  <2>1. CASE Len(t) = 1
    BY <1>3, <1>4, <2>1
  <2>2. CASE Len(t) # 1
    <3>1. 2 \in 1..Len(t) /\ 2 - 1 = 1
      BY <1>1, <2>2
    <3>2. cut[1] <= z - 2
      BY <1>3, <3>1
    <3> QED BY <1>4, <1>7, <3>2
  <2> QED BY <2>1, <2>2
<1> DEFINE c == [j \in 0..Len(u) |-> cut[j + 1]]
<1>9. \A j \in 0..Len(u) : j + 1 \in 0..Len(t) /\ cut[j + 1] \in Nat
  <2>1. \A j \in 0..Len(u) : j + 1 \in 0..Len(t)
    BY <1>1
  <2> QED BY <1>c, <2>1
<1>10. /\ c \in [0..Len(u) -> Nat] /\ c[0] = cut[1] /\ c[Len(u)] = z
       /\ \A j \in 1..Len(u) : c[j] = cut[j + 1] /\ c[j - 1] = cut[j]
  <2>1. 0 \in 0..Len(u) /\ Len(u) \in 0..Len(u) /\ Len(u) + 1 = Len(t) /\ 0 + 1 = 1
        /\ \A j \in 1..Len(u) : j \in 0..Len(u) /\ j - 1 \in 0..Len(u) /\ (j - 1) + 1 = j
    BY <1>1
  <2> QED BY <1>3, <1>9, <2>1
<1> HIDE DEF c
<1>11. ASSUME NEW j \in 1..Len(u)
       PROVE  /\ c[j - 1] <= z - 2 /\ c[j - 1] <= c[j]
              /\ Len(u[j]) = c[j] - c[j - 1]
              /\ \A i \in 1..Len(u[j]) : P(c[j - 1] + i, u[j][i])
  <2>1. j + 1 \in 1..Len(t) /\ (j + 1) - 1 = j /\ u[j] = t[j + 1]
    BY <1>1
  <2> QED BY <1>3, <1>10, <2>1
<1>12. Cuts(u, cut[1], pend, refs, orig, c)
  BY <1>10, <1>11 DEF Cuts, P, z
<1>13. Queue(u, cut[1], pend, refs, orig)
  BY <1>12 DEF Queue
<1> QED BY <1>6, <1>7, <1>8, <1>13 DEF u, P, z

LEMMA QueueEnd ==
  ASSUME NEW at, NEW pend, NEW refs, NEW orig, Queue(<<>>, at, pend, refs, orig)
  PROVE  at = PlanEnd(pend, orig)
<1>1. PICK cut : Cuts(<<>>, at, pend, refs, orig, cut)
  BY DEF Queue
<1> QED BY <1>1 DEF Cuts

\* What a commit has written so far, and the part of a write that is in the file
\* when it fails, is a part of what was planned
LEMMA CommitAppends ==
  ASSUME TypeInv, LogInv, job.busy, NEW e \in Seq(Cell), Len(disk) <= Len(e),
         \A p \in 1..Len(disk) : e[p] = disk[p],
         job.todo = <<>> => e = disk,
         job.todo # <<>> =>
           /\ Len(e) - Len(disk) <= Len(job.todo[1])
           /\ \A i \in 1..(Len(e) - Len(disk)) : e[Len(disk) + i] = job.todo[1][i]
  PROVE  /\ Appended(disk, e, cs.pend, cs.refs, job.orig, cs.index)
         /\ job.orig <= Len(e) /\ job.orig \in Nat
         /\ job.todo = <<>> => Len(e) = PlanEnd(cs.pend, job.orig)
         /\ job.todo # <<>> /\ Len(e) - Len(disk) < Len(job.todo[1])
              => Len(e) < PlanEnd(cs.pend, job.orig)
         /\ job.todo # <<>> => Len(disk) < PlanEnd(cs.pend, job.orig)
<1> DEFINE orig == job.orig
           P(p, c) == PlanCell(cs.pend, cs.refs, orig, p, c)
           z == PlanEnd(cs.pend, orig)
           n == Len(e) - Len(disk)
<1>0. /\ TypeOK /\ SizeInv /\ cs.open /\ orig <= Len(disk) /\ orig \in Nat
      /\ disk \in Seq(Cell) /\ cs.pend \in Seq(Chunks) /\ cs.refs \in Hashes
      /\ cs.index \in [Chunks -> Nat] /\ job.todo \in Seq(Seq(Cell))
  BY TypeParts DEF TypeInv, SizeInv
<1>1. /\ Len(disk) \in Nat /\ Len(e) \in Nat /\ orig <= Len(e) /\ n \in Nat /\ Len(e) = Len(disk) + n
  BY <1>0
<1>2. /\ WellFormed(disk) /\ Even(orig) /\ Written(disk, cs.pend, cs.refs, orig)
      /\ Queue(job.todo, Len(disk), cs.pend, cs.refs, orig)
      /\ IndexGood(disk, orig, cs.index) /\ PendGood(cs.index, cs.pend)
      /\ cs.refs # NoChunk => Has(cs.index, cs.pend, cs.refs)
  BY <1>0 DEF LogInv, Planned, StoreGood, End
<1>3. Agree(disk, e, orig)
  BY <1>0, <1>1 DEF Agree
<1>4. z \in Nat
  BY <1>0 DEF PlanEnd, FirstOf
<1>5. \A p \in (orig + 1)..Len(disk) : P(p, e[p])
  <2>1. \A p \in (orig + 1)..Len(disk) : p \in 1..Len(disk)
    BY <1>0, <1>1
  <2> QED BY <1>2, <2>1 DEF Written
<1>6. CASE job.todo = <<>>
  <2>1. Len(disk) = z
    BY <1>2, <1>6, QueueEnd
  <2>2. e = disk
    BY <1>6
  <2>3. Written(e, cs.pend, cs.refs, orig)
    BY <1>2, <2>2
  <2>4. Len(e) = z /\ Len(e) <= z
    BY <1>4, <2>1, <2>2
  <2>5. Appended(disk, e, cs.pend, cs.refs, orig, cs.index)
    BY <1>0, <1>2, <1>3, <2>3, <2>4 DEF Appended
  <2> QED BY <1>0, <1>1, <1>6, <2>4, <2>5
<1>7. CASE job.todo # <<>>
  <2>1. /\ Len(disk) + Len(job.todo[1]) <= z /\ Len(disk) <= z - 2
        /\ \A i \in 1..Len(job.todo[1]) : P(Len(disk) + i, job.todo[1][i])
    <3>1. \A t \in Seq(Seq(Cell)), at \in Nat, pend \in Seq(Chunks) :
             t # <<>> /\ Queue(t, at, pend, cs.refs, orig) =>
             /\ at + Len(t[1]) <= PlanEnd(pend, orig) /\ at <= PlanEnd(pend, orig) - 2
             /\ \A i \in 1..Len(t[1]) : PlanCell(pend, cs.refs, orig, at + i, t[1][i])
      BY <1>0, QueueShift
    <3> QED BY <1>0, <1>1, <1>2, <1>7, <3>1
  <2>2. Len(job.todo[1]) \in Nat /\ n <= Len(job.todo[1])
    BY <1>0, <1>7
  <2> HIDE DEF P, z, n
  <2>3. \A i \in 1..n : P(Len(disk) + i, e[Len(disk) + i])
    <3> TAKE i \in 1..n
    <3>1. i \in 1..Len(job.todo[1])
      BY <1>1, <2>2
    <3>2. e[Len(disk) + i] = job.todo[1][i]
      BY <1>7 DEF n
    <3> QED BY <2>1, <3>1, <3>2
  <2>4. \A p \in (orig + 1)..Len(e) : P(p, e[p])
    <3> TAKE p \in (orig + 1)..Len(e)
    <3>1. CASE p <= Len(disk)
      <4>1. p \in (orig + 1)..Len(disk)
        BY <1>0, <1>1, <3>1
      <4> QED BY <1>5, <4>1
    <3>2. CASE ~(p <= Len(disk))
      <4>1. p - Len(disk) \in 1..n /\ Len(disk) + (p - Len(disk)) = p
        BY <1>0, <1>1, <3>2
      <4> QED BY <2>3, <4>1
    <3> QED BY <3>1, <3>2
  <2>5. Written(e, cs.pend, cs.refs, orig)
    BY <2>4 DEF Written, P
  <2>6. Len(e) <= z /\ (n < Len(job.todo[1]) => Len(e) < z) /\ Len(disk) < z
    BY <1>1, <1>4, <2>1, <2>2
  <2>7. Appended(disk, e, cs.pend, cs.refs, orig, cs.index)
    BY <1>0, <1>2, <1>3, <2>5, <2>6 DEF Appended, z
  <2> QED BY <1>0, <1>1, <1>7, <2>6, <2>7 DEF n, z
<1> QED BY <1>6, <1>7

LEMMA LogInit == Init => LogTrue
<1> SUFFICES ASSUME Init PROVE LogTrue
  OBVIOUS
<1>1. disk = <<>> /\ job.busy = FALSE /\ job.todo = <<>> /\ cs.open = FALSE /\ acked = NoChunk
  BY DEF Init, IdleJob, ClosedStore
<1>2. Len(disk) = 0 /\ End = Len(disk)
  BY <1>1 DEF End
<1>3. WellFormed(disk) /\ RefsAre(disk, End, acked)
  BY <1>1, <1>2 DEF WellFormed, RefsAre
<1> QED BY <1>1, <1>3, TypeInit DEF LogTrue, LogInv

\* Steps that leave the file, the commit under way and what is acknowledged alone
LEMMA StoreStep ==
  ASSUME LogInv, ~job.busy, UNCHANGED <<disk, job, acked>>, StoreGood(disk, Len(disk), cs')
  PROVE  LogInv'
<1>1. End = Len(disk) /\ End' = Len(disk)
  BY DEF End
<1> QED BY <1>1 DEF LogInv

LEMMA OpenGood == TypeInv /\ LogInv /\ Open => LogInv'
<1> SUFFICES ASSUME TypeInv, LogInv, Open PROVE LogInv'
  OBVIOUS
<1>1. /\ disk \in Seq(Cell) /\ WellFormed(disk) /\ Opened(disk).ok /\ ~job.busy /\ TypeOK
      /\ UNCHANGED <<disk, job, acked>>
  BY TypeParts DEF TypeInv, SizeInv, LogInv, Open
<1> DEFINE r == Opened(disk)
<1>2. OpenedRight(disk, r) /\ OpenedType(r)
  BY <1>1, OpenedGood
<1>3. /\ cs'.index = r.index /\ cs'.pend = <<>> /\ cs'.refs = r.refs /\ cs'.committed = r.refs
  BY <1>1, OpenIs
<1> HIDE DEF r
<1>4. StoreGood(disk, Len(disk), cs')
  BY <1>1, <1>2, <1>3, ReloadGood, NothingStaged DEF StoreGood, Has
<1> QED BY <1>1, <1>4, StoreStep

LEMMA RefreshGood == TypeInv /\ LogInv /\ Refresh => LogInv'
<1> SUFFICES ASSUME TypeInv, LogInv, Refresh PROVE LogInv'
  OBVIOUS
<1>1. /\ disk \in Seq(Cell) /\ WellFormed(disk) /\ Opened(disk).ok /\ ~job.busy /\ TypeOK
      /\ UNCHANGED <<disk, job, acked>> /\ cs' = Reloaded(Opened(disk)) /\ cs.pend \in Seq(Chunks)
      /\ IndexGood(disk, Len(disk), cs.index) /\ PendGood(cs.index, cs.pend)
  BY TypeParts DEF TypeInv, LogInv, Refresh, StoreGood, End
<1> DEFINE r == Opened(disk)
<1>2. OpenedRight(disk, r) /\ OpenedType(r)
  BY <1>1, OpenedGood
<1>3. cs'.index = r.index /\ cs'.pend = cs.pend /\ cs'.refs = r.refs /\ cs'.committed = r.refs
  BY <1>1, <1>2, ReloadedIs
<1> HIDE DEF r
<1>4. IndexGood(disk, Len(disk), r.index) /\ (r.refs # NoChunk => r.index[r.refs] # 0)
  BY <1>1, <1>2, ReloadGood
<1>5. PendGood(r.index, cs.pend)
  BY <1>1, <1>2, ReloadHas
<1>6. StoreGood(disk, Len(disk), cs')
  BY <1>3, <1>4, <1>5 DEF StoreGood, Has
<1> QED BY <1>1, <1>6, StoreStep

LEMMA RollbackGood == TypeInv /\ LogInv /\ Rollback => LogInv'
<1> SUFFICES ASSUME TypeInv, LogInv, Rollback PROVE LogInv'
  OBVIOUS
<1>1. TypeOK /\ ~job.busy /\ UNCHANGED <<disk, job, acked>> /\ StoreGood(disk, Len(disk), cs)
  BY DEF TypeInv, LogInv, Rollback, End
<1>2. /\ cs'.pend = <<>> /\ cs'.refs = cs.committed /\ cs'.committed = cs.committed
      /\ cs'.index = cs.index
  BY <1>1, RollbackIs
<1>3. StoreGood(disk, Len(disk), cs')
  BY <1>1, <1>2, NothingStaged DEF StoreGood, Has
<1> QED BY <1>1, <1>3, StoreStep

LEMMA PutStays ==
  ASSUME TypeInv, LogInv, NEW h \in Chunks, Put(h)
  PROVE  LogInv'
<1>1. /\ TypeOK /\ ~job.busy /\ UNCHANGED <<disk, job, acked>> /\ StoreGood(disk, Len(disk), cs)
      /\ cs.pend \in Seq(Chunks) /\ Kids[h] \subseteq Known
  BY TypeParts DEF TypeInv, LogInv, Put, End
<1>2. /\ cs'.pend = Append(cs.pend, h) /\ cs'.refs = cs.refs /\ cs'.committed = cs.committed
      /\ cs'.index = cs.index
  BY <1>1, PutIs
<1>3. \A k \in Kids[h] : Has(cs.index, cs.pend, k)
  BY <1>1, KnownIs
<1>4. PendGood(cs.index, cs.pend)
  BY <1>1 DEF StoreGood
<1>5. /\ PendGood(cs.index, Append(cs.pend, h))
      /\ \A k : Has(cs.index, cs.pend, k) => Has(cs.index, Append(cs.pend, h), k)
  <2>1. \A index : \A pend \in Seq(Chunks) :
           PendGood(index, pend) /\ (\A k \in Kids[h] : Has(index, pend, k)) =>
             /\ PendGood(index, Append(pend, h))
             /\ \A k : Has(index, pend, k) => Has(index, Append(pend, h), k)
    BY PutGood
  <2> QED BY <1>1, <1>3, <1>4, <2>1
<1>6. StoreGood(disk, Len(disk), cs')
  BY <1>1, <1>2, <1>5 DEF StoreGood
<1> QED BY <1>1, <1>6, StoreStep

\* A commit begins at a whole record, so what it appends can be read
LEMMA CommitGood ==
  ASSUME TypeInv, LogInv, NEW refs \in Blobs, Commit(refs), ~soiled'
  PROVE  LogInv'
<1>1. /\ TypeOK /\ ~job.busy /\ UNCHANGED <<disk, acked>> /\ StoreGood(disk, Len(disk), cs)
      /\ cs.pend \in Seq(Chunks) /\ refs \in Known /\ disk \in Seq(Cell) /\ Len(disk) \in Nat
      /\ WellFormed(disk) /\ RefsAre(disk, Len(disk), acked)
  BY TypeParts DEF TypeInv, LogInv, Commit, End
<1>2. Even(Len(disk))
  <2>1. Len(disk) % 2 # 1
    BY DEF Commit, TornAtEnd
  <2>2. \A n \in Nat : n % 2 # 1 => n = 2 * (n \div 2) /\ n \div 2 \in Nat
    OBVIOUS
  <2> QED BY <1>1, <2>1, <2>2 DEF Even
<1>3. PICK kept \in Hashes :
        /\ job'.busy = TRUE /\ job'.orig = Len(disk)
        /\ Queue(job'.todo, Len(disk), cs.pend, kept, Len(disk))
        /\ cs'.refs = kept /\ cs'.pend = cs.pend
        /\ \/ /\ kept = refs
              /\ cs'.index = cs.index /\ cs'.committed = cs.committed
           \/ /\ kept = refs \/ (kept = Opened(disk).refs /\ cs.pend = <<>>)
              /\ Opened(disk).ok
              /\ cs'.index = Opened(disk).index /\ cs'.committed = Opened(disk).refs
  BY CommitIs
<1>4. refs \in Chunks /\ Has(cs.index, cs.pend, refs)
  BY <1>1, KnownIs
<1>5. StoreGood(disk, Len(disk), cs')
  <2>1. CASE kept = refs /\ cs'.index = cs.index /\ cs'.committed = cs.committed
    BY <1>1, <1>3, <1>4, <2>1 DEF StoreGood
  <2>2. CASE /\ kept = refs \/ (kept = Opened(disk).refs /\ cs.pend = <<>>)
             /\ Opened(disk).ok
             /\ cs'.index = Opened(disk).index /\ cs'.committed = Opened(disk).refs
    <3> DEFINE r == Opened(disk)
    <3>1. OpenedRight(disk, r) /\ OpenedType(r)
      BY <1>1, <2>2, OpenedGood
    <3>2. /\ kept = refs \/ kept = r.refs
          /\ cs'.index = r.index /\ cs'.committed = r.refs
      BY <2>2
    <3> HIDE DEF r
    <3>3. IndexGood(disk, Len(disk), r.index) /\ (r.refs # NoChunk => r.index[r.refs] # 0)
      BY <1>1, <3>1, ReloadGood
    <3>4. /\ PendGood(r.index, cs.pend)
          /\ \A h \in Chunks : Has(cs.index, cs.pend, h) => Has(r.index, cs.pend, h)
      BY <1>1, <3>1, ReloadHas DEF StoreGood
    <3>5. kept # NoChunk => Has(r.index, cs.pend, kept)
      BY <1>4, <3>2, <3>3, <3>4 DEF Has
    <3> QED BY <1>3, <3>2, <3>3, <3>4, <3>5 DEF StoreGood
  <2> QED BY <1>3, <2>1, <2>2
<1>6. End' = Len(disk) /\ disk' = disk /\ acked' = acked
  BY <1>1, <1>3 DEF End
<1>7. Planned'
  <2>1. \A p \in (Len(disk) + 1)..Len(disk) : FALSE
    BY <1>1
  <2>2. Written(disk, cs.pend, kept, Len(disk))
    BY <2>1 DEF Written
  <2> QED BY <1>2, <1>3, <1>6, <2>2 DEF Planned
<1> QED BY <1>1, <1>3, <1>5, <1>6, <1>7 DEF LogInv

LEMMA WriteGood == TypeInv /\ LogInv /\ Write => LogInv'
<1> SUFFICES ASSUME TypeInv, LogInv, Write PROVE LogInv'
  OBVIOUS
<1>0. /\ TypeOK /\ job.busy /\ job.todo # <<>> /\ UNCHANGED <<cs, acked>> /\ cs.open
      /\ disk \in Seq(Cell) /\ Len(disk) \in Nat /\ cs.pend \in Seq(Chunks)
      /\ job.todo \in Seq(Seq(Cell)) /\ job.orig \in Nat /\ job.orig <= Len(disk)
      /\ cs.index \in [Chunks -> Nat]
  BY TypeParts DEF TypeInv, SizeInv, Write
<1>1. /\ disk' \in Seq(Cell) /\ job.todo[1] \in Seq(Cell)
      /\ Len(disk') = Len(disk) + Len(job.todo[1])
      /\ \A p \in 1..Len(disk) : disk'[p] = disk[p]
      /\ \A i \in 1..Len(job.todo[1]) : disk'[Len(disk) + i] = job.todo[1][i]
      /\ job' = [busy |-> TRUE, todo |-> Tail(job.todo), off |-> Len(disk'), orig |-> job.orig]
  BY <1>0, WriteIs
<1>2. job'.busy = TRUE /\ job'.todo = Tail(job.todo) /\ job'.orig = job.orig
  BY <1>1
<1>3. /\ Len(disk') - Len(disk) = Len(job.todo[1]) /\ Len(disk) <= Len(disk')
      /\ Len(job.todo[1]) \in Nat /\ Len(disk') \in Nat /\ job.orig <= Len(disk')
  BY <1>0, <1>1
<1>4. Appended(disk, disk', cs.pend, cs.refs, job.orig, cs.index)
  <2> DEFINE e == disk'
  <2>1. /\ e \in Seq(Cell) /\ Len(disk) <= Len(e)
        /\ \A p \in 1..Len(disk) : e[p] = disk[p]
        /\ Len(e) - Len(disk) <= Len(job.todo[1])
        /\ \A i \in 1..(Len(e) - Len(disk)) : e[Len(disk) + i] = job.todo[1][i]
    BY <1>1, <1>3
  <2> HIDE DEF e
  <2>2. Appended(disk, e, cs.pend, cs.refs, job.orig, cs.index)
    BY <1>0, <2>1, CommitAppends
  <2> QED BY <2>2 DEF e
<1>5. /\ WellFormed(disk) /\ Even(job.orig) /\ Written(disk', cs.pend, cs.refs, job.orig)
      /\ Agree(disk, disk', job.orig)
  BY <1>4 DEF Appended
<1>6. Queue(job'.todo, Len(disk'), cs.pend, cs.refs, job.orig)
  <2>1. Queue(job.todo, Len(disk), cs.pend, cs.refs, job.orig)
    BY <1>0 DEF LogInv, Planned
  <2>2. Queue(Tail(job.todo), Len(disk) + Len(job.todo[1]), cs.pend, cs.refs, job.orig)
    <3>1. \A t \in Seq(Seq(Cell)), at \in Nat, pend \in Seq(Chunks), orig \in Nat :
             t # <<>> /\ Queue(t, at, pend, cs.refs, orig) =>
             Queue(Tail(t), at + Len(t[1]), pend, cs.refs, orig)
      BY QueueShift
    <3> QED BY <1>0, <2>1, <3>1
  <2> QED BY <1>1, <1>2, <2>2
<1>7. Planned'
  BY <1>0, <1>2, <1>5, <1>6 DEF Planned
<1>8. WellFormed(disk')
  <2>1. \A e \in Seq(Cell) : Appended(disk, e, cs.pend, cs.refs, job.orig, cs.index) => WellFormed(e)
    BY <1>0, AppendWellFormed
  <2> QED BY <1>1, <1>4, <2>1
<1>9. End = job.orig /\ End' = job.orig
  BY <1>0, <1>2 DEF End
<1>10. RefsAre(disk', job.orig, acked)
  <2>1. RefsAre(disk, job.orig, acked)
    BY <1>9 DEF LogInv
  <2>2. \A e \in Seq(Cell) : Agree(disk, e, job.orig) => RefsAre(e, job.orig, acked)
    BY <1>0, <2>1, RefsStay
  <2> QED BY <1>1, <1>5, <2>2
<1>11. StoreGood(disk', job.orig, cs)
  <2>1. StoreGood(disk, job.orig, cs)
    BY <1>0, <1>9 DEF LogInv
  <2>2. \A e \in Seq(Cell) : Agree(disk, e, job.orig) => IndexGood(e, job.orig, cs.index)
    <3>1. IndexGood(disk, job.orig, cs.index)
      BY <2>1 DEF StoreGood
    <3>2. \A e \in Seq(Cell) : Agree(disk, e, job.orig) => job.orig <= Len(e)
      BY DEF Agree
    <3> QED BY <1>0, <3>1, <3>2, IndexStays
  <2>3. IndexGood(disk', job.orig, cs.index)
    BY <1>1, <1>5, <2>2
  <2> QED BY <2>1, <2>3 DEF StoreGood
<1> QED BY <1>0, <1>2, <1>7, <1>8, <1>9, <1>10, <1>11 DEF LogInv

LEMMA LandedHas ==
  ASSUME TypeOK
  PROVE  \A h \in Chunks : Landed(h) # 0 <=> Has(cs.index, cs.pend, h)
<1> TAKE h \in Chunks
<1>0. job.orig \in Nat /\ Len(cs.pend) \in Nat /\ FirstOf(job.orig) \in Nat
  BY TypeParts DEF FirstOf
<1>1. CASE Landed(h) = cs.index[h] /\ \A i \in 1..Len(cs.pend) : cs.pend[i] # h
  BY <1>1 DEF Has, Staged
<1>2. ASSUME NEW i \in 1..Len(cs.pend), cs.pend[i] = h, Landed(h) = FirstOf(job.orig) + 2 * i
      PROVE  Landed(h) # 0 /\ Has(cs.index, cs.pend, h)
  <2>1. Landed(h) # 0
    BY <1>0, <1>2
  <2> QED BY <1>2, <2>1 DEF Has, Staged
<1> QED BY <1>1, <1>2, LandedIs

LEMMA SyncGood == TypeInv /\ LogInv /\ Sync => LogInv'
<1> SUFFICES ASSUME TypeInv, LogInv, Sync PROVE LogInv'
  OBVIOUS
<1>0. /\ TypeOK /\ job.busy /\ job.todo = <<>> /\ job' = IdleJob /\ disk' = disk /\ acked' = cs.refs
      /\ disk \in Seq(Cell) /\ Len(disk) \in Nat /\ cs.pend \in Seq(Chunks) /\ cs.refs \in Hashes
      /\ cs.open /\ cs.index \in [Chunks -> Nat] /\ job.orig \in Nat
  BY TypeParts DEF TypeInv, SizeInv, Sync
<1>1. /\ Appended(disk, disk, cs.pend, cs.refs, job.orig, cs.index)
      /\ Len(disk) = PlanEnd(cs.pend, job.orig) /\ job.orig <= Len(disk)
  BY <1>0, CommitAppends
<1>2. /\ RefsAre(disk, Len(disk), cs.refs)
      /\ \A h \in Chunks : Has(cs.index, cs.pend, h) => Kept(disk, Len(disk), h)
      /\ \A i \in 1..Len(cs.pend) : /\ FirstOf(job.orig) + 2 * i \in 1..Len(disk)
                                    /\ disk[FirstOf(job.orig) + 2 * i] = C("body", cs.pend[i])
  <2>1. RefsAre(disk, Len(disk), cs.refs)
    BY <1>0, <1>1, FromRoot
  <2>2. \A h \in Chunks : Has(cs.index, cs.pend, h) => Kept(disk, Len(disk), h)
    BY <1>0, <1>1, FromRoot
  <2>3. BodiesIn(disk, cs.pend, job.orig)
    BY <1>0, <1>1, FromRoot
  <2> QED BY <2>1, <2>2, <2>3 DEF BodiesIn
<1>3. /\ IndexGood(disk, job.orig, cs.index) /\ PendGood(cs.index, cs.pend)
      /\ cs.refs # NoChunk => Has(cs.index, cs.pend, cs.refs)
  BY <1>1 DEF Appended
<1>4. /\ cs'.open = cs.open /\ cs'.pend = <<>> /\ cs'.refs = cs.refs /\ cs'.committed = cs.refs
      /\ \A h \in Chunks : cs'.index[h] = Landed(h)
  BY <1>0, SyncIs
<1>5. ASSUME NEW h \in Chunks, Landed(h) # 0
      PROVE  /\ Kept(disk, Len(disk), h) /\ Landed(h) <= Len(disk)
             /\ Landed(h) \in DOMAIN disk /\ disk[Landed(h)] = C("body", h)
             /\ \A k \in Kids[h] : k \in Chunks /\ Has(cs.index, cs.pend, k)
  <2>0. Has(cs.index, cs.pend, h) /\ Kept(disk, Len(disk), h) /\ Kids[h] \subseteq Chunks
    BY <1>0, <1>2, <1>5, LandedHas, ChunksAssumption
  <2>1. CASE Landed(h) = cs.index[h]
    <3>1. /\ cs.index[h] <= job.orig /\ Readable(disk, cs.index, h)
          /\ \A k \in Kids[h] : cs.index[k] # 0
      BY <1>3, <1>5, <2>1 DEF IndexGood
    <3>2. cs.index[h] \in Nat /\ cs.index[h] <= Len(disk)
      BY <1>0, <1>1, <3>1
    <3> QED BY <2>0, <2>1, <3>1, <3>2 DEF Readable, Has
  <2>2. ASSUME NEW i \in 1..Len(cs.pend), cs.pend[i] = h, Landed(h) = FirstOf(job.orig) + 2 * i
        PROVE  /\ Landed(h) <= Len(disk) /\ Landed(h) \in DOMAIN disk /\ disk[Landed(h)] = C("body", h)
               /\ \A k \in Kids[h] : Has(cs.index, cs.pend, k)
    <3>1. Landed(h) \in 1..Len(disk) /\ disk[Landed(h)] = C("body", h)
      BY <1>2, <2>2
    <3>2. Landed(h) <= Len(disk) /\ Landed(h) \in DOMAIN disk
      BY <1>0, <3>1
    <3>3. \A k \in Kids[h] : cs.index[k] # 0 \/ Staged(cs.pend, i - 1, k)
      BY <1>3, <2>2 DEF PendGood
    <3>4. \A j \in 1..(i - 1) : j \in 1..Len(cs.pend)
      BY <1>0
    <3> QED BY <3>1, <3>2, <3>3, <3>4 DEF Has, Staged
  <2> QED BY <1>0, <2>0, <2>1, <2>2, LandedIs
<1>6. IndexGood(disk, Len(disk), cs'.index)
  BY <1>0, <1>4, <1>5, LandedHas DEF IndexGood, Readable
<1>7. cs.refs # NoChunk => cs'.index[cs.refs] # 0
  <2>1. cs.refs # NoChunk => cs.refs \in Chunks
    BY <1>0 DEF Hashes
  <2> QED BY <1>0, <1>3, <1>4, <2>1, LandedHas
<1>8. StoreGood(disk, Len(disk), cs')
  BY <1>4, <1>6, <1>7, NothingStaged DEF StoreGood, Has
<1>9. job'.busy = FALSE /\ job'.todo = <<>> /\ End' = Len(disk)
  BY <1>0 DEF IdleJob, End
<1>10. WellFormed(disk)
  BY DEF LogInv
<1> QED BY <1>0, <1>2, <1>8, <1>9, <1>10 DEF LogInv

\* What a commit that is interrupted within a write leaves in the file
LEMMA PartlyGood ==
  ASSUME TypeInv, LogInv, job.busy, NEW n \in CellsWritten
  PROVE  /\ Partly(n) \in Seq(Cell)
         /\ WellFormed(Partly(n)) /\ Agree(disk, Partly(n), job.orig)
         /\ job.todo = <<>> => Partly(n) = disk /\ RefsAre(disk, Len(disk), cs.refs)
                               /\ Len(disk) = PlanEnd(cs.pend, job.orig)
         /\ job.todo # <<>> => RefsAre(Partly(n), Len(Partly(n)), acked)
<1> DEFINE e == Partly(n)
<1>0. /\ TypeOK /\ disk \in Seq(Cell) /\ Len(disk) \in Nat /\ job.todo \in Seq(Seq(Cell))
      /\ job.orig \in Nat /\ job.orig <= Len(disk)
  BY TypeParts DEF TypeInv, SizeInv
<1>1. /\ e \in Seq(Cell) /\ Len(disk) <= Len(e) /\ \A p \in 1..Len(disk) : e[p] = disk[p]
      /\ job.todo = <<>> => e = disk
      /\ job.todo # <<>> =>
           /\ Len(e) - Len(disk) < Len(job.todo[1])
           /\ \A i \in 1..(Len(e) - Len(disk)) : e[Len(disk) + i] = job.todo[1][i]
  BY <1>0, PartlyIs
<1> HIDE DEF e
<1>2. job.todo # <<>> => Len(e) - Len(disk) <= Len(job.todo[1])
  <2> SUFFICES ASSUME job.todo # <<>> PROVE Len(e) - Len(disk) <= Len(job.todo[1])
    OBVIOUS
  <2>1. Len(e) - Len(disk) < Len(job.todo[1]) /\ Len(e) \in Nat /\ Len(job.todo[1]) \in Nat
    BY <1>0, <1>1
  <2> QED BY <1>0, <2>1
<1>3. /\ Appended(disk, e, cs.pend, cs.refs, job.orig, cs.index) /\ job.orig <= Len(e)
      /\ job.todo = <<>> => Len(e) = PlanEnd(cs.pend, job.orig)
      /\ job.todo # <<>> => Len(e) < PlanEnd(cs.pend, job.orig)
  BY <1>1, <1>2, CommitAppends
<1>4. WellFormed(e) /\ Agree(disk, e, job.orig)
  BY <1>0, <1>1, <1>3, AppendWellFormed DEF Appended
<1>5. RefsAre(disk, job.orig, acked)
  BY DEF LogInv, End
<1>6. job.todo = <<>> => RefsAre(e, Len(e), cs.refs)
  BY <1>0, <1>1, <1>3, FromRoot
<1>7. job.todo # <<>> => RefsAre(e, Len(e), acked)
  BY <1>0, <1>1, <1>3, <1>5, UntilRoot
<1> QED BY <1>1, <1>3, <1>4, <1>6, <1>7 DEF e

LEMMA FailGood == TypeInv /\ LogInv /\ CommitFails => LogInv'
<1> SUFFICES ASSUME TypeInv, LogInv, CommitFails PROVE LogInv'
  OBVIOUS
<1>0. /\ TypeOK /\ job.busy /\ job' = IdleJob /\ acked' = acked /\ cs.open
      /\ disk \in Seq(Cell) /\ Len(disk) \in Nat /\ cs.pend \in Seq(Chunks)
      /\ job.orig \in Nat /\ job.orig <= Len(disk) /\ job.off = Len(disk)
      /\ cs.index \in [Chunks -> Nat]
  BY TypeParts DEF TypeInv, SizeInv, CommitFails
<1>1. PICK n \in CellsWritten : disk' = CutBack(Partly(n))
  BY DEF CommitFails
<1> DEFINE e == Partly(n)
           c == CutBack(e)
<1>2. /\ e \in Seq(Cell) /\ WellFormed(e) /\ Agree(disk, e, job.orig)
      /\ job.todo = <<>> => e = disk /\ Len(disk) = PlanEnd(cs.pend, job.orig)
      /\ job.todo # <<>> => RefsAre(e, Len(e), acked)
  BY <1>0, PartlyGood
<1>3. Len(disk) <= Len(e) /\ Len(e) \in Nat /\ \A p \in 1..Len(disk) : e[p] = disk[p]
  BY <1>0, PartlyIs
<1> HIDE DEF e
<1>4. /\ c \in Seq(Cell) /\ job.orig <= Len(c)
      /\ \A p \in 1..Len(c) : c[p] = e[p]
      /\ job.off > job.orig => Len(c) = job.orig
      /\ ~(job.off > job.orig) => c = e
  BY <1>0, <1>2, <1>3, CutBackIs
<1> HIDE DEF c
<1>5. Len(c) \in Nat /\ Len(c) <= Len(e) /\ Agree(e, c, Len(c)) /\ Agree(disk, c, job.orig)
  <2>1. Len(c) \in Nat /\ Len(c) <= Len(e)
    BY <1>0, <1>2, <1>3, <1>4 DEF Agree
  <2>2. \A p \in 1..job.orig : p \in 1..Len(c)
    BY <1>0, <1>4, <2>1
  <2> QED BY <1>0, <1>2, <1>3, <1>4, <2>1, <2>2 DEF Agree
<1>6. WellFormed(c)
  BY <1>2, <1>4, <1>5, CutWellFormed
<1>7. RefsAre(c, Len(c), acked)
  <2>1. CASE job.off > job.orig
    <3>1. RefsAre(disk, job.orig, acked)
      BY <1>0 DEF LogInv, End
    <3> QED BY <1>0, <1>4, <1>5, <2>1, <3>1, RefsStay
  <2>2. CASE ~(job.off > job.orig)
    <3>1. Len(disk) = job.orig
      BY <1>0, <2>2
    <3>2. PlanEnd(cs.pend, job.orig) > job.orig
      BY <1>0 DEF PlanEnd, FirstOf
    <3>3. job.todo # <<>>
      BY <1>0, <1>2, <3>1, <3>2
    <3> QED BY <1>2, <1>4, <2>2, <3>3
  <2> QED BY <2>1, <2>2
<1>8. StoreGood(disk, job.orig, cs)
  BY <1>0 DEF LogInv, End
<1>9. IndexGood(c, Len(c), cs.index)
  <2>1. IndexGood(disk, job.orig, cs.index) /\ Len(c) <= Len(c)
    BY <1>5, <1>8 DEF StoreGood
  <2> QED BY <1>0, <1>4, <1>5, <2>1, IndexStays
<1>10. /\ cs'.open = cs.open /\ cs'.pend = cs.pend /\ cs'.refs = cs.committed
       /\ cs'.committed = cs.committed /\ cs'.index = cs.index
  BY <1>0, FailIs
<1>11. StoreGood(c, Len(c), cs')
  BY <1>8, <1>9, <1>10 DEF StoreGood, Has
<1>12. disk' = c /\ job'.busy = FALSE /\ job'.todo = <<>> /\ End' = Len(c)
  BY <1>0, <1>1 DEF IdleJob, End, c, e
<1> QED BY <1>0, <1>6, <1>7, <1>11, <1>12 DEF LogInv

LEMMA CrashGood == TypeInv /\ LogInv /\ Crash => LogInv'
<1> SUFFICES ASSUME TypeInv, LogInv, Crash PROVE LogInv'
  OBVIOUS
<1>1. PICK n \in CellsWritten : disk' = Partly(n)
  BY DEF Crash
<1>2. /\ cs'.open = FALSE /\ job'.busy = FALSE /\ job'.todo = <<>> /\ End' = Len(disk')
      /\ acked' = IF job.busy /\ job.todo = <<>> THEN cs.refs ELSE acked
  BY DEF Crash, ClosedStore, IdleJob, End
<1>3. CASE ~job.busy
  <2>1. job.todo = <<>> /\ WellFormed(disk) /\ RefsAre(disk, Len(disk), acked)
    BY <1>3 DEF LogInv, End
  <2>2. disk' = disk
    BY <1>1, <2>1 DEF Partly
  <2> QED BY <1>2, <1>3, <2>1, <2>2 DEF LogInv
<1>4. CASE job.busy
  <2>1. /\ WellFormed(disk')
        /\ job.todo = <<>> => RefsAre(disk', Len(disk'), cs.refs)
        /\ job.todo # <<>> => RefsAre(disk', Len(disk'), acked)
    BY <1>1, <1>4, PartlyGood
  <2> QED BY <1>2, <1>4, <2>1 DEF LogInv
<1> QED BY <1>3, <1>4

LEMMA LogStep == LogTrue /\ [Next]_vars => LogTrue'
<1> SUFFICES ASSUME LogTrue, [Next]_vars PROVE LogTrue'
  OBVIOUS
<1>1. TypeInv /\ TypeInv'
  BY TypeStep DEF LogTrue
<1> SUFFICES ASSUME ~soiled' PROVE LogInv'
  BY <1>1 DEF LogTrue
<1>2. ~soiled
  BY DEF Next, vars, Open, Refresh, Rollback, Write, Sync, CommitFails, Crash, Put, Commit
<1>3. LogInv
  BY <1>2 DEF LogTrue
<1>4. CASE UNCHANGED vars
  BY <1>3, <1>4 DEF vars, LogInv, End, Planned
<1> QED
  BY <1>1, <1>3, <1>4, OpenGood, RefreshGood, RollbackGood, WriteGood, SyncGood, FailGood, CrashGood,
     PutStays, CommitGood DEF Next

-----------------------------------------------------------------------------
(* Recovery.                                                               *)

LEMMA RefsUnique ==
  ASSUME NEW d \in Seq(Cell), NEW a, NEW b, RefsAre(d, Len(d), a), RefsAre(d, Len(d), b)
  PROVE  a = b
<1>1. ASSUME NEW r \in 1..Len(d), LastRoot(d, Len(d), r), NEW q \in 1..Len(d), LastRoot(d, Len(d), q)
      PROVE  r = q
  BY <1>1 DEF LastRoot
<1>2. ASSUME NEW r \in 1..Len(d), LastRoot(d, Len(d), r)
      PROVE  ~\A q \in 1..Len(d) : ~RootAt(d, Len(d), q)
  BY <1>2 DEF LastRoot
<1> QED BY <1>1, <1>2 DEF RefsAre

\* Opening a log finds what it is of, and all that this names
LEMMA FindsRefs ==
  ASSUME NEW d \in Seq(Cell), WellFormed(d), NEW a \in Chunks, RefsAre(d, Len(d), a)
  PROVE  Opened(d).ok /\ Opened(d).refs = a /\ Whole(d, Opened(d).index, a)
<1>0. Len(d) # 1 /\ Len(d) \in 0..Len(d)
  <2>1. PICK r \in 1..Len(d) : LastRoot(d, Len(d), r)
    BY ChunksAssumption DEF RefsAre
  <2>2. 2 * r + 2 <= Len(d) /\ r \in Nat /\ r >= 1 /\ Len(d) \in Nat
    BY <2>1 DEF LastRoot, RootAt
  <2>3. \A n, q \in Nat : q >= 1 /\ 2 * q + 2 <= n => n # 1 /\ n \in 0..n
    OBVIOUS
  <2> QED BY <2>2, <2>3
<1> DEFINE o == Opened(d)
<1>1. OpenedRight(d, o)
  BY <1>0, OpenedIs
<1> HIDE DEF o
<1>2. o.ok /\ o.refs = a
  BY <1>1, RefsUnique DEF OpenedRight
<1> DEFINE S == {h \in Chunks : Kept(d, Len(d), h)}
<1>3. a \in S /\ \A k \in S : Kids[k] \subseteq S
  BY <1>0, KeptClosed
<1>4. \A k \in S : Readable(d, o.index, k)
  BY <1>1 DEF OpenedRight
<1>5. Whole(d, o.index, a)
  <2>1. S \in SUBSET Chunks
    OBVIOUS
  <2> HIDE DEF S
  <2> QED BY <1>3, <1>4, <2>1 DEF Whole
<1> QED BY <1>2, <1>5 DEF o

LEMMA LogRecovers == LogTrue => RecoversLast
<1> SUFFICES ASSUME LogTrue, ~soiled, acked # NoChunk, ~RootWritten PROVE Recovered
  BY DEF RecoversLast
<1>1. /\ TypeInv /\ LogInv /\ disk \in Seq(Cell) /\ acked \in Chunks /\ WellFormed(disk)
  BY TypeParts DEF LogTrue, TypeInv, LogInv, Hashes
<1>2. RefsAre(disk, Len(disk), acked)
  <2>1. CASE ~job.busy
    BY <1>1, <2>1 DEF LogInv, End
  <2>2. CASE job.busy
    <3>0. job.todo # <<>> /\ job.orig \in Nat /\ Len(disk) \in Nat /\ job.todo \in Seq(Seq(Cell))
      BY <1>1, <2>2, TypeParts DEF RootWritten, TypeInv
    <3>1. /\ Len(disk) <= Len(disk) /\ Len(disk) - Len(disk) <= Len(job.todo[1])
          /\ \A i \in 1..(Len(disk) - Len(disk)) : FALSE
      BY <3>0
    <3>2. /\ Appended(disk, disk, cs.pend, cs.refs, job.orig, cs.index)
          /\ job.orig <= Len(disk) /\ Len(disk) < PlanEnd(cs.pend, job.orig)
      BY <1>1, <2>2, <3>0, <3>1, CommitAppends
    <3>3. RefsAre(disk, job.orig, acked)
      BY <1>1, <2>2 DEF LogInv, End
    <3> QED BY <1>1, <3>0, <3>2, <3>3, UntilRoot
  <2> QED BY <2>1, <2>2
<1> QED BY <1>1, <1>2, FindsRefs DEF Recovered

LEMMA LogReads == LogTrue => NothingLeftOut
<1> SUFFICES ASSUME LogTrue, cs.open, ~job.busy, ~soiled
             PROVE  /\ Whole(disk, cs.index, cs.committed)
                    /\ \A h \in Known : /\ Kids[h] \subseteq Known
                                        /\ h \notin Pending => Readable(disk, cs.index, h)
  BY DEF NothingLeftOut
<1>1. /\ cs.pend \in Seq(Chunks) /\ cs.committed \in Hashes /\ StoreGood(disk, Len(disk), cs)
  BY TypeParts DEF LogTrue, TypeInv, LogInv, End
<1>2. \A h \in Chunks : Kids[h] \subseteq Chunks
  BY ChunksAssumption
<1>3. \A h \in Chunks : cs.index[h] # 0 => /\ Readable(disk, cs.index, h)
                                           /\ \A k \in Kids[h] : cs.index[k] # 0
  BY <1>1 DEF StoreGood, IndexGood
<1>4. Whole(disk, cs.index, cs.committed)
  <2> DEFINE S == {h \in Chunks : cs.index[h] # 0}
  <2>1. S \in SUBSET Chunks /\ \A k \in S : Kids[k] \subseteq S /\ Readable(disk, cs.index, k)
    BY <1>2, <1>3
  <2>2. cs.committed # NoChunk => cs.committed \in S
    BY <1>1 DEF StoreGood, Hashes
  <2> HIDE DEF S
  <2> QED BY <2>1, <2>2 DEF Whole
<1>5. ASSUME NEW h \in Known
      PROVE  /\ Kids[h] \subseteq Known
             /\ h \notin Pending => Readable(disk, cs.index, h)
  <2>1. h \in Chunks /\ Has(cs.index, cs.pend, h)
    BY <1>1, KnownIs
  <2>2. CASE cs.index[h] # 0
    BY <1>1, <1>2, <1>3, <2>1, <2>2, KnownIs DEF Has
  <2>3. CASE Staged(cs.pend, Len(cs.pend), h)
    <3>1. PICK i \in 1..Len(cs.pend) : cs.pend[i] = h
      BY <2>3 DEF Staged
    <3>2. \A k \in Kids[h] : cs.index[k] # 0 \/ Staged(cs.pend, i - 1, k)
      BY <1>1, <3>1 DEF StoreGood, PendGood
    <3>3. \A j \in 1..(i - 1) : j \in 1..Len(cs.pend)
      BY <1>1
    <3>4. \A k \in Kids[h] : Has(cs.index, cs.pend, k)
      BY <3>2, <3>3 DEF Has, Staged
    <3>5. h \in Pending
      BY <1>1, <2>3, KnownIs
    <3> QED BY <1>1, <1>2, <2>1, <3>4, <3>5, KnownIs
  <2> QED BY <2>1, <2>2, <2>3 DEF Has
<1> QED BY <1>4, <1>5

\* Whatever a crash or a failed write leaves behind the last acknowledged commit,
\* opening the file finds that commit and everything it names, unless a commit
\* was appended to a torn record (csReplayWal, csRollbackFailedAppend)
THEOREM CommitsAreRecovered == Spec => []RecoversLast
<1> QED BY LogInit, LogStep, LogRecovers, PTL DEF Spec

\* An open store can read all that its refs and its staged chunks name, so that
\* the next commit leaves nothing out (chunkStorePut skips what it has already)
THEOREM CommitsAreWhole == Spec => []NothingLeftOut
<1> QED BY LogInit, LogStep, LogReads, PTL DEF Spec

=============================================================================
