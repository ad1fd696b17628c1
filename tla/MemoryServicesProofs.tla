------------------------ MODULE MemoryServicesProofs ------------------------
(***************************************************************************)
(* Proofs about the services of MemoryServices, for every value of the     *)
(* constants they are given: settlement (Settlement), the reviews of the   *)
(* edge worker (EdgeMaintenance), bootstrap and statements (RuntimeApi),   *)
(* the observation journal (Observations), and intake and forget on the    *)
(* edge (EdgeBrain).                                                       *)
(***************************************************************************)
EXTENDS MemoryServices, Sequences, FiniteSetTheorems, WellFoundedInduction, TLAPS

(***************************************************************************)
(* Pages of a finite set in a strict total order R, given as its pairs.    *)
(***************************************************************************)
Orders(R, S) ==
  /\ \A x \in S : <<x, x>> \notin R
  /\ \A x, y, z \in S : <<x, y>> \in R /\ <<y, z>> \in R => <<x, z>> \in R
  /\ \A x, y \in S : x = y \/ <<x, y>> \in R \/ <<y, x>> \in R

Preceding(R, S, x) == {y \in S : <<y, x>> \in R}

\* The first n elements of S.
FirstOf(R, S, n) == {x \in S : Cardinality(Preceding(R, S, x)) < n}

LEMMA LeastNumber ==
  ASSUME NEW N \in SUBSET Nat, N # {} PROVE \E m \in N : \A n \in N : m <= n
<1>1. PICK m \in N : \A n \in N : ~ (<<n, m>> \in OpToRel(<, Nat))
  BY WFMin, NatLessThanWellFounded, Zenon
<1>2. \A n \in N : ~ (n < m) BY <1>1 DEF OpToRel
<1> QED BY <1>2

\* A finite ordered set has a first element.
LEMMA FirstExists ==
  ASSUME NEW S, NEW R, IsFiniteSet(S), S # {}, Orders(R, S)
  PROVE \E m \in S : \A x \in S : x = m \/ <<m, x>> \in R
<1> DEFINE N == {Cardinality(Preceding(R, S, x)) : x \in S}
<1>1. \A x \in S : IsFiniteSet(Preceding(R, S, x)) /\ Cardinality(Preceding(R, S, x)) \in Nat
  BY FS_Subset, FS_CardinalityType DEF Preceding
<1>2. N \in SUBSET Nat /\ N # {} BY <1>1
<1>3. PICK n \in N : \A k \in N : n <= k BY ONLY <1>2, LeastNumber
<1>4. PICK m \in S : n = Cardinality(Preceding(R, S, m)) BY <1>3
<1>5. ASSUME NEW x \in Preceding(R, S, m) PROVE FALSE
  <2>1. x \in S /\ <<x, m>> \in R BY <1>5 DEF Preceding
  <2>2. Preceding(R, S, x) \in SUBSET Preceding(R, S, m) BY <2>1, <1>4 DEF Preceding, Orders
  <2>3. x \notin Preceding(R, S, x) BY <2>1 DEF Preceding, Orders
  <2>4. Cardinality(Preceding(R, S, x)) < Cardinality(Preceding(R, S, m))
    BY <1>1, <1>4, <1>5, <2>1, <2>2, <2>3, FS_Subset
  <2>5. Cardinality(Preceding(R, S, x)) \in N BY <2>1
  <2> QED BY <1>1, <1>3, <1>4, <2>1, <2>4, <2>5
<1> QED BY <1>4, <1>5 DEF Preceding, Orders

\* And a last one.
LEMMA LastExists ==
  ASSUME NEW S, NEW R, IsFiniteSet(S), S # {}, Orders(R, S)
  PROVE \E m \in S : \A x \in S : x = m \/ <<x, m>> \in R
<1> DEFINE Q == {p \in S \X S : <<p[2], p[1]>> \in R}
<1>1. \A x, y \in S : <<x, y>> \in Q <=> <<y, x>> \in R OBVIOUS
<1> HIDE DEF Q
<1>2. Orders(Q, S) BY <1>1 DEF Orders
<1>3. PICK m \in S : \A x \in S : x = m \/ <<m, x>> \in Q BY <1>2, FirstExists
<1> QED BY <1>1, <1>3

LEMMA SubsetOrders ==
  ASSUME NEW S, NEW R, Orders(R, S), NEW T \in SUBSET S PROVE Orders(R, T)
BY DEF Orders

\* What a page leaves comes after all of it, an empty page leaves nothing, and so does
\* a page that is not full.
LEMMA PageIsFirst ==
  ASSUME NEW S, NEW R, IsFiniteSet(S), Orders(R, S), NEW n \in Nat \ {0}
  PROVE LET T == FirstOf(R, S, n)
        IN /\ IsFiniteSet(T)
           /\ \A x \in S \ T, t \in T : <<t, x>> \in R
           /\ T = {} => S = {}
           /\ Cardinality(T) # n => T = S
<1> DEFINE T == FirstOf(R, S, n)
<1>1. \A x \in S : IsFiniteSet(Preceding(R, S, x)) /\ Cardinality(Preceding(R, S, x)) \in Nat
  BY FS_Subset, FS_CardinalityType DEF Preceding
<1>2. T \in SUBSET S BY DEF FirstOf
<1>3. IsFiniteSet(T) /\ Cardinality(T) \in Nat BY <1>2, FS_Subset, FS_CardinalityType
<1>4. ASSUME NEW x \in S \ T, NEW t \in T PROVE <<t, x>> \in R
  <2>1. x # t /\ t \in S BY <1>2, <1>4
  <2>2. CASE <<x, t>> \in R
    <3>1. Preceding(R, S, x) \in SUBSET Preceding(R, S, t) BY <2>1, <2>2 DEF Preceding, Orders
    <3>2. Cardinality(Preceding(R, S, x)) <= Cardinality(Preceding(R, S, t))
      BY <1>1, <2>1, <3>1, FS_Subset
    <3>3. Cardinality(Preceding(R, S, t)) < n BY DEF FirstOf
    <3>4. x \in T BY <1>1, <1>4, <2>1, <3>2, <3>3 DEF FirstOf
    <3> QED BY <3>4, <1>4
  <2> QED BY <2>1, <2>2 DEF Orders
<1>5. ASSUME S # T PROVE Cardinality(T) = n /\ T # {}
  <2>1. S \ T # {} /\ IsFiniteSet(S \ T) BY <1>2, <1>5, FS_Subset
  <2>2. Orders(R, S \ T) BY SubsetOrders
  <2>3. PICK x \in S \ T : \A y \in S \ T : y = x \/ <<x, y>> \in R BY <2>1, <2>2, FirstExists
  <2>4. Preceding(R, S, x) \in SUBSET T BY <2>3 DEF Preceding, Orders
  <2>5. Cardinality(Preceding(R, S, x)) <= Cardinality(T) BY <1>3, <2>4, FS_Subset
  <2>6. ~ (Cardinality(Preceding(R, S, x)) < n) BY <2>3 DEF FirstOf
  <2>7. Cardinality(T) >= n BY <1>1, <1>3, <2>5, <2>6
  <2>8. T # {} BY <2>7, FS_EmptySet
  <2>9. PICK m \in T : \A t \in T : t = m \/ <<t, m>> \in R
    <3>1. Orders(R, T) BY <1>2, SubsetOrders
    <3> QED BY <1>3, <2>8, <3>1, LastExists
  <2>10. T \ {m} \in SUBSET Preceding(R, S, m) BY <1>2, <2>9 DEF Preceding
  <2>11. Cardinality(T \ {m}) <= Cardinality(Preceding(R, S, m)) BY <1>1, <1>2, <2>10, FS_Subset
  <2>12. Cardinality(T \ {m}) = Cardinality(T) - 1 BY <1>3, FS_RemoveElement
  <2>13. Cardinality(Preceding(R, S, m)) < n /\ m \in S BY DEF FirstOf
  <2>14. Cardinality(T) - 1 < n BY <1>1, <1>3, <2>11, <2>12, <2>13
  <2> QED BY <1>3, <2>7, <2>8, <2>14
<1> HIDE DEF T
<1>6. T = {} => S = {} BY <1>5
<1>7. Cardinality(T) # n => T = S BY <1>5
<1> QED BY <1>3, <1>4, <1>6, <1>7 DEF T

(***************************************************************************)
(* Settlement.                                                             *)
(***************************************************************************)
SettleRows == [seq : 1..MaxSeq, id : Settle!Assertions]
Cycles == [at : {"idle", "record", "due", "raise"}, rows : SUBSET SettleRows,
           next : Settle!Cursors, due : SUBSET (Settle!Commitments \X (1..MaxTime)),
           roots : SUBSET Settle!Assertions]

\* The row of the backlog an Assertion makes.
RowOf(a) == [seq |-> at[a], id |-> a]

\* No cursor is ahead of the transactions of the Space, so that what a later
\* one supersedes lies beyond every cursor.
CursorsAreBehind ==
  /\ \A a \in Settle!Assertions : at[a] <= seq
  /\ meta.cursor.seq <= seq /\ disk.cursor.seq <= seq /\ cycle.next.seq <= seq

\* While a page is being recorded, the cursor it leads to leaves behind only
\* what was counted or is still to be recorded.
PageIsOwed ==
  cycle.at = "record" =>
    \A a \in Settle!Assertions :
      at[a] # 0 => \/ Settle!Beyond(RowOf(a), cycle.next)
                   \/ a \in counts
                   \/ \E r \in cycle.rows : r.id = a

\* What the ledger does not have was not counted.
CountsFollowLedger ==
  \A a \in Settle!Assertions :
    /\ a \notin counts => meta.counts[a] = 0
    /\ meta.counts[a] <= 1 /\ disk.counts[a] <= meta.counts[a]

\* The roots of a report are counted before it is handed over, or are still to
\* be recorded.
RootsAreCounted ==
  /\ Settle!HandedAreCounted
  /\ \A a \in cycle.roots : a \in counts \/ (cycle.at = "record" /\ \E r \in cycle.rows : r.id = a)

SettleInv ==
  /\ Settle!TypeOK /\ cycle \in Cycles
  /\ CursorsAreBehind
  /\ Settle!CorrectionsAreCovered
  /\ PageIsOwed
  /\ CountsFollowLedger
  /\ RootsAreCounted

LEMMA SettleNats ==
  /\ NumAssertions \in Nat /\ SettleBatch \in Nat \ {0} /\ MaxSeq \in Nat
  /\ NumCommitments \in Nat /\ MaxTime \in Nat
BY SettleAssumption DEF SettleAssumption

LEMMA SettleInit == Settle!Init => SettleInv
<1> SUFFICES ASSUME Settle!Init PROVE SettleInv OBVIOUS
<1> USE SettleNats DEF Settle!Init, Settle!Start, Settle!NoCycle
<1>1. Settle!TypeOK
  <2>1. meta \in Settle!Metas /\ disk \in Settle!Metas BY DEF Settle!Cursors, Settle!Metas
  <2>2. commitment \in [Settle!Commitments -> [open : BOOLEAN, due : 1..MaxTime, watched : BOOLEAN]]
    OBVIOUS
  <2> QED BY <2>1, <2>2 DEF Settle!TypeOK, Settle!Cursors
<1>2. cycle \in Cycles BY DEF Cycles, Settle!Cursors
<1>3. CursorsAreBehind BY DEF CursorsAreBehind
<1>4. Settle!CorrectionsAreCovered BY DEF Settle!CorrectionsAreCovered
<1>5. PageIsOwed BY DEF PageIsOwed
<1>6. CountsFollowLedger BY DEF CountsFollowLedger
<1>7. RootsAreCounted BY DEF RootsAreCounted, Settle!HandedAreCounted
<1> QED BY <1>1, <1>2, <1>3, <1>4, <1>5, <1>6, <1>7 DEF SettleInv

\* A write of superseded Assertions lies beyond every cursor.
LEMMA SettleSupersede ==
  ASSUME SettleInv, NEW S \in SUBSET Settle!Assertions, Settle!Supersede(S) PROVE SettleInv'
<1> USE SettleNats DEF Settle!Supersede, Settle!promises
<1>0. /\ meta \in Settle!Metas /\ disk \in Settle!Metas /\ cycle \in Cycles
      /\ seq \in 0..MaxSeq /\ at \in [Settle!Assertions -> 0..MaxSeq]
  BY DEF SettleInv, Settle!TypeOK
<1>1. Settle!TypeOK' BY DEF SettleInv, Settle!TypeOK
<1>2. (cycle \in Cycles)' BY DEF SettleInv
<1>3. CursorsAreBehind'
  BY <1>0 DEF SettleInv, CursorsAreBehind, Settle!Metas, Settle!Cursors, Cycles
<1>4. ASSUME NEW a \in Settle!Assertions, NEW c \in Settle!Cursors, c.seq <= seq
      PROVE \/ at'[a] = at[a]
            \/ Settle!Beyond([seq |-> at'[a], id |-> a], c)
  BY <1>0, <1>4 DEF Settle!Beyond, Settle!Cursors
<1>5. Settle!CorrectionsAreCovered'
  BY <1>0, <1>4 DEF SettleInv, Settle!CorrectionsAreCovered, CursorsAreBehind, Settle!Metas
<1>6. PageIsOwed'
  BY <1>0, <1>4 DEF SettleInv, PageIsOwed, CursorsAreBehind, Cycles, RowOf
<1>7. CountsFollowLedger' BY DEF SettleInv, CountsFollowLedger
<1>8. RootsAreCounted' BY DEF SettleInv, RootsAreCounted, Settle!HandedAreCounted
<1> QED BY <1>1, <1>2, <1>3, <1>5, <1>6, <1>7, <1>8 DEF SettleInv

LEMMA SettleTime ==
  ASSUME SettleInv, Settle!TimePasses PROVE SettleInv'
<1> USE SettleNats DEF Settle!TimePasses, Settle!graph
<1>1. Settle!TypeOK' BY DEF SettleInv, Settle!TypeOK
<1>2. (cycle \in Cycles)' BY DEF SettleInv
<1>3. CursorsAreBehind' BY DEF SettleInv, CursorsAreBehind
<1>4. Settle!CorrectionsAreCovered'
  BY DEF SettleInv, Settle!CorrectionsAreCovered
<1>5. PageIsOwed' BY DEF SettleInv, PageIsOwed, RowOf
<1>6. CountsFollowLedger' BY DEF SettleInv, CountsFollowLedger
<1>7. RootsAreCounted' BY DEF SettleInv, RootsAreCounted, Settle!HandedAreCounted
<1> QED BY <1>1, <1>2, <1>3, <1>4, <1>5, <1>6, <1>7 DEF SettleInv

LEMMA SettleEdit ==
  ASSUME SettleInv, NEW c \in Settle!Commitments, Settle!EditCommitment(c) PROVE SettleInv'
<1> USE SettleNats DEF Settle!EditCommitment, Settle!graph
<1>1. commitment' \in [Settle!Commitments -> [open : BOOLEAN, due : 1..MaxTime, watched : BOOLEAN]]
  <2>1. commitment \in [Settle!Commitments -> [open : BOOLEAN, due : 1..MaxTime, watched : BOOLEAN]]
    BY DEF SettleInv, Settle!TypeOK
  <2>2. CASE commitment' = [commitment EXCEPT ![c].open = FALSE] BY <2>1, <2>2
  <2>3. CASE commitment' = [commitment EXCEPT ![c].watched = ~@]
    <3>1. (~commitment[c].watched) \in BOOLEAN OBVIOUS
    <3> QED BY <2>1, <2>3, <3>1
  <2>4. CASE \E d \in (commitment[c].due + 1)..MaxTime : commitment' = [commitment EXCEPT ![c].due = d]
    BY <2>1, <2>4
  <2> QED BY <2>2, <2>3, <2>4
<1>2. Settle!TypeOK' BY <1>1 DEF SettleInv, Settle!TypeOK
<1>3. (cycle \in Cycles)' BY DEF SettleInv
<1>4. CursorsAreBehind' BY DEF SettleInv, CursorsAreBehind
<1>5. Settle!CorrectionsAreCovered'
  BY DEF SettleInv, Settle!CorrectionsAreCovered
<1>6. PageIsOwed' BY DEF SettleInv, PageIsOwed, RowOf
<1>7. CountsFollowLedger' BY DEF SettleInv, CountsFollowLedger
<1>8. RootsAreCounted' BY DEF SettleInv, RootsAreCounted, Settle!HandedAreCounted
<1> QED BY <1>2, <1>3, <1>4, <1>5, <1>6, <1>7, <1>8 DEF SettleInv

\* The backlog is finite, and Before orders it.
SettleOrder == {p \in SettleRows \X SettleRows : Settle!Before(p[1], p[2])}

LEMMA SettleOrders ==
  ASSUME NEW S \in SUBSET SettleRows PROVE Orders(SettleOrder, S)
<1>1. \A x, y \in SettleRows : <<x, y>> \in SettleOrder <=> Settle!Before(x, y) BY DEF SettleOrder
<1>2. \A x, y \in SettleRows : x.seq = y.seq /\ x.id = y.id => x = y BY DEF SettleRows
<1>3. \A x \in SettleRows : x.seq \in Nat /\ x.id \in Nat BY SettleNats DEF SettleRows, Settle!Assertions
<1>4. \A x \in S : <<x, x>> \notin SettleOrder BY <1>1, <1>3 DEF Settle!Before
<1>5. \A x, y, z \in S : Settle!Before(x, y) /\ Settle!Before(y, z) => Settle!Before(x, z)
  BY <1>3 DEF Settle!Before
<1>6. \A x, y \in S : x = y \/ Settle!Before(x, y) \/ Settle!Before(y, x)
  BY <1>2, <1>3 DEF Settle!Before
<1>7. \A x, y \in S : <<x, y>> \in SettleOrder <=> Settle!Before(x, y) BY <1>1
<1> QED BY <1>4, <1>5, <1>6, <1>7 DEF Orders

LEMMA BacklogRows ==
  ASSUME SettleInv
  PROVE LET all == Settle!Backlog(meta.cursor)
        IN all \in SUBSET SettleRows /\ IsFiniteSet(all)
<1> DEFINE all == Settle!Backlog(meta.cursor)
           A == {a \in Settle!Assertions : RowOf(a) \in all}
           f == [a \in A |-> RowOf(a)]
<1>1. at \in [Settle!Assertions -> 0..MaxSeq] BY DEF SettleInv, Settle!TypeOK
<1>2. all \in SUBSET SettleRows
  BY <1>1, SettleNats DEF Settle!Backlog, SettleRows
<1>3. \A r \in all : \E a \in A : r = RowOf(a) BY DEF Settle!Backlog, RowOf
<1>4. f \in Surjection(A, all)
  <2> HIDE DEF all
  <2> QED BY <1>3 DEF Surjection
<1>5. IsFiniteSet(A)
  <2>1. IsFiniteSet(Settle!Assertions) BY SettleNats, FS_Interval DEF Settle!Assertions
  <2> QED BY <2>1, FS_Subset
<1>6. IsFiniteSet(all) BY <1>4, <1>5, FS_Surjection
<1> QED BY <1>2, <1>6

\* A page of the scan is the first of the backlog, and the cursor it leads to
\* leaves nothing of the rest behind.
LEMMA ScanIsOwed ==
  ASSUME SettleInv
  PROVE LET taken == Settle!Page(Settle!Backlog(meta.cursor))
            next == Settle!PageEnd(taken, meta.cursor)
        IN /\ taken \in SUBSET SettleRows
           /\ next \in Settle!Cursors /\ next.seq <= seq
           /\ \A r \in Settle!Backlog(meta.cursor) : r \in taken \/ Settle!Beyond(r, next)
<1> DEFINE all == Settle!Backlog(meta.cursor)
           taken == Settle!Page(all)
           next == Settle!PageEnd(taken, meta.cursor)
           last == Settle!LastRow(taken)
<1>1. all \in SUBSET SettleRows /\ IsFiniteSet(all) BY BacklogRows
<1>2. meta.cursor \in Settle!Cursors /\ meta.cursor.seq <= seq /\ seq \in 0..MaxSeq
  BY DEF SettleInv, Settle!TypeOK, Settle!Metas, CursorsAreBehind
<1>3. \A r \in all : r.seq <= seq
  BY DEF SettleInv, CursorsAreBehind, Settle!Backlog
<1> HIDE DEF all
<1>4. taken = FirstOf(SettleOrder, all, SettleBatch)
  <2>1. \A S : Settle!Cardinality(S) = Cardinality(S) BY DEF Settle!Cardinality, Cardinality
  <2>2. ASSUME NEW x \in all
        PROVE {r \in all : Settle!Before(r, x)} = Preceding(SettleOrder, all, x)
    BY <1>1, <2>2 DEF Preceding, SettleOrder
  <2> QED BY <2>1, <2>2 DEF Settle!Page, FirstOf
<1>5. Orders(SettleOrder, all) BY <1>1, SettleOrders
<1>6. /\ IsFiniteSet(taken)
      /\ \A r \in all \ taken, t \in taken : <<t, r>> \in SettleOrder
      /\ taken = {} => all = {}
      /\ Cardinality(taken) # SettleBatch => taken = all
  BY <1>1, <1>4, <1>5, PageIsFirst, SettleNats
<1>7. taken \in SUBSET all BY DEF Settle!Page
<1> HIDE DEF taken
<1>8. CASE taken = {}
  <2>1. next = [seq |-> meta.cursor.seq, after |-> 0] BY <1>8 DEF Settle!PageEnd
  <2>2. next \in Settle!Cursors /\ next.seq <= seq
    BY <1>2, <2>1, SettleNats DEF Settle!Cursors
  <2> QED BY <1>1, <1>6, <1>8, <2>2 DEF all, taken
<1>9. CASE taken # {}
  <2>1. last \in taken /\ \A r \in taken : r = last \/ Settle!Before(r, last)
    <3>1. Orders(SettleOrder, taken) BY <1>5, <1>7, SubsetOrders
    <3>2. \E m \in taken : \A r \in taken : r = m \/ <<r, m>> \in SettleOrder
      BY <1>6, <1>9, <3>1, LastExists
    <3>3. \E m \in taken : \A r \in taken : r = m \/ Settle!Before(r, m)
      BY <3>2 DEF SettleOrder
    <3> QED BY <3>3 DEF Settle!LastRow
  <2>2. last \in SettleRows /\ last.seq <= seq BY <1>1, <1>3, <1>7, <2>1
  <2> HIDE DEF last
  <2>3. next = [seq |-> last.seq, after |-> IF Cardinality(taken) = SettleBatch THEN last.id ELSE 0]
    BY <1>9 DEF Settle!PageEnd, last, Settle!Cardinality, Cardinality
  <2>4. next \in Settle!Cursors /\ next.seq <= seq
    BY <2>2, <2>3, SettleNats DEF Settle!Cursors, SettleRows, Settle!Assertions
  <2>5. ASSUME NEW r \in all, r \notin taken PROVE Settle!Beyond(r, next)
    <3>1. Settle!Before(last, r) BY <1>6, <2>1, <2>5 DEF SettleOrder
    <3>2. next = [seq |-> last.seq, after |-> last.id] BY <1>6, <2>3, <2>5
    <3>3. last.id # 0 /\ last.id \in Nat /\ last.seq \in Nat BY <2>2, SettleNats DEF SettleRows, Settle!Assertions
    <3>4. r.id \in Nat /\ r.seq \in Nat BY <1>1, SettleNats DEF SettleRows, Settle!Assertions
    <3> QED BY <3>1, <3>2, <3>3, <3>4 DEF Settle!Before, Settle!Beyond
  <2> QED BY <1>1, <1>7, <2>4, <2>5 DEF all, taken
<1> QED BY <1>8, <1>9

LEMMA SettleScan ==
  ASSUME SettleInv, Settle!ScanCorrections PROVE SettleInv'
<1> USE SettleNats DEF Settle!ScanCorrections, Settle!graph, Settle!promises
<1>0. /\ meta \in Settle!Metas /\ cycle \in Cycles /\ at \in [Settle!Assertions -> 0..MaxSeq]
  BY DEF SettleInv, Settle!TypeOK
<1>1. PICK taken \in SUBSET SettleRows, next \in Settle!Cursors :
        /\ cycle'.at = "record" /\ cycle'.rows = taken /\ cycle'.next = next
        /\ next.seq <= seq
        /\ \A r \in Settle!Backlog(meta.cursor) : r \in taken \/ Settle!Beyond(r, next)
        /\ cycle' = [at |-> "record", rows |-> taken, next |-> next, due |-> {}, roots |-> cycle'.roots]
        /\ cycle'.roots \in SUBSET Settle!Assertions
        /\ \A a \in cycle'.roots : \E r \in taken : r.id = a
  <2>1. CASE cycle' = [Settle!NoCycle EXCEPT !.at = "record",
                         !.rows = Settle!Page(Settle!Backlog(meta.cursor)),
                         !.next = Settle!PageEnd(Settle!Page(Settle!Backlog(meta.cursor)), meta.cursor),
                         !.roots = Settle!RevisedRoots(Settle!Page(Settle!Backlog(meta.cursor)))]
    <3> DEFINE taken == Settle!Page(Settle!Backlog(meta.cursor))
               next == Settle!PageEnd(taken, meta.cursor)
               first == Settle!RevisedRoots(taken)
    <3>1. /\ taken \in SUBSET SettleRows /\ next \in Settle!Cursors /\ next.seq <= seq
          /\ \A r \in Settle!Backlog(meta.cursor) : r \in taken \/ Settle!Beyond(r, next)
      BY ScanIsOwed
    <3>2. cycle' = [at |-> "record", rows |-> taken, next |-> next, due |-> {}, roots |-> first]
      BY <2>1 DEF Settle!NoCycle
    <3> HIDE DEF taken, next
    <3>3. \A a \in first : \E r \in taken : r.id = a BY DEF Settle!RevisedRoots
    <3>4. first \in SUBSET Settle!Assertions BY <3>1, <3>3 DEF SettleRows
    <3> HIDE DEF first
    <3> QED BY <3>1, <3>2, <3>3, <3>4
  <2>2. CASE cycle' = [Settle!NoCycle EXCEPT !.at = "record", !.next = meta.cursor]
    <3>1. cycle' = [at |-> "record", rows |-> {}, next |-> meta.cursor, due |-> {}, roots |-> {}]
      BY <2>2 DEF Settle!NoCycle
    <3>2. meta.cursor \in Settle!Cursors /\ meta.cursor.seq <= seq
      BY <1>0 DEF SettleInv, CursorsAreBehind, Settle!Metas
    <3>3. \A r \in Settle!Backlog(meta.cursor) : Settle!Beyond(r, meta.cursor) BY DEF Settle!Backlog
    <3> QED BY <3>1, <3>2, <3>3
  <2> QED BY <2>1, <2>2
<1>3. (cycle \in Cycles)' BY <1>1 DEF Cycles
<1>4. Settle!TypeOK' BY <1>1 DEF SettleInv, Settle!TypeOK
<1>5. CursorsAreBehind' BY <1>1 DEF SettleInv, CursorsAreBehind
<1>6. Settle!CorrectionsAreCovered'
  BY DEF SettleInv, Settle!CorrectionsAreCovered
<1>7. PageIsOwed'
  <2> SUFFICES ASSUME NEW a \in Settle!Assertions, at[a] # 0
               PROVE Settle!Beyond(RowOf(a), next) \/ a \in counts \/ \E r \in taken : r.id = a
    BY <1>1 DEF PageIsOwed, RowOf
  <2>1. CASE Settle!Beyond(RowOf(a), meta.cursor)
    <3>1. RowOf(a) \in Settle!Backlog(meta.cursor) BY <2>1 DEF Settle!Backlog, RowOf
    <3>2. RowOf(a).id = a BY DEF RowOf
    <3> QED BY <1>1, <3>1, <3>2
  <2>2. CASE ~Settle!Beyond(RowOf(a), meta.cursor)
    BY <2>2 DEF SettleInv, Settle!CorrectionsAreCovered, RowOf
  <2> QED BY <2>1, <2>2
<1>8. CountsFollowLedger' BY DEF SettleInv, CountsFollowLedger
<1>9. RootsAreCounted' BY <1>1 DEF SettleInv, RootsAreCounted, Settle!HandedAreCounted
<1> QED BY <1>3, <1>4, <1>5, <1>6, <1>7, <1>8, <1>9 DEF SettleInv

LEMMA SettleRecord ==
  ASSUME SettleInv, Settle!RecordRow PROVE SettleInv'
<1> USE SettleNats DEF Settle!RecordRow, Settle!graph, Settle!promises
<1>0. /\ meta \in Settle!Metas /\ disk \in Settle!Metas /\ cycle \in Cycles
      /\ counts \in SUBSET Settle!Assertions /\ at \in [Settle!Assertions -> 0..MaxSeq]
  BY DEF SettleInv, Settle!TypeOK
<1>1. PICK r \in cycle.rows : Settle!RecordCorrection(r.id) /\ cycle' = [cycle EXCEPT !.rows = @ \ {r}]
  OBVIOUS
<1>2. r \in SettleRows BY <1>0 DEF Cycles
<1>3. r.id \in Settle!Assertions /\ MaxSeq >= 1 BY <1>2 DEF SettleRows
<1>4. PICK a : a = r.id OBVIOUS
<1>5. counts' = counts \cup {a} /\ meta' = (IF a \in counts THEN meta ELSE [meta EXCEPT !.counts[a] = @ + 1])
  BY <1>1, <1>4 DEF Settle!RecordCorrection
<1>6. meta' \in Settle!Metas /\ meta'.cursor = meta.cursor
  <2>1. CASE a \in counts BY <1>0, <1>5, <2>1
  <2>2. CASE a \notin counts
    <3>1. meta.counts[a] = 0 BY <1>3, <1>4, <2>2 DEF SettleInv, CountsFollowLedger
    <3>2. meta' = [meta EXCEPT !.counts = [@ EXCEPT ![a] = 1]] BY <1>0, <1>5, <2>2, <3>1 DEF Settle!Metas
    <3>3. [meta.counts EXCEPT ![a] = 1] \in [Settle!Assertions -> 0..MaxSeq]
      BY <1>0, <1>3, <1>4 DEF Settle!Metas
    <3> QED BY <1>0, <3>2, <3>3 DEF Settle!Metas
  <2> QED BY <2>1, <2>2
<1>7. \A b \in Settle!Assertions :
        meta'.counts[b] = IF b = a /\ a \notin counts THEN 1 ELSE meta.counts[b]
  <2>1. CASE a \in counts BY <1>5, <2>1
  <2>2. CASE a \notin counts
    <3>1. meta.counts[a] = 0 BY <1>3, <1>4, <2>2 DEF SettleInv, CountsFollowLedger
    <3>2. meta' = [meta EXCEPT !.counts = [@ EXCEPT ![a] = 1]] BY <1>0, <1>5, <2>2, <3>1 DEF Settle!Metas
    <3> QED BY <1>0, <2>2, <3>2 DEF Settle!Metas
  <2> QED BY <2>1, <2>2
<1>8. (cycle \in Cycles)' BY <1>0, <1>1 DEF Cycles
<1>9. /\ cycle'.at = "record" /\ cycle'.next = cycle.next /\ cycle'.rows = cycle.rows \ {r}
      /\ cycle'.roots = cycle.roots
  BY <1>0, <1>1 DEF Cycles
<1>10. Settle!TypeOK'
  BY <1>3, <1>4, <1>5, <1>6, <1>8 DEF SettleInv, Settle!TypeOK, Cycles
<1>11. CursorsAreBehind' BY <1>6, <1>9 DEF SettleInv, CursorsAreBehind
<1>12. Settle!CorrectionsAreCovered'
  BY <1>5, <1>6 DEF SettleInv, Settle!CorrectionsAreCovered
<1>13. PageIsOwed'
  BY <1>4, <1>5, <1>9 DEF SettleInv, PageIsOwed, RowOf
<1>14. CountsFollowLedger'
  <2> SUFFICES ASSUME NEW b \in Settle!Assertions
               PROVE /\ b \notin counts' => meta'.counts[b] = 0
                     /\ meta'.counts[b] <= 1 /\ disk.counts[b] <= meta'.counts[b]
    BY DEF CountsFollowLedger
  <2>1. /\ b \notin counts => meta.counts[b] = 0
        /\ meta.counts[b] <= 1 /\ disk.counts[b] <= meta.counts[b]
    BY DEF SettleInv, CountsFollowLedger
  <2>2. disk.counts[b] \in Nat BY <1>0 DEF Settle!Metas
  <2> QED BY <1>5, <1>7, <2>1, <2>2
<1>15. RootsAreCounted' BY <1>4, <1>5, <1>9 DEF SettleInv, RootsAreCounted, Settle!HandedAreCounted
<1> QED BY <1>8, <1>10, <1>11, <1>12, <1>13, <1>14, <1>15 DEF SettleInv

\* The cursor moves once everything of its page was recorded.
LEMMA SettleMove ==
  ASSUME SettleInv, Settle!MoveCursor PROVE SettleInv'
<1> USE SettleNats DEF Settle!MoveCursor, Settle!graph, Settle!promises
<1>0. /\ meta \in Settle!Metas /\ disk \in Settle!Metas /\ cycle \in Cycles
  BY DEF SettleInv, Settle!TypeOK
<1>1. meta' \in Settle!Metas /\ meta'.cursor = cycle.next /\ meta'.counts = meta.counts
  BY <1>0 DEF Settle!Metas, Cycles
<1>2. (cycle \in Cycles)' /\ cycle'.next = cycle.next /\ cycle'.at = "due" /\ cycle'.roots = cycle.roots
  BY <1>0 DEF Cycles
<1>3. Settle!TypeOK' BY <1>1, <1>2 DEF SettleInv, Settle!TypeOK, Cycles
<1>4. CursorsAreBehind' BY <1>1, <1>2 DEF SettleInv, CursorsAreBehind
<1>5. Settle!CorrectionsAreCovered'
  BY <1>1 DEF SettleInv, Settle!CorrectionsAreCovered, PageIsOwed, RowOf
<1>6. PageIsOwed' BY <1>2 DEF PageIsOwed
<1>7. CountsFollowLedger' BY <1>1 DEF SettleInv, CountsFollowLedger
<1>8. RootsAreCounted' BY <1>2 DEF SettleInv, RootsAreCounted, Settle!HandedAreCounted
<1> QED BY <1>2, <1>3, <1>4, <1>5, <1>6, <1>7, <1>8 DEF SettleInv

\* The steps that leave the metadata alone and end the recording of a page.
LEMMA SettleCycleEnds ==
  ASSUME SettleInv, cycle' \in Cycles, cycle'.at # "record", cycle'.next.seq <= seq,
         cycle'.roots \subseteq cycle.roots, cycle'.roots # {} => cycle.at # "record",
         UNCHANGED <<seq, at, counts, meta, disk, seNow, commitment, handed>>,
         raised' \subseteq Settle!Commitments \X (1..MaxTime)
  PROVE SettleInv'
<1>1. Settle!TypeOK' BY DEF SettleInv, Settle!TypeOK, Cycles
<1>2. CursorsAreBehind' BY DEF SettleInv, CursorsAreBehind
<1>3. Settle!CorrectionsAreCovered' BY DEF SettleInv, Settle!CorrectionsAreCovered
<1>4. PageIsOwed' BY DEF PageIsOwed
<1>5. CountsFollowLedger' BY DEF SettleInv, CountsFollowLedger
<1>6. RootsAreCounted' BY DEF SettleInv, RootsAreCounted, Settle!HandedAreCounted
<1> QED BY <1>1, <1>2, <1>3, <1>4, <1>5, <1>6 DEF SettleInv

LEMMA NoCycleIsOne ==
  ASSUME seq \in 0..MaxSeq
  PROVE Settle!NoCycle \in Cycles /\ Settle!NoCycle.at = "idle" /\ Settle!NoCycle.next.seq <= seq
        /\ Settle!NoCycle.roots = {}
BY SettleNats DEF Cycles, Settle!NoCycle, Settle!Start, Settle!Cursors

LEMMA SettleRecordFails ==
  ASSUME SettleInv, Settle!RecordFails PROVE SettleInv'
<1>1. seq \in 0..MaxSeq /\ raised \subseteq Settle!Commitments \X (1..MaxTime)
  BY DEF SettleInv, Settle!TypeOK
<1> QED BY <1>1, NoCycleIsOne, SettleCycleEnds DEF Settle!RecordFails, Settle!graph, Settle!promises

LEMMA SettleReadDue ==
  ASSUME SettleInv, Settle!ReadDue PROVE SettleInv'
<1>1. /\ seq \in 0..MaxSeq /\ raised \subseteq Settle!Commitments \X (1..MaxTime) /\ cycle \in Cycles
      /\ cycle.next.seq <= seq
      /\ commitment \in [Settle!Commitments -> [open : BOOLEAN, due : 1..MaxTime, watched : BOOLEAN]]
  BY DEF SettleInv, Settle!TypeOK, CursorsAreBehind
<1>2. PICK owed \in SUBSET {<<c, commitment[c].due>> : c \in {d \in Settle!Commitments : Settle!IsDue(d)}} :
        cycle' = [cycle EXCEPT !.at = "raise", !.due = owed]
  BY DEF Settle!ReadDue
<1>3. owed \in SUBSET (Settle!Commitments \X (1..MaxTime)) BY <1>1, <1>2
<1>4. cycle' \in Cycles /\ cycle'.at = "raise" /\ cycle'.next = cycle.next /\ cycle'.roots = cycle.roots
  BY <1>1, <1>2, <1>3 DEF Cycles
<1> QED BY <1>1, <1>4, SettleCycleEnds DEF Settle!ReadDue, Settle!graph, Settle!promises

LEMMA SettleRaise ==
  ASSUME SettleInv, Settle!RaiseDue PROVE SettleInv'
<1>1. /\ raised \subseteq Settle!Commitments \X (1..MaxTime) /\ cycle \in Cycles
      /\ cycle.next.seq <= seq
  BY DEF SettleInv, Settle!TypeOK, CursorsAreBehind
<1>2. PICK d \in cycle.due :
        /\ raised' = raised \union {d} \/ raised' = raised
        /\ cycle' = [cycle EXCEPT !.due = @ \ {d}]
  BY DEF Settle!RaiseDue
<1>3. cycle.at = "raise" BY DEF Settle!RaiseDue
<1>4. d \in Settle!Commitments \X (1..MaxTime) BY <1>1, <1>2 DEF Cycles
<1>5. cycle' \in Cycles /\ cycle'.at = "raise" /\ cycle'.next = cycle.next /\ cycle'.roots = cycle.roots
  BY <1>1, <1>2, <1>3 DEF Cycles
<1>6. raised' \subseteq Settle!Commitments \X (1..MaxTime) BY <1>1, <1>2, <1>4
<1> QED BY <1>1, <1>5, <1>6, SettleCycleEnds DEF Settle!RaiseDue, Settle!graph

\* A flush, with the settlement it may end: what is durable is what is in memory.
LEMMA SettleFlush ==
  ASSUME SettleInv, Settle!Finish \/ Settle!OtherFlush PROVE SettleInv'
<1> USE SettleNats DEF Settle!Finish, Settle!OtherFlush, Settle!graph, Settle!promises
<1>0. seq \in 0..MaxSeq /\ meta \in Settle!Metas /\ cycle \in Cycles BY DEF SettleInv, Settle!TypeOK
<1>1. /\ UNCHANGED <<seq, at, counts, meta, seNow, commitment, raised>>
      /\ disk' = meta \/ disk' = disk
      /\ cycle' = cycle \/ cycle' = Settle!NoCycle
  OBVIOUS
<1>2. cycle' \in Cycles /\ cycle'.next.seq <= seq
  BY <1>0, <1>1, NoCycleIsOne DEF SettleInv, CursorsAreBehind
<1>3. Settle!TypeOK'
  <2>1. handed' \subseteq Settle!Assertions BY <1>0 DEF SettleInv, Settle!TypeOK, Cycles
  <2> QED BY <1>1, <1>2, <2>1 DEF SettleInv, Settle!TypeOK, Cycles
<1>4. CursorsAreBehind' BY <1>1, <1>2 DEF SettleInv, CursorsAreBehind
<1>5. Settle!CorrectionsAreCovered'
  <2>1. CASE disk' = meta BY <1>1, <2>1 DEF SettleInv, Settle!CorrectionsAreCovered
  <2>2. CASE disk' = disk BY <1>1, <2>2 DEF SettleInv, Settle!CorrectionsAreCovered
  <2> QED BY <1>1, <2>1, <2>2
<1>6. PageIsOwed'
  <2>1. CASE cycle' = cycle BY <1>1, <2>1 DEF SettleInv, PageIsOwed, RowOf
  <2>2. CASE cycle' = Settle!NoCycle BY <2>2 DEF PageIsOwed, Settle!NoCycle
  <2> QED BY <1>1, <2>1, <2>2
<1>7. CountsFollowLedger'
  <2>1. \A a \in Settle!Assertions : meta.counts[a] \in Nat BY <1>0 DEF Settle!Metas
  <2> QED BY <1>1, <2>1 DEF SettleInv, CountsFollowLedger
<1>8. RootsAreCounted'
  <2>1. CASE Settle!Finish
    <3>1. cycle'.roots = {} /\ handed' = handed \union cycle.roots /\ cycle.at = "raise"
      BY <1>0, <2>1, NoCycleIsOne
    <3> QED BY <1>1, <3>1 DEF SettleInv, RootsAreCounted, Settle!HandedAreCounted
  <2>2. CASE Settle!OtherFlush BY <2>2 DEF SettleInv, RootsAreCounted, Settle!HandedAreCounted
  <2> QED BY <2>1, <2>2
<1> QED BY <1>2, <1>3, <1>4, <1>5, <1>6, <1>7, <1>8 DEF SettleInv

\* After a crash the metadata is what was flushed.
LEMMA SettleCrash ==
  ASSUME SettleInv, Settle!Crash PROVE SettleInv'
<1> USE SettleNats DEF Settle!Crash, Settle!graph, Settle!promises
<1>0. seq \in 0..MaxSeq /\ meta \in Settle!Metas /\ disk \in Settle!Metas BY DEF SettleInv, Settle!TypeOK
<1>1. cycle' \in Cycles /\ cycle'.next.seq <= seq /\ cycle'.at = "idle" /\ cycle'.roots = {}
  BY <1>0, NoCycleIsOne
<1>2. Settle!TypeOK' BY <1>1 DEF SettleInv, Settle!TypeOK, Cycles
<1>3. CursorsAreBehind' BY <1>1 DEF SettleInv, CursorsAreBehind
<1>4. Settle!CorrectionsAreCovered' BY DEF SettleInv, Settle!CorrectionsAreCovered
<1>5. PageIsOwed' BY <1>1 DEF PageIsOwed
<1>6. CountsFollowLedger'
  <2>1. \A a \in Settle!Assertions : meta.counts[a] \in Nat /\ disk.counts[a] \in Nat BY <1>0 DEF Settle!Metas
  <2> QED BY <2>1 DEF SettleInv, CountsFollowLedger
<1>7. RootsAreCounted' BY <1>1 DEF SettleInv, RootsAreCounted, Settle!HandedAreCounted
<1> QED BY <1>1, <1>2, <1>3, <1>4, <1>5, <1>6, <1>7 DEF SettleInv

LEMMA SettleStep ==
  ASSUME SettleInv, [Settle!Next]_settleVars PROVE SettleInv'
<1>1. CASE UNCHANGED settleVars
  BY <1>1 DEF settleVars, SettleInv, Settle!TypeOK, CursorsAreBehind, Settle!CorrectionsAreCovered,
     PageIsOwed, RowOf, CountsFollowLedger, Settle!Beyond, RootsAreCounted, Settle!HandedAreCounted
<1>2. CASE Settle!Next
  BY <1>2, SettleSupersede, SettleTime, SettleEdit, SettleScan, SettleRecord, SettleRecordFails,
     SettleMove, SettleReadDue, SettleRaise, SettleFlush, SettleCrash
  DEF Settle!Next, Settle!Settle
<1> QED BY <1>1, <1>2

LEMMA SettleInvImplies ==
  SettleInv => Settle!TypeOK /\ Settle!CorrectionsAreCovered /\ Settle!CountedOnce
               /\ Settle!HandedAreCounted
BY DEF SettleInv, CountsFollowLedger, Settle!CountedOnce, RootsAreCounted

(***************************************************************************)
(* Maintenance on the edge worker.                                         *)
(***************************************************************************)
ScanCursors == [seq : 0..MaxRoots, after : 0..MaxRoots]
ReviewPasses == [at : {"none", "planning", "closing"}, epoch : Nat, seen : SUBSET Review!Claims]

\* Whether a claim lies after a cursor.
Past(c, r) == r[1] > c.seq \/ (r[1] = c.seq /\ c.after # 0 /\ r[2] > c.after)

\* Commits and ids are numbered from one without holes, purged claims included.
RootsAreNumbered ==
  /\ IsFiniteSet(roots) /\ Cardinality(roots) <= MaxRoots
  /\ \A r \in roots : r[1] <= Cardinality(roots) /\ r[2] <= Cardinality(roots)

\* A cursor stands at some claim, so that a new commit lies after it.
StandsBehind(c) == c.seq = 0 \/ \E r \in roots : c.seq <= r[1]

\* The end of a pending page leaves behind only what was reviewed, was purged
\* or is still on the page.
PageIsPending ==
  page # Nothing =>
    /\ page \in [roots : SUBSET Review!Claims, to : ScanCursors] /\ StandsBehind(page.to)
    /\ \A r \in roots \ (acked \cup gone) : r \in page.roots \/ Past(page.to, r)

ReviewTypes ==
  /\ run # Nothing => run \in [by : Workers, epoch : Nat, live : BOOLEAN]
  /\ work \in [Workers -> ReviewPasses]

ReviewInv ==
  /\ Review!TypeOK /\ ReviewTypes
  /\ RootsAreNumbered /\ StandsBehind(emCursor)
  /\ Review!CorrectionsAreReviewed
  /\ PageIsPending

LEMMA ReviewNats ==
  ReviewBatch \in Nat \ {0} /\ MaxReviewEpoch \in Nat /\ MaxRoots \in Nat
BY ReviewAssumption DEF ReviewAssumption

LEMMA AfterIsPast == \A r : Review!After(r) <=> Past(emCursor, r)
BY DEF Review!After, Past

LEMMA ReviewInit == Review!Init => ReviewInv
<1> SUFFICES ASSUME Review!Init PROVE ReviewInv OBVIOUS
<1> USE ReviewNats DEF Review!Init
<1>1. Review!TypeOK
  <2>1. \A w \in Workers : work[w] = [at |-> "none", epoch |-> 0, seen |-> {}] OBVIOUS
  <2>2. emCursor \in [seq : 0..MaxRoots, after : 0..MaxRoots] OBVIOUS
  <2>3. epoch \in 0..MaxReviewEpoch OBVIOUS
  <2>7. blocked \in BOOLEAN OBVIOUS
  <2>4. \A w \in Workers : work[w].at \in {"none", "planning", "closing"} /\ work[w].seen \subseteq roots
    BY <2>1
  <2>5. roots \subseteq Review!Claims /\ gone \subseteq roots /\ acked \subseteq roots OBVIOUS
  <2>6. page = Nothing /\ run = Nothing OBVIOUS
  <2> QED BY ONLY <2>2, <2>3, <2>4, <2>5, <2>6, <2>7 DEF Review!TypeOK
<1>2. ReviewTypes BY DEF ReviewTypes, ReviewPasses
<1>3. RootsAreNumbered BY FS_EmptySet DEF RootsAreNumbered
<1>4. StandsBehind(emCursor) BY DEF StandsBehind
<1>5. Review!CorrectionsAreReviewed BY DEF Review!CorrectionsAreReviewed
<1>6. PageIsPending BY DEF PageIsPending
<1> QED BY <1>1, <1>2, <1>3, <1>4, <1>5, <1>6 DEF ReviewInv

LEMMA GreatestNumber ==
  ASSUME NEW N \in SUBSET Nat, N # {}, NEW b \in Nat, \A n \in N : n <= b
  PROVE Review!Max(N) \in N /\ \A n \in N : Review!Max(N) >= n
<1> DEFINE M == {b - n : n \in N}
<1>1. M \in SUBSET Nat /\ M # {}
  <2>1. \A n \in N : b - n \in Nat OBVIOUS
  <2>2. PICK n \in N : TRUE OBVIOUS
  <2>3. b - n \in M BY <2>2
  <2> QED BY <2>1, <2>3
<1>2. PICK m \in M : \A k \in M : m <= k BY ONLY <1>1, LeastNumber
<1>3. PICK x \in N : m = b - x BY <1>2
<1>4. \A n \in N : x >= n
  <2> SUFFICES ASSUME NEW n \in N PROVE x >= n OBVIOUS
  <2>1. b - n \in M OBVIOUS
  <2>2. m <= b - n BY <1>2, <2>1
  <2> QED BY <1>3, <2>2
<1>5. \E y \in N : \A n \in N : y >= n BY <1>3, <1>4
<1> QED BY <1>5 DEF Review!Max

\* The superseded claims of a new commit come after every other, and keep the numbering.
LEMMA NewRootsAreLast ==
  ASSUME Review!TypeOK, RootsAreNumbered, NEW n \in 0..2, Cardinality(roots) + n <= MaxRoots
  PROVE LET fresh == Review!NewRoots(n)
            both == roots \cup fresh
        IN /\ both \in SUBSET Review!Claims
           /\ IsFiniteSet(both) /\ Cardinality(both) <= MaxRoots
           /\ \A r \in both : r[1] <= Cardinality(both) /\ r[2] <= Cardinality(both)
           /\ \A r \in fresh : r[1] > 0 /\ \A q \in roots : r[1] > q[1]
<1> DEFINE C == Cardinality(roots)
           A == {0} \cup {r[1] : r \in roots}
           B == {0} \cup {r[2] : r \in roots}
<1>1. roots \in SUBSET Review!Claims BY DEF Review!TypeOK
<1>2. \A r \in roots : r[1] \in 1..MaxRoots /\ r[2] \in 1..MaxRoots /\ r = <<r[1], r[2]>>
  BY <1>1 DEF Review!Claims
<1>3. IsFiniteSet(roots) /\ C \in Nat BY FS_CardinalityType DEF RootsAreNumbered
<1>4. \A r \in roots : r[1] <= C /\ r[2] <= C BY DEF RootsAreNumbered
<1> HIDE DEF C
<1>5. A \in SUBSET Nat /\ A # {} /\ \A x \in A : x <= C BY <1>2, <1>3, <1>4, ReviewNats
<1>6. B \in SUBSET Nat /\ B # {} /\ \A x \in B : x <= C BY <1>2, <1>3, <1>4, ReviewNats
<1> HIDE DEF A, B
<1>7. PICK s : s = Review!Max(A) OBVIOUS
<1>8. PICK d : d = Review!Max(B) OBVIOUS
<1>9. s \in 0..C /\ \A x \in A : s >= x
  <2>1. s \in A /\ \A x \in A : s >= x BY ONLY <1>3, <1>5, <1>7, GreatestNumber
  <2> QED BY <1>3, <1>5, <2>1
<1>10. d \in 0..C /\ \A x \in B : d >= x
  <2>1. d \in B /\ \A x \in B : d >= x BY ONLY <1>3, <1>6, <1>8, GreatestNumber
  <2> QED BY <1>3, <1>6, <2>1
<1>11. \A r \in roots : s >= r[1] /\ d >= r[2] BY <1>9, <1>10 DEF A, B
<1>12. Review!NewRoots(n) = {<<1 + s, d + i>> : i \in 1..n} BY <1>7, <1>8 DEF Review!NewRoots, A, B
<1>13. CASE n = 0
  <2>1. Review!NewRoots(n) = {} BY <1>12, <1>13
  <2>2. roots \cup Review!NewRoots(n) = roots BY <2>1
  <2>3. Cardinality(roots) <= MaxRoots BY DEF RootsAreNumbered
  <2> QED BY <1>1, <1>3, <1>4, <2>1, <2>2, <2>3 DEF C
<1>14. CASE n = 1
  <2>1. Review!NewRoots(n) = {<<1 + s, d + 1>>} BY <1>12, <1>14
  <2>2. <<1 + s, d + 1>> \notin roots BY <1>2, <1>10, <1>11
  <2>3. PICK T : T = roots \cup {<<1 + s, d + 1>>} OBVIOUS
  <2>4. IsFiniteSet(T) /\ Cardinality(T) = C + 1 BY <1>3, <2>2, <2>3, FS_AddElement DEF C
  <2>5. C + 1 <= MaxRoots BY <1>14 DEF C
  <2>6. T \in SUBSET Review!Claims
    BY <1>1, <1>3, <1>9, <1>10, <2>3, <2>5, ReviewNats DEF Review!Claims
  <2>7. \A r \in T : r[1] <= C + 1 /\ r[2] <= C + 1
    BY <1>2, <1>3, <1>4, <1>9, <1>10, <2>3, ReviewNats
  <2>8. \A r \in Review!NewRoots(n) : r[1] > 0 /\ \A q \in roots : r[1] > q[1]
    BY <1>2, <1>9, <1>11, <2>1
  <2> QED BY <2>1, <2>3, <2>4, <2>5, <2>6, <2>7, <2>8
<1>15. CASE n = 2
  <2>1. Review!NewRoots(n) = {<<1 + s, d + 1>>, <<1 + s, d + 2>>} BY <1>12, <1>15
  <2>2. <<1 + s, d + 1>> \notin roots /\ <<1 + s, d + 2>> \notin roots BY <1>2, <1>10, <1>11
  <2>3. PICK T : T = roots \cup {<<1 + s, d + 1>>} OBVIOUS
  <2>4. IsFiniteSet(T) /\ Cardinality(T) = C + 1 BY <1>3, <2>2, <2>3, FS_AddElement DEF C
  <2>5. <<1 + s, d + 2>> \notin T BY <1>10, <2>2, <2>3
  <2>6. PICK U : U = T \cup {<<1 + s, d + 2>>} OBVIOUS
  <2>7. IsFiniteSet(U) /\ Cardinality(U) = C + 2
    <3>1. IsFiniteSet(U) /\ Cardinality(U) = Cardinality(T) + 1 BY <2>4, <2>5, <2>6, FS_AddElement
    <3> QED BY <1>3, <2>4, <3>1
  <2>8. C + 2 <= MaxRoots BY <1>15 DEF C
  <2>9. U \in SUBSET Review!Claims
    BY <1>1, <1>3, <1>9, <1>10, <2>3, <2>6, <2>8, ReviewNats DEF Review!Claims
  <2>10. \A r \in U : r[1] <= C + 2 /\ r[2] <= C + 2
    BY <1>2, <1>3, <1>4, <1>9, <1>10, <2>3, <2>6, ReviewNats
  <2>11. \A r \in Review!NewRoots(n) : r[1] > 0 /\ \A q \in roots : r[1] > q[1]
    BY <1>2, <1>9, <1>11, <2>1
  <2>12. U = roots \cup Review!NewRoots(n) BY <2>1, <2>3, <2>6
  <2> QED BY <2>7, <2>8, <2>9, <2>10, <2>11, <2>12
<1>16. n = 0 \/ n = 1 \/ n = 2 OBVIOUS
<1> QED BY <1>13, <1>14, <1>15, <1>16

ReviewOrder == {p \in Review!Claims \X Review!Claims : Review!Earlier(p[1], p[2])}

LEMMA ReviewOrders ==
  ASSUME NEW S \in SUBSET Review!Claims PROVE Orders(ReviewOrder, S)
<1>1. \A x, y \in S : <<x, y>> \in ReviewOrder <=> Review!Earlier(x, y) BY DEF ReviewOrder
<1>2. \A x \in S : x[1] \in Nat /\ x[2] \in Nat BY ReviewNats DEF Review!Claims
<1>3. \A x, y \in S : x[1] = y[1] /\ x[2] = y[2] => x = y BY DEF Review!Claims
<1>4. \A x \in S : ~Review!Earlier(x, x) BY <1>2 DEF Review!Earlier
<1>5. \A x, y, z \in S : Review!Earlier(x, y) /\ Review!Earlier(y, z) => Review!Earlier(x, z)
  BY <1>2 DEF Review!Earlier
<1>6. \A x, y \in S : x = y \/ Review!Earlier(x, y) \/ Review!Earlier(y, x)
  BY <1>2, <1>3 DEF Review!Earlier
<1> QED BY <1>1, <1>4, <1>5, <1>6 DEF Orders

\* A scan offers what lies first after the cursor, and ends where nothing of the
\* rest is left behind.
LEMMA ScanIsFirst ==
  ASSUME ReviewInv
  PROVE LET s == Review!Scan
        IN /\ s.roots \in SUBSET roots
           /\ s.to \in ScanCursors /\ StandsBehind(s.to)
           /\ \A r \in roots \ (acked \cup gone) : r \in s.roots \/ Past(s.to, r)
<1> DEFINE found == {r \in roots \ gone : Review!After(r)}
           T == {r \in found : Review!Cardinality({q \in found : Review!Earlier(q, r)}) < ReviewBatch}
           top == CHOOSE r \in T : \A q \in T : q = r \/ Review!Earlier(q, r)
           end == IF T = {} THEN [seq |-> emCursor.seq, after |-> 0]
                  ELSE [seq |-> top[1], after |-> IF Review!Cardinality(T) = ReviewBatch THEN top[2] ELSE 0]
<1>0. \A S : Review!Cardinality(S) = Cardinality(S) BY DEF Review!Cardinality, Cardinality
<1>1. Review!Scan = [roots |-> T, to |-> end] BY DEF Review!Scan
<1>2. roots \in SUBSET Review!Claims /\ IsFiniteSet(roots) /\ emCursor \in ScanCursors
  BY DEF ReviewInv, Review!TypeOK, RootsAreNumbered, ScanCursors
<1>3. \A r \in roots \ (acked \cup gone) : r \in found
  BY DEF ReviewInv, Review!CorrectionsAreReviewed
<1>4. found \in SUBSET roots OBVIOUS
<1> HIDE DEF found
<1>5. found \in SUBSET Review!Claims /\ IsFiniteSet(found) BY <1>2, <1>4, FS_Subset
<1>6. T = FirstOf(ReviewOrder, found, ReviewBatch)
  <2>1. ASSUME NEW x \in found
        PROVE {q \in found : Review!Earlier(q, x)} = Preceding(ReviewOrder, found, x)
    BY <1>5, <2>1 DEF Preceding, ReviewOrder
  <2> QED BY <1>0, <2>1 DEF FirstOf
<1>7. Orders(ReviewOrder, found) BY <1>5, ReviewOrders
<1>8. T \in SUBSET found OBVIOUS
<1> HIDE DEF T
<1>9. /\ IsFiniteSet(T)
      /\ \A r \in found \ T, t \in T : <<t, r>> \in ReviewOrder
      /\ T = {} => found = {}
      /\ Cardinality(T) # ReviewBatch => T = found
  BY <1>5, <1>6, <1>7, PageIsFirst, ReviewNats
<1>10. CASE T = {}
  <2>1. end = [seq |-> emCursor.seq, after |-> 0] BY <1>10
  <2> HIDE DEF end
  <2>2. end \in ScanCursors BY <1>2, <2>1, ReviewNats DEF ScanCursors
  <2>3. StandsBehind(end) BY <2>1 DEF ReviewInv, StandsBehind
  <2> QED BY <1>1, <1>3, <1>9, <1>10, <2>2, <2>3
<1>11. CASE T # {}
  <2>1. top \in T /\ \A q \in T : q = top \/ Review!Earlier(q, top)
    <3>1. Orders(ReviewOrder, T) BY <1>7, <1>8, SubsetOrders
    <3>2. \E m \in T : \A r \in T : r = m \/ <<r, m>> \in ReviewOrder
      BY <1>9, <1>11, <3>1, LastExists
    <3>3. \E m \in T : \A r \in T : r = m \/ Review!Earlier(r, m) BY <3>2 DEF ReviewOrder
    <3> QED BY <3>3
  <2>2. top \in roots /\ top \in Review!Claims BY <1>4, <1>5, <1>8, <2>1
  <2> HIDE DEF top
  <2>3. end = [seq |-> top[1], after |-> IF Cardinality(T) = ReviewBatch THEN top[2] ELSE 0] BY <1>0, <1>11
  <2> HIDE DEF end
  <2>4. end \in ScanCursors BY <2>2, <2>3, ReviewNats DEF ScanCursors, Review!Claims
  <2>5. StandsBehind(end) BY <2>2, <2>3, ReviewNats DEF StandsBehind, Review!Claims
  <2>6. ASSUME NEW r \in found, r \notin T PROVE Past(end, r)
    <3>1. Review!Earlier(top, r) BY <1>9, <2>1, <2>6 DEF ReviewOrder
    <3>2. end = [seq |-> top[1], after |-> top[2]] BY <1>9, <2>3, <2>6
    <3>3. top[2] # 0 /\ top[1] \in Nat /\ top[2] \in Nat BY <2>2, ReviewNats DEF Review!Claims
    <3>4. r[1] \in Nat /\ r[2] \in Nat BY <1>5, ReviewNats DEF Review!Claims
    <3> QED BY <3>1, <3>2, <3>3, <3>4 DEF Review!Earlier, Past
  <2> QED BY <1>1, <1>3, <1>4, <1>8, <2>4, <2>5, <2>6
<1> QED BY <1>10, <1>11

\* New claims lie after every cursor.
LEMMA NewClaims ==
  ASSUME ReviewInv, NEW n \in 0..2, Cardinality(roots) + n <= MaxRoots,
         roots' = roots \cup Review!NewRoots(n)
  PROVE /\ roots' \in SUBSET Review!Claims /\ roots \in SUBSET roots' /\ RootsAreNumbered'
        /\ \A c \in ScanCursors : StandsBehind(c) => StandsBehind(c)' /\ \A r \in roots' \ roots : Past(c, r)
<1> DEFINE fresh == Review!NewRoots(n)
<1>1. /\ roots' \in SUBSET Review!Claims /\ RootsAreNumbered'
      /\ \A r \in fresh : r[1] > 0 /\ \A q \in roots : r[1] > q[1]
  BY NewRootsAreLast DEF ReviewInv, RootsAreNumbered
<1>2. ASSUME NEW c \in ScanCursors, StandsBehind(c) PROVE StandsBehind(c)' /\ \A r \in roots' \ roots : Past(c, r)
  <2>1. StandsBehind(c)' BY <1>2 DEF StandsBehind
  <2>2. ASSUME NEW r \in roots' \ roots PROVE Past(c, r)
    <3>1. r[1] > 0 /\ \A q \in roots : r[1] > q[1] BY <1>1, <2>2
    <3>2. c.seq \in Nat /\ r[1] \in Nat /\ \A q \in roots : q[1] \in Nat
      BY <1>1, <1>2, <2>2, ReviewNats DEF ScanCursors, Review!Claims
    <3> QED BY <1>2, <3>1, <3>2 DEF StandsBehind, Past
  <2> QED BY <2>1, <2>2
<1> QED BY <1>1, <1>2

\* A step that adds claims and may take the page away, leaving the cursor.
LEMMA ReviewGrows ==
  ASSUME ReviewInv, NEW n \in 0..2, Cardinality(roots) + n <= MaxRoots,
         roots' = roots \cup Review!NewRoots(n),
         UNCHANGED <<gone, emCursor, acked, run, work>>,
         epoch' = epoch, blocked' \in BOOLEAN,
         page' = page \/ page' = Nothing
  PROVE ReviewInv'
<1>1. /\ roots' \in SUBSET Review!Claims /\ roots \in SUBSET roots' /\ RootsAreNumbered'
      /\ \A c \in ScanCursors : StandsBehind(c) => StandsBehind(c)' /\ \A r \in roots' \ roots : Past(c, r)
  BY NewClaims
<1>2. emCursor \in ScanCursors /\ StandsBehind(emCursor)
  BY DEF ReviewInv, Review!TypeOK, ScanCursors
<1>3. Review!TypeOK' BY <1>1 DEF ReviewInv, Review!TypeOK
<1>4. StandsBehind(emCursor)' BY <1>1, <1>2 DEF StandsBehind
<1>5. Review!CorrectionsAreReviewed'
  BY <1>1, <1>2, AfterIsPast DEF ReviewInv, Review!CorrectionsAreReviewed, Review!After, Past
<1>6. PageIsPending'
  BY <1>1 DEF ReviewInv, PageIsPending, StandsBehind
<1>7. ReviewTypes' BY DEF ReviewInv, ReviewTypes
<1> QED BY <1>1, <1>3, <1>4, <1>5, <1>6, <1>7 DEF ReviewInv

LEMMA ReviewSupersede ==
  ASSUME ReviewInv, NEW n \in 1..2, Review!Supersede(n) PROVE ReviewInv'
<1>0. \A S : Review!Cardinality(S) = Cardinality(S) BY DEF Review!Cardinality, Cardinality
<1>1. /\ roots' = roots \cup Review!NewRoots(n) /\ Cardinality(roots) + n <= MaxRoots
      /\ UNCHANGED <<epoch, blocked, gone, emCursor, page, acked, run, work>>
  BY <1>0 DEF Review!Supersede, Review!fence
<1>2. n \in 0..2 OBVIOUS
<1>3. blocked' \in BOOLEAN BY <1>1 DEF ReviewInv, Review!TypeOK
<1> QED BY <1>1, <1>2, <1>3, ReviewGrows

LEMMA ReviewUnfence ==
  ASSUME ReviewInv, NEW n \in 0..1, Review!Unfence(n) PROVE ReviewInv'
<1>0. \A S : Review!Cardinality(S) = Cardinality(S) BY DEF Review!Cardinality, Cardinality
<1>1. /\ roots' = roots \cup Review!NewRoots(n) /\ Cardinality(roots) + n <= MaxRoots
      /\ blocked' = FALSE /\ page' = Nothing
      /\ UNCHANGED <<epoch, gone, emCursor, acked, run, work>>
  BY <1>0 DEF Review!Unfence, Review!fence
<1>2. n \in 0..2 OBVIOUS
<1>3. blocked' \in BOOLEAN BY <1>1
<1> QED BY <1>1, <1>2, <1>3, ReviewGrows

\* An erasure drops the page, which the cursor has not passed.
LEMMA ReviewErase ==
  ASSUME ReviewInv, NEW dead \in SUBSET (roots \ gone), Review!Erase(dead) PROVE ReviewInv'
<1> USE DEF Review!Erase
<1>0. epoch \in 0..MaxReviewEpoch BY DEF ReviewInv, Review!TypeOK
<1>1. Review!TypeOK'
  <2>1. epoch' \in 0..MaxReviewEpoch /\ 0..epoch \subseteq 0..epoch' BY <1>0, ReviewNats
  <2> QED BY <2>1 DEF ReviewInv, Review!TypeOK
<1>2. RootsAreNumbered' /\ StandsBehind(emCursor)' BY DEF ReviewInv, RootsAreNumbered, StandsBehind
<1>3. Review!CorrectionsAreReviewed' BY DEF ReviewInv, Review!CorrectionsAreReviewed, Review!After
<1>4. PageIsPending' BY DEF PageIsPending
<1>5. ReviewTypes' BY DEF ReviewInv, ReviewTypes
<1> QED BY <1>1, <1>2, <1>3, <1>4, <1>5 DEF ReviewInv

LEMMA ReviewFence ==
  ASSUME ReviewInv, Review!Fence PROVE ReviewInv'
<1> USE DEF Review!Fence
<1>0. epoch \in 0..MaxReviewEpoch BY DEF ReviewInv, Review!TypeOK
<1>1. Review!TypeOK'
  <2>1. epoch' \in 0..MaxReviewEpoch /\ 0..epoch \subseteq 0..epoch' BY <1>0, ReviewNats
  <2> QED BY <2>1 DEF ReviewInv, Review!TypeOK
<1>2. RootsAreNumbered' /\ StandsBehind(emCursor)' BY DEF ReviewInv, RootsAreNumbered, StandsBehind
<1>3. Review!CorrectionsAreReviewed' BY DEF ReviewInv, Review!CorrectionsAreReviewed, Review!After
<1>4. PageIsPending' BY DEF ReviewInv, PageIsPending, StandsBehind
<1>5. ReviewTypes' BY DEF ReviewInv, ReviewTypes
<1> QED BY <1>1, <1>2, <1>3, <1>4, <1>5 DEF ReviewInv

\* A step of the runs alone.
LEMMA ReviewRuns ==
  ASSUME ReviewInv, UNCHANGED <<epoch, blocked, roots, gone, emCursor, page, acked>>,
         run' # Nothing => run'.epoch \in 0..epoch /\ run' \in [by : Workers, epoch : Nat, live : BOOLEAN],
         work' \in [Workers -> ReviewPasses],
         \A w \in Workers : work'[w].seen \subseteq roots
  PROVE ReviewInv'
<1>1. Review!TypeOK' BY DEF ReviewInv, Review!TypeOK, ReviewPasses
<1>2. RootsAreNumbered' /\ StandsBehind(emCursor)' BY DEF ReviewInv, RootsAreNumbered, StandsBehind
<1>3. Review!CorrectionsAreReviewed' BY DEF ReviewInv, Review!CorrectionsAreReviewed, Review!After
<1>4. PageIsPending' BY DEF ReviewInv, PageIsPending, StandsBehind
<1> QED BY <1>1, <1>2, <1>3, <1>4 DEF ReviewInv, ReviewTypes

LEMMA WorkMoves ==
  ASSUME ReviewInv, NEW w \in Workers, NEW p \in {"none", "closing"},
         work' = [work EXCEPT ![w].at = p]
  PROVE work' \in [Workers -> ReviewPasses] /\ \A v \in Workers : work'[v].seen = work[v].seen
BY DEF ReviewInv, ReviewTypes, ReviewPasses

LEMMA ReviewOthers ==
  ASSUME ReviewInv,
         \/ Review!Expire
         \/ \E w \in Workers : Review!Refused(w) \/ Review!CloseRun(w) \/ Review!Crash(w)
  PROVE ReviewInv'
<1>0. /\ run # Nothing => run.epoch \in 0..epoch
      /\ run # Nothing => run \in [by : Workers, epoch : Nat, live : BOOLEAN]
      /\ work \in [Workers -> ReviewPasses] /\ \A w \in Workers : work[w].seen \subseteq roots
  BY DEF ReviewInv, ReviewTypes, Review!TypeOK
<1>1. CASE Review!Expire
  <2>1. run # Nothing /\ run' = [run EXCEPT !.live = FALSE] BY <1>1 DEF Review!Expire
  <2>2. run'.epoch = run.epoch /\ run' \in [by : Workers, epoch : Nat, live : BOOLEAN] BY <1>0, <2>1
  <2> QED BY <1>0, <1>1, <2>1, <2>2, ReviewRuns DEF Review!Expire, Review!fence
<1>2. ASSUME NEW w \in Workers, Review!Refused(w) \/ Review!CloseRun(w) \/ Review!Crash(w)
      PROVE ReviewInv'
  <2>1. PICK p \in {"none", "closing"} : work' = [work EXCEPT ![w].at = p]
    BY <1>2 DEF Review!Refused, Review!CloseRun, Review!Crash
  <2>2. /\ run' = run \/ run' = Nothing
        /\ UNCHANGED <<epoch, blocked, roots, gone, emCursor, page, acked>>
    BY <1>2 DEF Review!Refused, Review!CloseRun, Review!Crash, Review!fence
  <2>3. work' \in [Workers -> ReviewPasses] /\ \A v \in Workers : work'[v].seen = work[v].seen
    BY <2>1, WorkMoves
  <2> QED BY <1>0, <2>2, <2>3, ReviewRuns
<1> QED BY <1>1, <1>2

\* What a page and the cursor owe, for a set of reviewed claims.
OwedBy(p, c, done) ==
  /\ c \in ScanCursors /\ StandsBehind(c)
  /\ \A r \in roots \ (done \cup gone) : Past(c, r)
  /\ p # Nothing =>
       /\ p \in [roots : SUBSET Review!Claims, to : ScanCursors] /\ StandsBehind(p.to)
       /\ p.roots \subseteq roots /\ p.roots # {}
       /\ \A r \in roots \ (done \cup gone) : r \in p.roots \/ Past(p.to, r)

LEMMA ReviewOwes == ReviewInv => OwedBy(page, emCursor, acked)
BY AfterIsPast DEF ReviewInv, Review!TypeOK, Review!CorrectionsAreReviewed, ScanCursors, PageIsPending, OwedBy

\* An acknowledgement: the cursor passes a page only when nothing of it remains.
LEMMA PageAcknowledged ==
  ASSUME ReviewInv, NEW ids \in SUBSET roots, Review!Acknowledge(ids)
  PROVE OwedBy(page', emCursor', acked \cup ids)
<1>0. OwedBy(page, emCursor, acked) BY ReviewOwes
<1>1. CASE page = Nothing
  <2>1. page' = Nothing /\ emCursor' = emCursor BY <1>1 DEF Review!Acknowledge
  <2> QED BY <1>0, <2>1 DEF OwedBy
<1>2. CASE page # Nothing /\ page.roots \ ids # {}
  <2>1. page' = [page EXCEPT !.roots = @ \ ids] /\ emCursor' = emCursor BY <1>2 DEF Review!Acknowledge
  <2>2. page' \in [roots : SUBSET Review!Claims, to : ScanCursors] /\ page'.to = page.to
        /\ page'.roots = page.roots \ ids
    BY <1>0, <1>2, <2>1 DEF OwedBy
  <2> QED BY <1>0, <1>2, <2>1, <2>2 DEF OwedBy
<1>3. CASE page # Nothing /\ page.roots \ ids = {}
  <2>1. page' = Nothing /\ emCursor' = page.to BY <1>3 DEF Review!Acknowledge
  <2> QED BY <1>0, <1>3, <2>1 DEF OwedBy
<1> QED BY <1>1, <1>2, <1>3

\* A step of a run that may supersede, acknowledge or open a page.
LEMMA ReviewMoves ==
  ASSUME ReviewInv, NEW n \in 0..2, Cardinality(roots) + n <= MaxRoots,
         roots' = roots \cup Review!NewRoots(n),
         UNCHANGED <<epoch, blocked, gone>>,
         acked' \subseteq roots, OwedBy(page', emCursor', acked'),
         run' # Nothing => run'.epoch \in 0..epoch /\ run' \in [by : Workers, epoch : Nat, live : BOOLEAN],
         work' \in [Workers -> ReviewPasses],
         \A w \in Workers : work'[w].seen \subseteq roots
  PROVE ReviewInv'
<1>1. /\ roots' \in SUBSET Review!Claims /\ roots \in SUBSET roots' /\ RootsAreNumbered'
      /\ \A c \in ScanCursors : StandsBehind(c) => StandsBehind(c)' /\ \A r \in roots' \ roots : Past(c, r)
  BY NewClaims
<1>2. gone \subseteq roots BY DEF ReviewInv, Review!TypeOK
<1>3. Review!TypeOK'
  <2>1. \A w \in Workers : work'[w].at \in {"none", "planning", "closing"} BY DEF ReviewPasses
  <2>2. emCursor' \in [seq : 0..MaxRoots, after : 0..MaxRoots] BY DEF OwedBy, ScanCursors
  <2>3. page' # Nothing => page'.roots \subseteq roots' /\ page'.roots # {} BY <1>1 DEF OwedBy
  <2> QED BY <1>1, <1>2, <2>1, <2>2, <2>3 DEF ReviewInv, Review!TypeOK
<1>4. ReviewTypes' BY DEF ReviewTypes
<1>5. StandsBehind(emCursor)' BY <1>1 DEF OwedBy, StandsBehind
<1>6. \A r \in roots' \ (acked' \cup gone) : Past(emCursor', r) BY <1>1 DEF OwedBy
<1>7. Review!CorrectionsAreReviewed' BY <1>6 DEF Review!CorrectionsAreReviewed, Review!After, Past
<1>8. PageIsPending'
  <2> SUFFICES ASSUME page' # Nothing
               PROVE /\ page' \in [roots : SUBSET Review!Claims, to : ScanCursors] /\ StandsBehind(page.to)'
                     /\ \A r \in roots' \ (acked' \cup gone) : r \in page'.roots \/ Past(page'.to, r)
    BY DEF PageIsPending
  <2>1. page'.to \in ScanCursors /\ StandsBehind(page'.to) BY DEF OwedBy
  <2>2. StandsBehind(page.to)' BY <1>1, <2>1 DEF StandsBehind
  <2> QED BY <1>1, <2>1, <2>2 DEF OwedBy
<1> QED BY <1>1, <1>3, <1>4, <1>5, <1>7, <1>8 DEF ReviewInv

LEMMA ReviewPlan ==
  ASSUME ReviewInv, NEW w \in Workers, Review!Plan(w) PROVE ReviewInv'
<1>0. \A S : Review!Cardinality(S) = Cardinality(S) BY DEF Review!Cardinality, Cardinality
<1>1. /\ run # Nothing => run.epoch \in 0..epoch /\ run \in [by : Workers, epoch : Nat, live : BOOLEAN]
      /\ work \in [Workers -> ReviewPasses] /\ \A v \in Workers : work[v].seen \subseteq roots
      /\ acked \subseteq roots
  BY DEF ReviewInv, ReviewTypes, Review!TypeOK
<1>2. PICK ids \in SUBSET work[w].seen, n \in 0..2 :
        /\ Cardinality(roots) + n <= MaxRoots
        /\ roots' = roots \cup Review!NewRoots(n)
        /\ \/ Review!Acknowledge(ids) /\ acked' = acked \cup ids
           \/ UNCHANGED <<page, emCursor, acked>>
  BY <1>0 DEF Review!Plan
<1>3. /\ work' = [work EXCEPT ![w].at = "closing"]
      /\ UNCHANGED <<epoch, blocked, gone, run>>
  BY DEF Review!Plan, Review!fence
<1>4. work' \in [Workers -> ReviewPasses] /\ \A v \in Workers : work'[v].seen = work[v].seen
  BY <1>3, WorkMoves
<1>5. ids \in SUBSET roots BY <1>1, <1>2
<1>6. acked' \subseteq roots /\ OwedBy(page', emCursor', acked')
  BY <1>1, <1>2, <1>5, PageAcknowledged, ReviewOwes
<1> QED BY <1>1, <1>2, <1>3, <1>4, <1>6, ReviewMoves

\* A run is opened with the pending page, or with the next one of the scan.
LEMMA ReviewOpen ==
  ASSUME ReviewInv, NEW w \in Workers, Review!OpenRun(w) PROVE ReviewInv'
<1>0. /\ work \in [Workers -> ReviewPasses] /\ \A v \in Workers : work[v].seen \subseteq roots
      /\ acked \subseteq roots /\ epoch \in 0..MaxReviewEpoch /\ roots \in SUBSET Review!Claims
  BY DEF ReviewInv, ReviewTypes, Review!TypeOK
<1>1. OwedBy(page, emCursor, acked) BY ReviewOwes
<1>2. PICK s : s = (IF page # Nothing THEN page ELSE Review!Scan) OBVIOUS
<1>3. PICK seen \in {s.roots, {}} :
        /\ work' = [work EXCEPT ![w] = [at |-> "planning", epoch |-> epoch, seen |-> seen]]
        /\ \/ /\ page' = (IF s.roots # {} THEN s ELSE Nothing)
              /\ emCursor' = (IF s.roots = {} THEN s.to ELSE emCursor)
           \/ UNCHANGED <<page, emCursor>>
  BY <1>2 DEF Review!OpenRun
<1>4. /\ run' = [by |-> w, epoch |-> epoch, live |-> TRUE]
      /\ UNCHANGED <<epoch, blocked, roots, gone, acked>>
  BY DEF Review!OpenRun, Review!fence
<1>5. /\ s.roots \in SUBSET roots
      /\ s.to \in ScanCursors /\ StandsBehind(s.to)
      /\ \A r \in roots \ (acked \cup gone) : r \in s.roots \/ Past(s.to, r)
  <2>1. CASE page # Nothing BY <1>1, <1>2, <2>1 DEF OwedBy
  <2>2. CASE page = Nothing BY <1>2, <2>2, ScanIsFirst
  <2> QED BY <2>1, <2>2
<1>6. s.roots # {} => s \in [roots : SUBSET Review!Claims, to : ScanCursors]
  <2>1. CASE page # Nothing BY <1>1, <1>2, <2>1 DEF OwedBy
  <2>2. CASE page = Nothing
    <3>1. s = [roots |-> s.roots, to |-> s.to] BY <1>2, <2>2 DEF Review!Scan
    <3> QED BY <1>0, <1>5, <3>1
  <2> QED BY <2>1, <2>2
<1>7. OwedBy(page', emCursor', acked)
  <2>1. CASE UNCHANGED <<page, emCursor>> BY <1>1, <2>1
  <2>2. CASE s.roots # {} /\ page' = s /\ emCursor' = emCursor BY <1>1, <1>5, <1>6, <2>2 DEF OwedBy
  <2>3. CASE s.roots = {} /\ page' = Nothing /\ emCursor' = s.to BY <1>5, <2>3 DEF OwedBy
  <2> QED BY <1>3, <2>1, <2>2, <2>3
<1>8. /\ run'.epoch \in 0..epoch /\ run' \in [by : Workers, epoch : Nat, live : BOOLEAN]
  BY <1>0, <1>4, ReviewNats
<1>9. /\ work' \in [Workers -> ReviewPasses]
      /\ \A v \in Workers : work'[v].seen \subseteq roots
  <2>1. seen \in SUBSET roots BY <1>3, <1>5
  <2>2. [at |-> "planning", epoch |-> epoch, seen |-> seen] \in ReviewPasses
    BY <1>0, <2>1, ReviewNats DEF ReviewPasses
  <2> QED BY <1>0, <1>3, <2>1, <2>2
<1>10. roots' = roots \cup Review!NewRoots(0) /\ Cardinality(roots) + 0 <= MaxRoots
  <2>1. Review!NewRoots(0) = {} BY DEF Review!NewRoots
  <2>2. Cardinality(roots) \in Nat /\ Cardinality(roots) <= MaxRoots
    BY FS_CardinalityType DEF ReviewInv, RootsAreNumbered
  <2> QED BY <1>4, <2>1, <2>2
<1> QED BY <1>0, <1>4, <1>7, <1>8, <1>9, <1>10, ReviewMoves

LEMMA ReviewStep ==
  ASSUME ReviewInv, [Review!Next]_reviewVars PROVE ReviewInv'
<1>1. CASE UNCHANGED reviewVars
  BY <1>1 DEF reviewVars, ReviewInv, Review!TypeOK, ReviewTypes, RootsAreNumbered, StandsBehind,
     Review!CorrectionsAreReviewed, Review!After, PageIsPending
<1>2. CASE Review!Next
  BY <1>2, ReviewSupersede, ReviewErase, ReviewFence, ReviewUnfence, ReviewOthers, ReviewOpen, ReviewPlan
  DEF Review!Next
<1> QED BY <1>1, <1>2

(***************************************************************************)
(* The bootstrap and the statements of the runtime API.                    *)
(***************************************************************************)
Bootings == [at : {"read", "begin", "grant", "adopt"}, p : Provisions, left : SUBSET Provisions]
Runtimes == Bootings \cup {[at |-> "down"], [at |-> "up"]}
ApiCalls == [at : {"save", "commit", "record", "answer"}, key : Statements, text : Texts]
ApiRows == [text : Texts \union {"none"}, done : BOOLEAN]

\* A grant is created under a marker that was begun for it: one that has no
\* marker was not created, and the marker of the provision at hand is the
\* runtime's own.
GrantsAreMarked ==
  /\ \A p \in Provisions : made[p] \in {0, 1} /\ (marker[p] = "none" => made[p] = 0)
  /\ runtime.at = "begin" => marker[runtime.p] = "none"
  /\ runtime.at = "grant" => made[runtime.p] = 0 /\ marker[runtime.p] = "begun"

\* Evidence is under the one native key of its statement and says what the
\* stored row says.
EvidenceIsBound ==
  /\ \A e \in apiEvidence : e[1] = <<e[1][1], 0>> /\ apiRow[e[1][1]].text = e[2]
  /\ \A k \in Statements : apiRow[k].done => <<<<k, 0>>, apiRow[k].text>> \in apiEvidence

\* The statement at the gate says what the stored row says, once it is stored,
\* and is committed once it is to be recorded.
CallIsBound ==
  apiCall # Api!NoCall =>
    /\ apiCall.at = "save" => apiRow[apiCall.key] = Api!NoRow \/ apiRow[apiCall.key].text = apiCall.text
    /\ apiCall.at # "save" => apiRow[apiCall.key].text = apiCall.text
    /\ apiCall.at \in {"record", "answer"} => <<<<apiCall.key, 0>>, apiCall.text>> \in apiEvidence

AnswersAreStated == \A a \in answers : <<<<a[1], 0>>, a[2]>> \in apiEvidence

ApiInv ==
  /\ Api!TypeOK /\ runtime \in Runtimes /\ apiCall \in ApiCalls \cup {Api!NoCall}
  /\ GrantsAreMarked /\ EvidenceIsBound /\ CallIsBound /\ AnswersAreStated

LEMMA ApiFacts == "none" \notin Texts /\ MaxGrants \in Nat /\ MaxTries \in Nat
BY ApiAssumption DEF ApiAssumption

LEMMA ApiInit == Api!Init => ApiInv
<1> SUFFICES ASSUME Api!Init PROVE ApiInv OBVIOUS
<1> USE ApiFacts DEF Api!Init, Api!NoRow, Api!NoCall
<1>1. Api!TypeOK BY DEF Api!TypeOK
<1>2. runtime \in Runtimes /\ apiCall \in ApiCalls \cup {Api!NoCall} BY DEF Runtimes
<1>3. GrantsAreMarked BY DEF GrantsAreMarked
<1>4. EvidenceIsBound BY DEF EvidenceIsBound
<1>5. CallIsBound BY DEF CallIsBound
<1>6. AnswersAreStated BY DEF AnswersAreStated
<1> QED BY <1>1, <1>2, <1>3, <1>4, <1>5, <1>6 DEF ApiInv

LEMMA AdvanceIsRuntime ==
  ASSUME NEW left \in SUBSET Provisions
  PROVE Api!Advance(left) \in Runtimes /\ Api!Advance(left).at \in {"read", "up"}
<1>1. CASE left = {} BY <1>1 DEF Api!Advance, Runtimes
<1>2. CASE left # {}
  <2>1. PICK q : q = CHOOSE p \in left : TRUE OBVIOUS
  <2>2. q \in left BY <1>2, <2>1
  <2>3. Api!Advance(left) = [at |-> "read", p |-> q, left |-> left] BY <1>2, <2>1 DEF Api!Advance
  <2> QED BY <2>2, <2>3 DEF Runtimes, Bootings
<1> QED BY <1>1, <1>2

\* A step of the runtime alone, into a place that needs no marker.
LEMMA ApiRuntimeMoves ==
  ASSUME ApiInv, runtime' \in Runtimes, runtime'.at \notin {"begin", "grant"},
         UNCHANGED <<marker, granted, made, edits, apiRow, apiEvidence, tries, answers>>,
         apiCall' = apiCall \/ apiCall' = Api!NoCall
  PROVE ApiInv'
<1>1. Api!TypeOK'
  <2>1. runtime'.at \in {"down", "read", "begin", "grant", "adopt", "up"} BY DEF Runtimes, Bootings
  <2>2. apiCall'.at \in {"none", "save", "commit", "record", "answer"}
    BY DEF ApiInv, Api!TypeOK, Api!NoCall
  <2> QED BY <2>1, <2>2 DEF ApiInv, Api!TypeOK
<1>2. GrantsAreMarked' BY DEF ApiInv, GrantsAreMarked
<1>3. EvidenceIsBound' BY DEF ApiInv, EvidenceIsBound
<1>4. CallIsBound' BY DEF ApiInv, CallIsBound
<1>5. AnswersAreStated' BY DEF ApiInv, AnswersAreStated
<1> QED BY <1>1, <1>2, <1>3, <1>4, <1>5 DEF ApiInv

LEMMA ApiConnect ==
  ASSUME ApiInv, Api!Connect PROVE ApiInv'
BY AdvanceIsRuntime, ApiRuntimeMoves DEF Api!Connect, Api!boot, Api!statements

LEMMA ApiCrash ==
  ASSUME ApiInv, Api!Crash PROVE ApiInv'
<1>1. runtime' \in Runtimes /\ runtime'.at = "down" BY DEF Api!Crash, Runtimes
<1> QED BY <1>1, ApiRuntimeMoves DEF Api!Crash, Api!boot

LEMMA Booting ==
  ASSUME ApiInv, runtime.at \in {"read", "begin", "grant", "adopt"}
  PROVE /\ runtime \in Bootings /\ runtime.p \in Provisions /\ runtime.left \in SUBSET Provisions
        /\ \A x \in {"read", "begin", "grant", "adopt"} :
             /\ [runtime EXCEPT !.at = x] \in Bootings
             /\ [runtime EXCEPT !.at = x].at = x /\ [runtime EXCEPT !.at = x].p = runtime.p
BY DEF ApiInv, Runtimes, Bootings

LEMMA ApiReadMarker ==
  ASSUME ApiInv, Api!ReadMarker PROVE ApiInv'
<1> USE DEF Api!ReadMarker, Api!boot, Api!statements
<1>1. runtime.p \in Provisions /\ runtime.left \in SUBSET Provisions BY Booting
<1>2. marker[runtime.p] \in {"none", "begun", "complete"} BY <1>1 DEF ApiInv, Api!TypeOK
<1>3. CASE marker[runtime.p] = "complete"
  <2>1. runtime' = Api!Advance(runtime.left \ {runtime.p}) BY <1>3
  <2> QED BY <1>1, <2>1, AdvanceIsRuntime, ApiRuntimeMoves
<1>4. CASE marker[runtime.p] # "complete" /\ runtime.p \in granted
  <2>1. runtime' = [runtime EXCEPT !.at = "adopt"] BY <1>4
  <2>2. runtime' \in Runtimes /\ runtime'.at = "adopt" BY <2>1, Booting DEF Runtimes
  <2> QED BY <2>2, ApiRuntimeMoves
<1>5. CASE marker[runtime.p] = "begun" /\ runtime.p \notin granted
  <2>1. runtime' = [at |-> "down"] BY <1>5
  <2>2. runtime' \in Runtimes /\ runtime'.at = "down" BY <2>1 DEF Runtimes
  <2> QED BY <2>2, ApiRuntimeMoves
<1>6. CASE marker[runtime.p] = "none" /\ runtime.p \notin granted
  <2>1. runtime' = [runtime EXCEPT !.at = "begin"] BY <1>6
  <2>2. runtime' \in Runtimes /\ runtime'.at = "begin" /\ runtime'.p = runtime.p BY <2>1, Booting DEF Runtimes
  <2>3. Api!TypeOK' BY <2>2 DEF ApiInv, Api!TypeOK
  <2>4. GrantsAreMarked' BY <1>6, <2>2 DEF ApiInv, GrantsAreMarked
  <2>5. EvidenceIsBound' /\ CallIsBound' /\ AnswersAreStated'
    BY DEF ApiInv, EvidenceIsBound, CallIsBound, AnswersAreStated
  <2> QED BY <2>2, <2>3, <2>4, <2>5 DEF ApiInv
<1> QED BY <1>2, <1>3, <1>4, <1>5, <1>6

LEMMA ApiBegin ==
  ASSUME ApiInv, Api!Begin PROVE ApiInv'
<1> USE DEF Api!Begin, Api!SaveMarker, Api!statements
<1>1. PICK p \in Provisions : p = runtime.p BY Booting
<1>2. runtime' \in Runtimes /\ runtime'.at = "grant" /\ runtime'.p = p BY <1>1, Booting DEF Runtimes
<1>3. marker' = [marker EXCEPT ![p] = "begun"] /\ marker \in [Provisions -> {"none", "begun", "complete"}]
  BY <1>1 DEF ApiInv, Api!TypeOK
<1>4. Api!TypeOK' BY <1>2, <1>3 DEF ApiInv, Api!TypeOK
<1>5. GrantsAreMarked'
  <2>1. made[p] = 0 BY <1>1 DEF ApiInv, GrantsAreMarked
  <2> QED BY <1>2, <1>3, <2>1 DEF ApiInv, GrantsAreMarked
<1>6. EvidenceIsBound' /\ CallIsBound' /\ AnswersAreStated'
  BY DEF ApiInv, EvidenceIsBound, CallIsBound, AnswersAreStated
<1> QED BY <1>2, <1>4, <1>5, <1>6 DEF ApiInv

LEMMA ApiAdopt ==
  ASSUME ApiInv, Api!Adopt PROVE ApiInv'
<1> USE DEF Api!Adopt, Api!SaveMarker, Api!statements
<1>1. PICK p \in Provisions : p = runtime.p BY Booting
<1>2. runtime' \in Runtimes /\ runtime'.at \in {"read", "up"} BY Booting, AdvanceIsRuntime
<1>3. marker' = [marker EXCEPT ![p] = "complete"] /\ marker \in [Provisions -> {"none", "begun", "complete"}]
  BY <1>1 DEF ApiInv, Api!TypeOK
<1>4. Api!TypeOK' BY <1>2, <1>3 DEF ApiInv, Api!TypeOK
<1>5. GrantsAreMarked' BY <1>2, <1>3 DEF ApiInv, GrantsAreMarked
<1>6. EvidenceIsBound' /\ CallIsBound' /\ AnswersAreStated'
  BY DEF ApiInv, EvidenceIsBound, CallIsBound, AnswersAreStated
<1> QED BY <1>2, <1>4, <1>5, <1>6 DEF ApiInv

LEMMA ApiGrant ==
  ASSUME ApiInv, Api!CreateGrant PROVE ApiInv'
<1> USE DEF Api!CreateGrant, Api!statements
<1>1. PICK p \in Provisions : p = runtime.p BY Booting
<1>2. runtime' \in Runtimes /\ runtime'.at = "adopt" BY Booting DEF Runtimes
<1>3. made[p] = 0 /\ marker[p] = "begun" BY <1>1 DEF ApiInv, GrantsAreMarked
<1>4. made' = [made EXCEPT ![p] = 1] /\ granted' = granted \union {p} BY <1>1, <1>3
<1>5. Api!TypeOK' BY <1>2, <1>4 DEF ApiInv, Api!TypeOK
<1>6. GrantsAreMarked' BY <1>2, <1>3, <1>4 DEF ApiInv, GrantsAreMarked, Api!TypeOK
<1>7. EvidenceIsBound' /\ CallIsBound' /\ AnswersAreStated'
  BY DEF ApiInv, EvidenceIsBound, CallIsBound, AnswersAreStated
<1> QED BY <1>2, <1>5, <1>6, <1>7 DEF ApiInv

LEMMA ApiAdminister ==
  ASSUME ApiInv, NEW p \in Provisions, Api!Administer(p) PROVE ApiInv'
<1> USE ApiFacts DEF Api!Administer, Api!statements
<1>1. Api!TypeOK'
  <2>1. granted' \subseteq Provisions BY DEF ApiInv, Api!TypeOK
  <2>2. edits' \in 0..MaxGrants BY DEF ApiInv, Api!TypeOK
  <2> QED BY <2>1, <2>2 DEF ApiInv, Api!TypeOK
<1>2. GrantsAreMarked' BY DEF ApiInv, GrantsAreMarked
<1>3. EvidenceIsBound' /\ CallIsBound' /\ AnswersAreStated'
  BY DEF ApiInv, EvidenceIsBound, CallIsBound, AnswersAreStated
<1> QED BY <1>1, <1>2, <1>3 DEF ApiInv

\* A statement is taken in: a row that was recorded is answered as it stands.
LEMMA ApiRespond ==
  ASSUME ApiInv, NEW k \in Statements, NEW t \in Texts, Api!Respond(k, t) PROVE ApiInv'
<1> USE ApiFacts DEF Api!Respond, Api!boot
<1>0. apiRow \in [Statements -> ApiRows] BY DEF ApiInv, Api!TypeOK, ApiRows
<1>1. CASE ~Api!SameStatement(k, t)
  <2>1. apiCall' = Api!NoCall BY <1>1
  <2>2. Api!TypeOK' BY <2>1 DEF ApiInv, Api!TypeOK, Api!NoCall
  <2>3. GrantsAreMarked' BY DEF ApiInv, GrantsAreMarked
  <2>4. EvidenceIsBound' /\ AnswersAreStated' BY DEF ApiInv, EvidenceIsBound, AnswersAreStated
  <2>5. CallIsBound' BY <2>1 DEF CallIsBound
  <2> QED BY <2>1, <2>2, <2>3, <2>4, <2>5 DEF ApiInv
<1>2. CASE Api!SameStatement(k, t)
  <2>1. PICK x \in {"answer", "save"} :
          /\ apiCall' = [at |-> x, key |-> k, text |-> t]
          /\ x = "answer" <=> apiRow[k].done
    BY <1>2
  <2>2. apiCall' \in ApiCalls BY <2>1 DEF ApiCalls
  <2>3. Api!TypeOK' BY <2>1 DEF ApiInv, Api!TypeOK
  <2>4. GrantsAreMarked' BY DEF ApiInv, GrantsAreMarked
  <2>5. EvidenceIsBound' /\ AnswersAreStated' BY DEF ApiInv, EvidenceIsBound, AnswersAreStated
  <2>6. CASE x = "save" BY <1>2, <2>1, <2>2, <2>3, <2>4, <2>5, <2>6 DEF ApiInv, CallIsBound, Api!SameStatement
  <2>7. CASE x = "answer"
    <3>1. apiRow[k].done BY <2>1, <2>7
    <3>2. apiRow[k].text = t BY <1>2, <3>1 DEF Api!SameStatement, Api!NoRow
    <3>3. <<<<k, 0>>, t>> \in apiEvidence BY <3>1, <3>2 DEF ApiInv, EvidenceIsBound
    <3>4. CallIsBound' BY <2>1, <2>7, <3>2, <3>3 DEF CallIsBound
    <3> QED BY <2>2, <2>3, <2>4, <2>5, <3>4 DEF ApiInv
  <2> QED BY <2>6, <2>7
<1> QED BY <1>1, <1>2

LEMMA Called ==
  ASSUME ApiInv, apiCall.at \in {"save", "commit", "record", "answer"}
  PROVE /\ apiCall \in ApiCalls /\ apiCall.key \in Statements /\ apiCall.text \in Texts /\ apiCall # Api!NoCall
        /\ \A x \in {"save", "commit", "record", "answer"} :
             LET c == [apiCall EXCEPT !.at = x]
             IN c \in ApiCalls /\ c.at = x /\ c.key = apiCall.key /\ c.text = apiCall.text /\ c # Api!NoCall
BY DEF ApiInv, ApiCalls, Api!NoCall

LEMMA ApiSave ==
  ASSUME ApiInv, Api!SaveCommand PROVE ApiInv'
<1> USE ApiFacts DEF Api!SaveCommand, Api!boot
<1>0. apiRow \in [Statements -> ApiRows] /\ apiEvidence \subseteq (Statements \X (0..MaxTries)) \X Texts
  BY DEF ApiInv, Api!TypeOK, ApiRows
<1>1. PICK k \in Statements, t \in Texts : k = apiCall.key /\ t = apiCall.text BY Called
<1>2. apiCall' \in ApiCalls /\ apiCall'.at = "commit" /\ apiCall'.key = k /\ apiCall'.text = t /\ apiCall' # Api!NoCall
  BY <1>1, Called
<1>3. apiRow' = [apiRow EXCEPT ![k] = [text |-> t, done |-> FALSE]] BY <1>1
<1>4. apiRow[k] = Api!NoRow \/ apiRow[k].text = t BY <1>1, Called DEF ApiInv, CallIsBound
<1>5. Api!TypeOK'
  <2>0. FALSE \in BOOLEAN OBVIOUS
  <2>a. [text |-> t, done |-> FALSE] \in ApiRows BY <2>0 DEF ApiRows
  <2>1. apiRow' \in [Statements -> ApiRows] BY <1>0, <1>3, <2>a
  <2> QED BY <1>2, <2>1 DEF ApiInv, Api!TypeOK, ApiRows
<1>6. GrantsAreMarked' BY DEF ApiInv, GrantsAreMarked
<1>7. EvidenceIsBound'
  <2>1. ASSUME NEW e \in apiEvidence PROVE apiRow'[e[1][1]].text = e[2]
    <3>1. e[1][1] \in Statements /\ e[2] \in Texts BY <1>0
    <3>2. apiRow[e[1][1]].text = e[2] BY DEF ApiInv, EvidenceIsBound
    <3>3. CASE e[1][1] = k BY <1>0, <1>3, <1>4, <3>1, <3>2, <3>3 DEF Api!NoRow
    <3>4. CASE e[1][1] # k BY <1>0, <1>3, <3>1, <3>2, <3>4
    <3> QED BY <3>3, <3>4
  <2>2. ASSUME NEW j \in Statements, apiRow'[j].done PROVE <<<<j, 0>>, apiRow'[j].text>> \in apiEvidence
    <3>1. j # k BY <1>0, <1>3, <2>2
    <3>2. apiRow'[j] = apiRow[j] BY <1>0, <1>3, <3>1
    <3> QED BY <2>2, <3>2 DEF ApiInv, EvidenceIsBound
  <2> QED BY <2>1, <2>2 DEF ApiInv, EvidenceIsBound
<1>8. CallIsBound' BY <1>0, <1>2, <1>3 DEF CallIsBound
<1>9. AnswersAreStated' BY DEF ApiInv, AnswersAreStated
<1> QED BY <1>2, <1>5, <1>6, <1>7, <1>8, <1>9 DEF ApiInv

\* The commit of a key the graph knows is replayed: what it holds are the words of the row.
LEMMA ApiCommit ==
  ASSUME ApiInv, Api!Commit PROVE ApiInv'
<1> USE ApiFacts DEF Api!boot
<1>0. apiRow \in [Statements -> ApiRows] /\ apiEvidence \subseteq (Statements \X (0..MaxTries)) \X Texts
  BY DEF ApiInv, Api!TypeOK, ApiRows
<1>a. apiCall.at = "commit" /\ UNCHANGED <<marker, granted, made, edits, runtime, apiRow, tries, answers>>
  BY DEF Api!Commit
<1>1. PICK k \in Statements, t \in Texts : k = apiCall.key /\ t = apiCall.text BY <1>a, Called
<1>2. apiRow[k].text = t BY <1>1, <1>a, Called DEF ApiInv, CallIsBound
<1>3. PICK new : new = <<<<k, 0>>, t>> OBVIOUS
<1>4. \A e \in apiEvidence : e[1] = <<k, 0>> => e = new
  <2> SUFFICES ASSUME NEW e \in apiEvidence, e[1] = <<k, 0>> PROVE e = new OBVIOUS
  <2>1. e = <<e[1], e[2]>> BY <1>0
  <2>2. e[1][1] = k OBVIOUS
  <2>3. apiRow[k].text = e[2] BY <2>2 DEF ApiInv, EvidenceIsBound
  <2> QED BY <1>2, <1>3, <2>1, <2>3
<1>5. \/ /\ apiEvidence' = apiEvidence \cup {new}
         /\ apiCall' = [apiCall EXCEPT !.at = "record"] \/ apiCall' = Api!NoCall
      \/ apiEvidence' = apiEvidence /\ apiCall' = Api!NoCall
  <2>1. PICK had : had = {e \in apiEvidence : e[1] = <<k, 0>>} OBVIOUS
  <2>2. had # {} => new \in apiEvidence BY <1>4, <2>1
  <2>3. \/ /\ apiEvidence' = IF had = {} THEN apiEvidence \union {new} ELSE apiEvidence
           /\ apiCall' \in {[apiCall EXCEPT !.at = "record"], Api!NoCall}
        \/ UNCHANGED apiEvidence /\ apiCall' = Api!NoCall
    BY <1>1, <1>3, <2>1 DEF Api!Commit, Api!IdempotencyKey
  <2>4. CASE had = {} BY <2>3, <2>4
  <2>5. CASE had # {}
    <3>1. apiEvidence = apiEvidence \cup {new} BY <2>2, <2>5
    <3> QED BY <2>3, <2>5, <3>1
  <2> QED BY <2>4, <2>5
<1>6. apiEvidence' \subseteq (Statements \X (0..MaxTries)) \X Texts BY <1>0, <1>1, <1>3, <1>5
<1>7. apiCall' \in ApiCalls \cup {Api!NoCall} /\ apiCall'.at \in {"none", "save", "commit", "record", "answer"}
  <2>1. CASE apiCall' = Api!NoCall BY <2>1 DEF Api!NoCall
  <2>2. CASE apiCall' = [apiCall EXCEPT !.at = "record"] BY <2>2, <1>a, Called
  <2> QED BY <1>5, <2>1, <2>2
<1>8. Api!TypeOK' BY <1>6, <1>7, <1>a DEF ApiInv, Api!TypeOK
<1>9. GrantsAreMarked' BY <1>a DEF ApiInv, GrantsAreMarked
<1>10. EvidenceIsBound'
  <2>1. \A e \in apiEvidence' : e \in apiEvidence \/ e = new BY <1>5
  <2>2. new[1] = <<new[1][1], 0>> /\ apiRow[new[1][1]].text = new[2] BY <1>2, <1>3
  <2>3. apiEvidence \subseteq apiEvidence' BY <1>5
  <2> QED BY <1>a, <2>1, <2>2, <2>3 DEF ApiInv, EvidenceIsBound
<1>11. CallIsBound'
  <2>1. CASE apiCall' = Api!NoCall BY <2>1 DEF CallIsBound
  <2>2. CASE apiCall' = [apiCall EXCEPT !.at = "record"] /\ apiEvidence' = apiEvidence \cup {new}
    <3>1. apiCall'.at = "record" /\ apiCall'.key = k /\ apiCall'.text = t BY <1>1, <1>a, <2>2, Called
    <3> QED BY <1>2, <1>3, <1>a, <2>2, <3>1 DEF CallIsBound
  <2> QED BY <1>5, <2>1, <2>2
<1>12. AnswersAreStated' BY <1>5, <1>a DEF ApiInv, AnswersAreStated
<1> QED BY <1>7, <1>8, <1>9, <1>10, <1>11, <1>12, <1>a DEF ApiInv

LEMMA ApiRecord ==
  ASSUME ApiInv, Api!RecordEvidence PROVE ApiInv'
<1> USE ApiFacts DEF Api!RecordEvidence, Api!boot
<1>0. apiRow \in [Statements -> ApiRows] BY DEF ApiInv, Api!TypeOK, ApiRows
<1>1. PICK k \in Statements, t \in Texts : k = apiCall.key /\ t = apiCall.text BY Called
<1>2. apiCall' \in ApiCalls /\ apiCall'.at = "answer" /\ apiCall'.key = k /\ apiCall'.text = t
  BY <1>1, Called
<1>3. apiRow' = [apiRow EXCEPT ![k].done = TRUE] BY <1>1
<1>4. apiRow[k].text = t /\ <<<<k, 0>>, t>> \in apiEvidence BY <1>1, Called DEF ApiInv, CallIsBound
<1>5. apiRow' \in [Statements -> ApiRows] /\ \A j \in Statements : /\ apiRow'[j].text = apiRow[j].text
                                                                 /\ j # k => apiRow'[j] = apiRow[j]
  BY <1>0, <1>3 DEF ApiRows
<1>6. Api!TypeOK' BY <1>2, <1>5 DEF ApiInv, Api!TypeOK, ApiRows
<1>7. GrantsAreMarked' BY DEF ApiInv, GrantsAreMarked
<1>8. EvidenceIsBound'
  <2>1. \A e \in apiEvidence : e[1][1] \in Statements BY DEF ApiInv, Api!TypeOK
  <2>2. \A e \in apiEvidence : e[1] = <<e[1][1], 0>> /\ apiRow'[e[1][1]].text = e[2]
    BY <1>5, <2>1 DEF ApiInv, EvidenceIsBound
  <2>3. ASSUME NEW j \in Statements, apiRow'[j].done PROVE <<<<j, 0>>, apiRow'[j].text>> \in apiEvidence
    <3>1. CASE j = k BY <1>4, <1>5, <3>1
    <3>2. CASE j # k
      <4>1. apiRow'[j] = apiRow[j] BY <1>5, <3>2
      <4>2. apiRow[j].done BY <2>3, <4>1
      <4> QED BY <4>1, <4>2 DEF ApiInv, EvidenceIsBound
    <3> QED BY <3>1, <3>2
  <2> QED BY <2>2, <2>3 DEF EvidenceIsBound
<1>9. CallIsBound' BY <1>2, <1>4, <1>5 DEF CallIsBound
<1>10. AnswersAreStated' BY DEF ApiInv, AnswersAreStated
<1> QED BY <1>2, <1>6, <1>7, <1>8, <1>9, <1>10 DEF ApiInv

LEMMA ApiAnswer ==
  ASSUME ApiInv, Api!Answer PROVE ApiInv'
<1> USE ApiFacts DEF Api!Answer, Api!boot
<1>1. PICK k \in Statements, t \in Texts : k = apiCall.key /\ t = apiCall.text BY Called
<1>2. <<<<k, 0>>, t>> \in apiEvidence BY <1>1, Called DEF ApiInv, CallIsBound
<1>3. answers' = answers \cup {<<k, t>>} BY <1>1
<1>4. Api!TypeOK' BY <1>3 DEF ApiInv, Api!TypeOK, Api!NoCall
<1>5. GrantsAreMarked' BY DEF ApiInv, GrantsAreMarked
<1>6. EvidenceIsBound' BY DEF ApiInv, EvidenceIsBound
<1>7. CallIsBound' BY DEF CallIsBound
<1>8. AnswersAreStated'
  <2> SUFFICES ASSUME NEW a \in answers' PROVE <<<<a[1], 0>>, a[2]>> \in apiEvidence
    BY DEF AnswersAreStated
  <2>1. CASE a = <<k, t>> BY <1>2, <2>1
  <2>2. CASE a \in answers BY <2>2 DEF ApiInv, AnswersAreStated
  <2> QED BY <1>3, <2>1, <2>2
<1> QED BY <1>4, <1>5, <1>6, <1>7, <1>8 DEF ApiInv

LEMMA ApiStep ==
  ASSUME ApiInv, [Api!Next]_apiVars PROVE ApiInv'
<1>1. CASE UNCHANGED apiVars
  BY <1>1 DEF apiVars, ApiInv, Api!TypeOK, GrantsAreMarked, EvidenceIsBound, CallIsBound, AnswersAreStated
<1>2. CASE Api!Next
  BY <1>2, ApiConnect, ApiReadMarker, ApiBegin, ApiAdopt, ApiGrant, ApiAdminister, ApiRespond, ApiSave,
     ApiCommit, ApiRecord, ApiAnswer, ApiCrash DEF Api!Next
<1> QED BY <1>1, <1>2

LEMMA ApiInvImplies ==
  ApiInv => Api!TypeOK /\ Api!GrantedByBootstrapOnce /\ Api!StatedOnce
<1> SUFFICES ASSUME ApiInv PROVE Api!TypeOK /\ Api!GrantedByBootstrapOnce /\ Api!StatedOnce OBVIOUS
<1>1. Api!GrantedByBootstrapOnce BY DEF ApiInv, GrantsAreMarked, Api!GrantedByBootstrapOnce
<1>2. ASSUME NEW e \in apiEvidence, NEW f \in apiEvidence, e[1][1] = f[1][1] PROVE e = f
  <2>1. e[1] = f[1] /\ e[2] = f[2] BY <1>2 DEF ApiInv, EvidenceIsBound
  <2>2. e = <<e[1], e[2]>> /\ f = <<f[1], f[2]>> BY DEF ApiInv, Api!TypeOK
  <2> QED BY <2>1, <2>2
<1>3. ASSUME NEW a \in answers PROVE \E e \in apiEvidence : e[1][1] = a[1] /\ e[2] = a[2]
  <2>1. PICK e : e = <<<<a[1], 0>>, a[2]>> OBVIOUS
  <2>2. e \in apiEvidence BY <2>1 DEF ApiInv, AnswersAreStated
  <2>3. e[1][1] = a[1] /\ e[2] = a[2] BY <2>1
  <2> QED BY <2>2, <2>3
<1>4. Api!StatedOnce BY <1>2, <1>3 DEF Api!StatedOnce
<1> QED BY <1>1, <1>4 DEF ApiInv

(***************************************************************************)
(* The observation journal: the steps an operation still has to make.      *)
(***************************************************************************)
Steps == {"save", "challenge", "look", "allocate", "point", "publish", "mark", "commit",
          "reconcile", "signal", "answer", "refuse", "advance"}
Finals == {"answer", "refuse", "advance"}
Middles == {"allocate", "point", "publish", "mark"}
Opening == {"look", "allocate", "point", "publish"}

\* The steps that index a receipt follow each other, and a final step ends the list.
Flows(s) ==
  /\ s \in Seq(Steps)
  /\ \A i \in 2..Len(s) :
       /\ s[i - 1] \notin Finals
       /\ s[i - 1] = "look" <=> s[i] = "allocate"
       /\ s[i - 1] = "allocate" <=> s[i] = "point"
       /\ s[i - 1] = "point" <=> s[i] = "publish"
       /\ s[i - 1] = "publish" <=> s[i] = "mark"

HasStep(s, S) == \E i \in 1..Len(s) : s[i] \in S

\* What changes a receipt is followed by another look at the index.
Changes == {"commit", "signal"}
Follows(s) == \A i \in 1..Len(s) : s[i] \in Changes => \E j \in (i + 1)..Len(s) : s[j] = "look"

\* A piece of a list, and a list.
Piece(s) ==
  /\ Flows(s)
  /\ s # <<>> => s[1] \notin Middles /\ s[Len(s)] \notin Opening \cup Finals
Todo(s) == Flows(s) /\ s # <<>> /\ s[Len(s)] \in Finals /\ Follows(s)
Final(s) == s[Len(s)]

LEMMA StepsDiffer == Finals \cap Middles = {} /\ Finals \cap Opening = {} /\ "look" \notin Middles
BY DEF Finals, Middles, Opening

LEMMA PieceThenFlow ==
  ASSUME NEW s, NEW t, Piece(s), Flows(t), t # <<>>, t[1] \notin Middles
  PROVE /\ Flows(s \o t) /\ s \o t # <<>> /\ (s \o t)[1] \notin Middles
        /\ Final(s \o t) = Final(t)
<1> DEFINE u == s \o t
<1>1. s \in Seq(Steps) /\ t \in Seq(Steps) /\ Len(s) \in Nat /\ Len(t) \in Nat /\ Len(t) > 0
  BY DEF Piece, Flows
<1>2. /\ u \in Seq(Steps) /\ Len(u) = Len(s) + Len(t)
      /\ \A i \in 1..Len(s) : u[i] = s[i]
      /\ \A i \in 1..Len(t) : u[i + Len(s)] = t[i]
  BY <1>1
<1> HIDE DEF u
<1>3. ASSUME NEW i \in 2..Len(u)
      PROVE /\ u[i - 1] \notin Finals
            /\ u[i - 1] = "look" <=> u[i] = "allocate"
            /\ u[i - 1] = "allocate" <=> u[i] = "point"
            /\ u[i - 1] = "point" <=> u[i] = "publish"
            /\ u[i - 1] = "publish" <=> u[i] = "mark"
  <2>1. CASE i <= Len(s)
    <3>1. u[i] = s[i] /\ u[i - 1] = s[i - 1] /\ i \in 2..Len(s) BY <1>1, <1>2, <2>1
    <3> QED BY <3>1 DEF Piece, Flows
  <2>2. CASE i = Len(s) + 1
    <3>1. Len(s) >= 1 /\ s # <<>> BY <1>1, <2>2
    <3>2. u[i - 1] = s[Len(s)] BY <1>1, <1>2, <2>2, <3>1
    <3>3. u[i] = t[1] BY <1>1, <1>2, <2>2
    <3>4. s[Len(s)] \notin Opening \cup Finals BY <3>1 DEF Piece
    <3> QED BY <3>2, <3>3, <3>4 DEF Opening, Middles
  <2>3. CASE i > Len(s) + 1
    <3>1. PICK j \in 2..Len(t) : i = j + Len(s)
      <4>1. i - Len(s) \in 2..Len(t) /\ i = (i - Len(s)) + Len(s) BY <1>1, <1>2, <2>3
      <4> QED BY <4>1
    <3>2. u[i] = t[j] /\ u[i - 1] = t[j - 1]
      <4>1. PICK l : l = j - 1 OBVIOUS
      <4>2. i - 1 = l + Len(s) /\ l \in 1..Len(t) /\ j \in 1..Len(t) BY <1>1, <3>1, <4>1
      <4>3. u[j + Len(s)] = t[j] /\ u[l + Len(s)] = t[l] BY <1>2, <4>2
      <4> QED BY <3>1, <4>1, <4>2, <4>3
    <3> QED BY <3>1, <3>2 DEF Flows
  <2> QED BY <1>1, <1>2, <2>1, <2>2, <2>3
<1>4. Flows(u) BY <1>2, <1>3 DEF Flows
<1>5. u # <<>> BY <1>1, <1>2
<1>6. u[1] \notin Middles
  <2>1. CASE s = <<>> BY <1>1, <1>2, <2>1
  <2>2. CASE s # <<>>
    <3>1. u[1] = s[1] BY <1>1, <1>2, <2>2
    <3> QED BY <2>2, <3>1 DEF Piece
  <2> QED BY <2>1, <2>2
<1>7. u[Len(u)] = t[Len(t)] BY <1>1, <1>2
<1> QED BY <1>4, <1>5, <1>6, <1>7 DEF u, Final

LEMMA PiecesJoin ==
  ASSUME NEW s, NEW t, Piece(s), Piece(t) PROVE Piece(s \o t)
<1>1. s \in Seq(Steps) /\ t \in Seq(Steps) BY DEF Piece, Flows
<1>2. CASE t = <<>> BY <1>1, <1>2
<1>3. CASE t # <<>>
  BY <1>3, PieceThenFlow DEF Piece, Final
<1> QED BY <1>2, <1>3

LEMMA FollowsJoin ==
  ASSUME NEW s \in Seq(Steps), NEW t \in Seq(Steps), Follows(t), Follows(s) \/ HasStep(t, {"look"})
  PROVE Follows(s \o t)
<1> DEFINE u == s \o t
<1>1. Len(s) \in Nat /\ Len(t) \in Nat OBVIOUS
<1>2. /\ Len(u) = Len(s) + Len(t)
      /\ \A i \in 1..Len(s) : u[i] = s[i]
      /\ \A i \in 1..Len(t) : u[i + Len(s)] = t[i]
  BY <1>1
<1> HIDE DEF u
<1>3. ASSUME NEW i \in 1..Len(u), u[i] \in Changes PROVE \E j \in (i + 1)..Len(u) : u[j] = "look"
  <2>1. CASE i > Len(s)
    <3>1. PICK k \in 1..Len(t) : i = k + Len(s)
      <4>1. i - Len(s) \in 1..Len(t) /\ i = (i - Len(s)) + Len(s) BY <1>1, <1>2, <2>1
      <4> QED BY <4>1
    <3>2. t[k] \in Changes BY <1>2, <1>3, <3>1
    <3>3. PICK j \in (k + 1)..Len(t) : t[j] = "look" BY <3>2 DEF Follows
    <3>4. j + Len(s) \in (i + 1)..Len(u) /\ u[j + Len(s)] = "look" BY <1>1, <1>2, <3>1, <3>3
    <3> QED BY <3>4
  <2>2. CASE i <= Len(s) /\ Follows(s)
    <3>1. s[i] \in Changes /\ i \in 1..Len(s) BY <1>1, <1>2, <1>3, <2>2
    <3>2. PICK j \in (i + 1)..Len(s) : s[j] = "look" BY <2>2, <3>1 DEF Follows
    <3>3. j \in (i + 1)..Len(u) /\ u[j] = "look" BY <1>1, <1>2, <3>1, <3>2
    <3> QED BY <3>3
  <2>3. CASE i <= Len(s) /\ HasStep(t, {"look"})
    <3>1. PICK j \in 1..Len(t) : t[j] = "look" BY <2>3 DEF HasStep
    <3>2. j + Len(s) \in (i + 1)..Len(u) /\ u[j + Len(s)] = "look" BY <1>1, <1>2, <2>3, <3>1
    <3> QED BY <3>2
  <2> QED BY <1>1, <1>2, <2>1, <2>2, <2>3
<1> QED BY <1>3 DEF Follows, u

LEMMA HasJoin ==
  ASSUME NEW s \in Seq(Steps), NEW t \in Seq(Steps), NEW S, HasStep(s, S) \/ HasStep(t, S)
  PROVE HasStep(s \o t, S)
<1> DEFINE u == s \o t
<1>1. Len(s) \in Nat /\ Len(t) \in Nat OBVIOUS
<1>2. /\ Len(u) = Len(s) + Len(t)
      /\ \A i \in 1..Len(s) : u[i] = s[i]
      /\ \A i \in 1..Len(t) : u[i + Len(s)] = t[i]
  BY <1>1
<1> HIDE DEF u
<1>3. CASE HasStep(s, S)
  <2>1. PICK i \in 1..Len(s) : s[i] \in S BY <1>3 DEF HasStep
  <2>2. i \in 1..Len(u) /\ u[i] \in S BY <1>1, <1>2, <2>1
  <2> QED BY <2>2 DEF HasStep, u
<1>4. CASE HasStep(t, S)
  <2>1. PICK i \in 1..Len(t) : t[i] \in S BY <1>4 DEF HasStep
  <2>2. i + Len(s) \in 1..Len(u) /\ u[i + Len(s)] \in S BY <1>1, <1>2, <2>1
  <2> QED BY <2>2 DEF HasStep, u
<1> QED BY <1>3, <1>4

\* The pieces the operations are made of.
LEMMA IndexPieces ==
  /\ Piece(Observe!IndexAt) /\ Follows(Observe!IndexAt) /\ HasStep(Observe!IndexAt, {"look"})
  /\ Piece(Observe!Index) /\ Follows(Observe!Index) /\ HasStep(Observe!Index, {"look"})
<1>1. PICK s : s = Observe!IndexAt OBVIOUS
<1>2. s = <<"look", "allocate", "point", "publish", "mark">> BY <1>1 DEF Observe!IndexAt
<1>3. s \in Seq(Steps) /\ Len(s) = 5 BY <1>2 DEF Steps
<1>4. s[1] = "look" /\ s[2] = "allocate" /\ s[3] = "point" /\ s[4] = "publish" /\ s[5] = "mark" BY <1>2
<1>5. Flows(s) BY <1>3, <1>4 DEF Flows, Finals
<1>6. Piece(s) BY <1>3, <1>4, <1>5 DEF Piece, Middles, Opening, Finals
<1>7. Follows(s) BY <1>3, <1>4 DEF Follows, Changes
<1>8. HasStep(s, {"look"}) BY <1>3, <1>4 DEF HasStep
<1>9. PICK c : c = <<"challenge">> OBVIOUS
<1>10. c \in Seq(Steps) /\ Len(c) = 1 /\ c[1] = "challenge" BY <1>9 DEF Steps
<1>11. Piece(c) BY <1>10 DEF Piece, Flows, Middles, Opening, Finals
<1>12. Follows(c) BY <1>10 DEF Follows, Changes
<1>13. Observe!Index = c \o s BY <1>1, <1>9 DEF Observe!Index
<1> QED BY <1>1, <1>3, <1>6, <1>7, <1>8, <1>10, <1>11, <1>12, <1>13, PiecesJoin, FollowsJoin, HasJoin

LEMMA SmallPieces ==
  /\ \A x \in {"save", "commit", "signal", "challenge", "reconcile"} : <<x>> \in Seq(Steps) /\ Piece(<<x>>)
  /\ Piece(<<>>) /\ Follows(<<>>) /\ <<>> \in Seq(Steps)
  /\ \A x \in {"save", "challenge", "reconcile"} : Follows(<<x>>)
<1>1. ASSUME NEW x \in {"save", "commit", "signal", "challenge", "reconcile"} 
      PROVE <<x>> \in Seq(Steps) /\ Piece(<<x>>) /\ (x \notin Changes => Follows(<<x>>))
  <2>1. PICK s : s = <<x>> OBVIOUS
  <2>2. s \in Seq(Steps) /\ Len(s) = 1 /\ s[1] = x BY <2>1 DEF Steps
  <2>3. Piece(s) BY <2>2 DEF Piece, Flows, Middles, Opening, Finals
  <2>4. x \notin Changes => Follows(s) BY <2>2 DEF Follows
  <2> QED BY <2>1, <2>2, <2>3, <2>4
<1>2. Piece(<<>>) /\ Follows(<<>>) /\ <<>> \in Seq(Steps)
  <2>1. PICK s : s = <<>> OBVIOUS
  <2>2. s \in Seq(Steps) /\ Len(s) = 0 BY <2>1
  <2>3. Piece(s) /\ Follows(s) BY <2>1, <2>2 DEF Piece, Flows, Follows
  <2> QED BY <2>1, <2>2, <2>3
<1> QED BY <1>1, <1>2 DEF Changes

LEMMA FinalSteps ==
  ASSUME NEW x \in Finals
  PROVE LET s == <<x>> IN s \in Seq(Steps) /\ Flows(s) /\ s # <<>> /\ s[1] \notin Middles /\ Follows(s) /\ Final(s) = x
                         /\ Head(s) = x /\ Todo(s)
<1>1. PICK s : s = <<x>> OBVIOUS
<1>2. s \in Seq(Steps) /\ Len(s) = 1 /\ s[1] = x /\ s # <<>> BY <1>1 DEF Steps, Finals
<1>3. Flows(s) /\ Follows(s) BY <1>2 DEF Flows, Follows, Finals, Changes
<1>4. s[1] \notin Middles BY <1>2 DEF Finals, Middles
<1> QED BY <1>1, <1>2, <1>3, <1>4 DEF Final, Todo

\* A piece before a list makes a list.
LEMMA PieceThenTodo ==
  ASSUME NEW s, NEW t, Piece(s), Flows(t), t # <<>>, t[1] \notin Middles, Final(t) \in Finals, Follows(t),
         Follows(s) \/ HasStep(t, {"look"})
  PROVE Todo(s \o t) /\ (s \o t)[1] \notin Middles /\ Final(s \o t) = Final(t)
<1>1. s \in Seq(Steps) /\ t \in Seq(Steps) BY DEF Piece, Flows
<1>2. /\ Flows(s \o t) /\ s \o t # <<>> /\ (s \o t)[1] \notin Middles /\ Final(s \o t) = Final(t)
  BY PieceThenFlow
<1>3. Follows(s \o t) BY <1>1, FollowsJoin
<1> QED BY <1>2, <1>3 DEF Todo, Final

\* A step taken from the front of a list.
LEMMA TailOf ==
  ASSUME NEW t, Todo(t), t[1] \notin Finals
  PROVE /\ Todo(Tail(t)) /\ Final(Tail(t)) = Final(t)
        /\ Tail(t)[1] = "point" <=> t[1] = "allocate"
        /\ Tail(t)[1] = "publish" <=> t[1] = "point"
        /\ Tail(t)[1] = "mark" <=> t[1] = "publish"
        /\ HasStep(t, Opening) /\ t[1] # "publish" => HasStep(Tail(t), Opening)
        /\ t[1] \in Changes => HasStep(Tail(t), Opening)
<1> DEFINE u == Tail(t)
<1>1. t \in Seq(Steps) /\ Len(t) \in Nat /\ Len(t) > 0 /\ t[Len(t)] \in Finals BY DEF Todo, Flows
<1>2. Len(t) >= 2 BY <1>1
<1>3. u \in Seq(Steps) /\ Len(u) = Len(t) - 1 /\ \A i \in 1..Len(u) : u[i] = t[i + 1] BY <1>1, <1>2
<1> HIDE DEF u
<1>4. ASSUME NEW i \in 2..Len(u)
      PROVE /\ u[i - 1] \notin Finals
            /\ u[i - 1] = "look" <=> u[i] = "allocate"
            /\ u[i - 1] = "allocate" <=> u[i] = "point"
            /\ u[i - 1] = "point" <=> u[i] = "publish"
            /\ u[i - 1] = "publish" <=> u[i] = "mark"
  <2>1. PICK j : j = i + 1 OBVIOUS
  <2>2. j \in 2..Len(t) /\ u[i] = t[j] /\ u[i - 1] = t[j - 1] BY <1>1, <1>3, <2>1
  <2> QED BY <2>2 DEF Todo, Flows
<1>5. Flows(u) /\ u # <<>> BY <1>1, <1>2, <1>3, <1>4 DEF Flows
<1>6. u[Len(u)] = t[Len(t)] BY <1>1, <1>2, <1>3
<1>7. ASSUME NEW i \in 1..Len(u), u[i] \in Changes PROVE \E j \in (i + 1)..Len(u) : u[j] = "look"
  <2>1. t[i + 1] \in Changes /\ i + 1 \in 1..Len(t) BY <1>1, <1>3, <1>7
  <2>2. PICK j \in (i + 2)..Len(t) : t[j] = "look" BY <1>1, <2>1 DEF Todo, Follows
  <2>3. j - 1 \in (i + 1)..Len(u) /\ u[j - 1] = "look" BY <1>1, <1>3, <2>2
  <2> QED BY <2>3
<1>8. Todo(u) BY <1>1, <1>5, <1>6, <1>7 DEF Todo, Follows
<1>9. u[1] = t[2] /\ 2 \in 2..Len(t) BY <1>1, <1>2, <1>3
<1>10. /\ u[1] = "allocate" <=> t[1] = "look"
       /\ u[1] = "point" <=> t[1] = "allocate"
       /\ u[1] = "publish" <=> t[1] = "point"
       /\ u[1] = "mark" <=> t[1] = "publish"
  BY <1>9 DEF Todo, Flows
<1>11. ASSUME HasStep(t, Opening), t[1] # "publish" PROVE HasStep(u, Opening)
  <2>1. PICK i \in 1..Len(t) : t[i] \in Opening BY <1>11 DEF HasStep
  <2>2. CASE i = 1
    <3>1. u[1] \in Opening BY <1>10, <1>11, <2>1, <2>2 DEF Opening
    <3> QED BY <1>1, <1>2, <1>3, <3>1 DEF HasStep
  <2>3. CASE i > 1
    <3>1. i - 1 \in 1..Len(u) /\ u[i - 1] \in Opening BY <1>1, <1>3, <2>1, <2>3
    <3> QED BY <3>1 DEF HasStep
  <2> QED BY <1>1, <2>2, <2>3
<1>12. ASSUME t[1] \in Changes PROVE HasStep(u, Opening)
  <2>1. PICK j \in (1 + 1)..Len(t) : t[j] = "look" BY <1>1, <1>12 DEF Todo, Follows
  <2>2. j - 1 \in 1..Len(u) /\ u[j - 1] = "look" BY <1>1, <1>3, <2>1
  <2> QED BY <2>2 DEF HasStep, Opening
<1> QED BY <1>6, <1>8, <1>10, <1>11, <1>12 DEF u, Final

\* A receipt that is indexed already: the steps of its index are left out.
LEMMA SkipOf ==
  ASSUME NEW t, Todo(t), t[1] = "look"
  PROVE /\ Todo(SubSeq(t, 6, Len(t))) /\ Final(SubSeq(t, 6, Len(t))) = Final(t)
        /\ SubSeq(t, 6, Len(t))[1] \notin Middles
<1> DEFINE u == SubSeq(t, 6, Len(t))
<1>1. t \in Seq(Steps) /\ Len(t) \in Nat /\ Len(t) > 0 /\ t[Len(t)] \in Finals BY DEF Todo, Flows
<1>2. \A i \in 2..Len(t) : /\ t[i - 1] = "look" <=> t[i] = "allocate"
                           /\ t[i - 1] = "allocate" <=> t[i] = "point"
                           /\ t[i - 1] = "point" <=> t[i] = "publish"
                           /\ t[i - 1] = "publish" <=> t[i] = "mark"
  BY DEF Todo, Flows
<1>3. Len(t) >= 2 /\ t[2] = "allocate"
  <2>1. Len(t) >= 2 BY <1>1 DEF Finals
  <2>2. 2 \in 2..Len(t) BY <1>1, <2>1
  <2> QED BY <1>2, <2>1, <2>2
<1>4. Len(t) >= 3 /\ t[3] = "point"
  <2>1. Len(t) >= 3 BY <1>1, <1>3 DEF Finals
  <2>2. 3 \in 2..Len(t) /\ 3 - 1 = 2 BY <1>1, <2>1
  <2> QED BY <1>2, <1>3, <2>1, <2>2
<1>5. Len(t) >= 4 /\ t[4] = "publish"
  <2>1. Len(t) >= 4 BY <1>1, <1>4 DEF Finals
  <2>2. 4 \in 2..Len(t) /\ 4 - 1 = 3 BY <1>1, <2>1
  <2> QED BY <1>2, <1>4, <2>1, <2>2
<1>6. Len(t) >= 5 /\ t[5] = "mark"
  <2>1. Len(t) >= 5 BY <1>1, <1>5 DEF Finals
  <2>2. 5 \in 2..Len(t) /\ 5 - 1 = 4 BY <1>1, <2>1
  <2> QED BY <1>2, <1>5, <2>1, <2>2
<1>7. Len(t) >= 6 /\ t[6] \notin Middles
  <2>1. Len(t) >= 6 BY <1>1, <1>6 DEF Finals
  <2>2. 6 \in 2..Len(t) /\ 6 - 1 = 5 BY <1>1, <2>1
  <2>3. t[5] # "look" /\ t[5] # "allocate" /\ t[5] # "point" /\ t[5] # "publish" BY <1>6
  <2>4. t[6] # "allocate" /\ t[6] # "point" /\ t[6] # "publish" /\ t[6] # "mark" BY <1>2, <2>2, <2>3
  <2> QED BY <2>1, <2>4 DEF Middles
<1>8. u \in Seq(Steps) /\ Len(u) = Len(t) - 5 /\ \A i \in 1..Len(u) : u[i] = t[i + 5]
  BY <1>1, <1>7
<1> HIDE DEF u
<1>9. ASSUME NEW i \in 2..Len(u)
      PROVE /\ u[i - 1] \notin Finals
            /\ u[i - 1] = "look" <=> u[i] = "allocate"
            /\ u[i - 1] = "allocate" <=> u[i] = "point"
            /\ u[i - 1] = "point" <=> u[i] = "publish"
            /\ u[i - 1] = "publish" <=> u[i] = "mark"
  <2>1. PICK j : j = i + 5 OBVIOUS
  <2>2. j \in 2..Len(t) /\ u[i] = t[j] /\ u[i - 1] = t[j - 1] BY <1>1, <1>8, <2>1
  <2> QED BY <2>2 DEF Todo, Flows
<1>10. Flows(u) /\ u # <<>> BY <1>1, <1>7, <1>8, <1>9 DEF Flows
<1>11. u[Len(u)] = t[Len(t)] BY <1>1, <1>7, <1>8
<1>12. ASSUME NEW i \in 1..Len(u), u[i] \in Changes PROVE \E j \in (i + 1)..Len(u) : u[j] = "look"
  <2>1. t[i + 5] \in Changes /\ i + 5 \in 1..Len(t) BY <1>1, <1>8, <1>12
  <2>2. PICK j \in (i + 6)..Len(t) : t[j] = "look" BY <1>1, <2>1 DEF Todo, Follows
  <2>3. j - 5 \in (i + 1)..Len(u) /\ u[j - 5] = "look" BY <1>1, <1>8, <2>2
  <2> QED BY <2>3
<1>13. Todo(u) BY <1>1, <1>10, <1>11, <1>12 DEF Todo, Follows
<1>14. u[1] = t[6] BY <1>1, <1>7, <1>8
<1> QED BY <1>7, <1>11, <1>13, <1>14 DEF u, Final

(***************************************************************************)
(* The observation journal: its index.                                     *)
(***************************************************************************)
OpRecords == [todo : Seq(Steps), path : Observe!Paths, row : Observe!Rows, n : 0..MaxIndex]

\* An operation is of the receipt under its path; while it indexes it, it holds the entry that was
\* allocated last, and what it answers is published or still to be looked up, unless it is an audit
\* row of the learning lane.
Kept(r, ln) == ln = "learning" /\ r.status \in Observe!Audits
Fits(o, rs, hd, pt, ln, cu) ==
  /\ o \in OpRecords /\ Todo(o.todo)
  /\ \/ o.path = <<o.row.key>> /\ (rs[o.path] # Observe!NoRow => rs[o.path].body = o.row.body)
     \/ o.path = <<o.row.key, o.row.body>> /\ rs[<<o.row.key>>] # Observe!NoRow
  /\ rs[o.path] = Observe!NoRow => o.todo[1] = "save"
  /\ o.todo[1] \in {"point", "publish"} => o.n = hd.allocated /\ hd.published < hd.allocated
  /\ o.todo[1] = "publish" => pt[o.n] = o.row
  /\ o.todo[1] = "mark" => \E m \in 1..hd.published : pt[m] = o.row
  /\ Final(o.todo) = "answer" /\ ~ Kept(o.row, ln) =>
       (\E m \in 1..hd.published : pt[m] = o.row) \/ HasStep(o.todo, Opening)
  /\ Final(o.todo) = "advance" => cu < hd.published

OpFits ==
  \/ op = Observe!NoOp
  \/ op = [todo |-> <<"advance">>] /\ obCursor < head.published
  \/ Fits(op, rows, head, pointer, lane, obCursor)

\* The heads are in order, and the readers behind them.
HeadsOrdered ==
  /\ head.published <= head.allocated
  /\ obCursor <= head.published
  /\ reader \in [after : {0}, end : 0..MaxIndex, n : 0..MaxIndex,
                 seen : SUBSET (Observe!Rows \cup {Observe!NoRow})]
  /\ reader.n <= reader.end /\ reader.end <= head.published

\* A stored receipt is under its own key.
RowsKeyed(rs) ==
  \A p \in Observe!Paths : rs[p] # Observe!NoRow =>
    \/ p = <<rs[p].key>>
    \/ p = <<rs[p].key, rs[p].body>> /\ rs[<<rs[p].key>>] # Observe!NoRow

\* What the index names is stored.
StoredIs(e, rs) ==
  /\ rs[<<e.key>>] # Observe!NoRow
  /\ e.status = "conflict_audit" /\ rs[<<e.key>>].body # e.body => rs[<<e.key, e.body>>] # Observe!NoRow
EntriesStored(pt, rs) == \A m \in 1..MaxIndex : pt[m] # Observe!NoRow => StoredIs(pt[m], rs)

ObserveInv ==
  /\ Observe!TypeOK /\ HeadsOrdered
  /\ RowsKeyed(rows) /\ EntriesStored(pointer, rows)
  /\ marked \subseteq Observe!Published
  /\ Observe!NothingAppearsBehind /\ Observe!AnsweredIsPublished
  /\ OpFits

\* What holds whatever operation is under way.
ObserveBase ==
  /\ Observe!TypeOK /\ HeadsOrdered
  /\ RowsKeyed(rows) /\ EntriesStored(pointer, rows)
  /\ marked \subseteq Observe!Published
  /\ Observe!NothingAppearsBehind /\ Observe!AnsweredIsPublished

LEMMA ObserveInvIs == ObserveInv <=> ObserveBase /\ OpFits
BY DEF ObserveInv, ObserveBase

LEMMA NoRowIsNot == \A r \in Observe!Rows : r # Observe!NoRow
<1>1. \A r \in Observe!Rows : r.status \in {"accepted", "committed"} \cup Observe!Audits
  BY DEF Observe!Rows
<1>2. Observe!NoRow.status = "none" BY DEF Observe!NoRow
<1> QED BY <1>1, <1>2 DEF Observe!Audits

LEMMA PathsAre ==
  /\ \A k \in EventKeys : <<k>> \in Observe!Paths
  /\ \A k \in EventKeys, b \in Bodies : <<k, b>> \in Observe!Paths
BY DEF Observe!Paths

LEMMA PathsDiffer ==
  /\ \A k, l, b : <<k>> # <<l, b>>
  /\ \A k, l : <<k>> = <<l>> => k = l
  /\ \A k, l, b, c : <<k, b>> = <<l, c>> => k = l /\ b = c
<1>1. \A k, l, b : <<k>> # <<l, b>>
  <2> TAKE k, l, b
  <2>1. Len(<<k>>) = 1 /\ Len(<<l, b>>) = 2 OBVIOUS
  <2> QED BY <2>1
<1>2. \A k, l : <<k>> = <<l>> => k = l OBVIOUS
<1>3. \A k, l, b, c : <<k, b>> = <<l, c>> => k = l /\ b = c OBVIOUS
<1> QED BY <1>1, <1>2, <1>3

\* The fields of a record of an operation and what an update of one leaves.
LEMMA OpFields ==
  ASSUME NEW o \in OpRecords
  PROVE /\ o.todo \in Seq(Steps) /\ o.path \in Observe!Paths /\ o.row \in Observe!Rows /\ o.n \in 0..MaxIndex
        /\ o.row.key \in EventKeys /\ o.row.body \in Bodies
        /\ \A t \in Seq(Steps) :
             LET p == [o EXCEPT !.todo = t]
             IN p \in OpRecords /\ p.todo = t /\ p.path = o.path /\ p.row = o.row /\ p.n = o.n
        /\ \A r \in Observe!Rows :
             LET p == [o EXCEPT !.row = r]
             IN p \in OpRecords /\ p.todo = o.todo /\ p.path = o.path /\ p.row = r /\ p.n = o.n
        /\ \A m \in 0..MaxIndex :
             LET p == [o EXCEPT !.n = m]
             IN p \in OpRecords /\ p.todo = o.todo /\ p.path = o.path /\ p.row = o.row /\ p.n = m
<1>1. o.todo \in Seq(Steps) /\ o.path \in Observe!Paths /\ o.row \in Observe!Rows /\ o.n \in 0..MaxIndex
  BY DEF OpRecords
<1>2. o.row.key \in EventKeys /\ o.row.body \in Bodies BY <1>1 DEF Observe!Rows
<1>3. \A t \in Seq(Steps) :
             LET p == [o EXCEPT !.todo = t]
             IN p \in OpRecords /\ p.todo = t /\ p.path = o.path /\ p.row = o.row /\ p.n = o.n
  BY DEF OpRecords
<1>4. \A r \in Observe!Rows :
             LET p == [o EXCEPT !.row = r]
             IN p \in OpRecords /\ p.todo = o.todo /\ p.path = o.path /\ p.row = r /\ p.n = o.n
  BY DEF OpRecords
<1>5. \A m \in 0..MaxIndex :
             LET p == [o EXCEPT !.n = m]
             IN p \in OpRecords /\ p.todo = o.todo /\ p.path = o.path /\ p.row = o.row /\ p.n = m
  BY DEF OpRecords
<1> QED BY <1>1, <1>2, <1>3, <1>4, <1>5

\* An operation at one of its steps.
LEMMA AtStep ==
  ASSUME OpFits, NEW x, Observe!Doing(x), x # "advance"
  PROVE Fits(op, rows, head, pointer, lane, obCursor) /\ op \in OpRecords /\ Todo(op.todo) /\ op.todo[1] = x
<1>1. op # Observe!NoOp BY DEF Observe!Doing, Observe!NoOp
<1>2. op # [todo |-> <<"advance">>]
  <2>1. Head(<<"advance">>) = "advance" OBVIOUS
  <2> QED BY <2>1 DEF Observe!Doing
<1>3. Fits(op, rows, head, pointer, lane, obCursor) BY <1>1, <1>2 DEF OpFits
<1>4. op \in OpRecords /\ Todo(op.todo) BY <1>3 DEF Fits
<1>5. op.todo \in Seq(Steps) /\ op.todo # <<>> BY <1>4 DEF Todo, Flows
<1>6. op.todo[1] = x BY <1>5 DEF Observe!Doing
<1> QED BY <1>3, <1>4, <1>6

\* A step that leaves the index and the stored receipts alone.
LEMMA QuietStep ==
  ASSUME NEW o, NEW p, NEW rs, NEW hd, NEW pt, NEW ln, NEW cu,
         Fits(o, rs, hd, pt, ln, cu), o.todo[1] \notin Finals,
         o.todo[1] \notin {"save", "allocate", "point", "publish"},
         p \in OpRecords, p.path = o.path, p.row.key = o.row.key, p.row.body = o.row.body,
         p.todo = Tail(o.todo), p.row = o.row \/ o.todo[1] \in Changes
  PROVE Fits(p, rs, hd, pt, ln, cu)
<1>1. o \in OpRecords /\ Todo(o.todo) BY DEF Fits
<1>2. /\ Todo(p.todo) /\ Final(p.todo) = Final(o.todo)
      /\ p.todo[1] = "point" <=> o.todo[1] = "allocate"
      /\ p.todo[1] = "publish" <=> o.todo[1] = "point"
      /\ p.todo[1] = "mark" <=> o.todo[1] = "publish"
      /\ HasStep(o.todo, Opening) /\ o.todo[1] # "publish" => HasStep(p.todo, Opening)
      /\ o.todo[1] \in Changes => HasStep(p.todo, Opening)
  BY <1>1, TailOf
<1>3. rs[p.path] # Observe!NoRow BY DEF Fits
<1>4. \/ p.path = <<p.row.key>> /\ (rs[p.path] # Observe!NoRow => rs[p.path].body = p.row.body)
      \/ p.path = <<p.row.key, p.row.body>> /\ rs[<<p.row.key>>] # Observe!NoRow
  BY DEF Fits
<1>5. p.todo[1] \notin {"point", "publish", "mark"} BY <1>2
<1>6. Final(p.todo) = "answer" /\ ~ Kept(p.row, ln) =>
       (\E m \in 1..hd.published : pt[m] = p.row) \/ HasStep(p.todo, Opening)
  BY <1>2 DEF Fits
<1>7. Final(p.todo) = "advance" => cu < hd.published BY <1>2 DEF Fits
<1> QED BY <1>2, <1>3, <1>4, <1>5, <1>6, <1>7 DEF Fits

LEMMA KeepBase ==
  ASSUME ObserveBase, UNCHANGED <<lane, rows, head, pointer, marked, told, obCursor, reader>>,
         late' \in BOOLEAN, outcome' \subseteq EventKeys, closed' \in EventKeys \cup {Observe!NoKey},
         challenged' \subseteq EventKeys, calls' \in 0..MaxCalls
  PROVE ObserveBase'
<1>1. Observe!TypeOK' BY DEF ObserveBase, Observe!TypeOK
<1>2. HeadsOrdered' BY DEF ObserveBase, HeadsOrdered
<1>3. RowsKeyed(rows)' /\ EntriesStored(pointer, rows)' 
  BY DEF ObserveBase, RowsKeyed, EntriesStored, StoredIs
<1>4. (marked \subseteq Observe!Published)' BY DEF ObserveBase, Observe!Published
<1>5. Observe!NothingAppearsBehind' BY DEF ObserveBase, Observe!NothingAppearsBehind
<1>6. Observe!AnsweredIsPublished' BY DEF ObserveBase, Observe!AnsweredIsPublished, Observe!KeptForAudit, Observe!Published
<1> QED BY <1>1, <1>2, <1>3, <1>4, <1>5, <1>6 DEF ObserveBase

LEMMA DoneIs ==
  ASSUME NEW o \in OpRecords, Todo(o.todo), o.todo[1] \notin Finals
  PROVE LET p == [o EXCEPT !.todo = Tail(@)]
        IN /\ p \in OpRecords /\ p.todo = Tail(o.todo) /\ p.path = o.path /\ p.row = o.row /\ p.n = o.n
           /\ Todo(p.todo)
<1>1. Todo(Tail(o.todo)) BY TailOf
<1>2. Tail(o.todo) \in Seq(Steps) BY <1>1 DEF Todo, Flows
<1> QED BY <1>1, <1>2, OpFields

LEMMA DoneFits ==
  ASSUME NEW o, NEW rs, NEW hd, NEW pt, NEW ln, NEW cu,
         Fits(o, rs, hd, pt, ln, cu), o.todo[1] \notin Finals,
         o.todo[1] \notin {"save", "allocate", "point", "publish"}
  PROVE Fits([o EXCEPT !.todo = Tail(@)], rs, hd, pt, ln, cu)
<1>1. o \in OpRecords /\ Todo(o.todo) BY DEF Fits
<1>2. PICK p : p = [o EXCEPT !.todo = Tail(@)] OBVIOUS
<1>3. p \in OpRecords /\ p.todo = Tail(o.todo) /\ p.path = o.path /\ p.row = o.row BY <1>1, <1>2, DoneIs
<1>4. Fits(p, rs, hd, pt, ln, cu) BY <1>3, QuietStep
<1> QED BY <1>2, <1>4

LEMMA ObserveInit == Observe!Init => ObserveInv
<1> SUFFICES ASSUME Observe!Init PROVE ObserveInv OBVIOUS
<1>1. MaxIndex \in Nat /\ MaxCalls \in Nat BY ObserveAssumption DEF ObserveAssumption
<1>2. /\ lane \in Lanes /\ late = FALSE /\ rows = [p \in Observe!Paths |-> Observe!NoRow]
      /\ outcome = {} /\ closed = Observe!NoKey /\ challenged = {}
      /\ head = [allocated |-> 0, published |-> 0]
      /\ pointer = [n \in 1..MaxIndex |-> Observe!NoRow]
      /\ marked = {} /\ op = Observe!NoOp /\ calls = 0 /\ told = {} /\ obCursor = 0
      /\ reader = [after |-> 0, end |-> 0, n |-> 0, seen |-> {}]
  BY DEF Observe!Init
<1>3. head.allocated = 0 /\ head.published = 0 /\ reader.n = 0 /\ reader.end = 0 BY <1>2
<1>4. Observe!TypeOK
  <2>1. late \in BOOLEAN BY <1>2
  <2>2. rows \in [Observe!Paths -> Observe!Rows \cup {Observe!NoRow}] BY <1>2
  <2>3. head \in [allocated : 0..MaxIndex, published : 0..MaxIndex] BY <1>1, <1>2
  <2>4. pointer \in [1..MaxIndex -> Observe!Rows \cup {Observe!NoRow}] BY <1>2
  <2>5. calls \in 0..MaxCalls /\ obCursor \in 0..MaxIndex /\ reader.n \in 0..MaxIndex BY <1>1, <1>2, <1>3
  <2> QED BY <1>2, <2>1, <2>2, <2>3, <2>4, <2>5 DEF Observe!TypeOK
<1>5. HeadsOrdered BY <1>1, <1>2, <1>3 DEF HeadsOrdered
<1>6. RowsKeyed(rows) BY <1>2 DEF RowsKeyed
<1>7. EntriesStored(pointer, rows) BY <1>2 DEF EntriesStored
<1>8. Observe!NothingAppearsBehind BY <1>3 DEF Observe!NothingAppearsBehind
<1>9. Observe!AnsweredIsPublished BY <1>2 DEF Observe!AnsweredIsPublished
<1> QED BY <1>2, <1>4, <1>5, <1>6, <1>7, <1>8, <1>9 DEF ObserveInv, OpFits

\* Steps that leave the index, its readers and the operation alone.
LEMMA ObserveWindow ==
  ASSUME ObserveInv, Observe!WindowPasses PROVE ObserveInv'
<1>1. ObserveBase /\ OpFits BY ObserveInvIs
<1>2. UNCHANGED <<lane, rows, outcome, closed, challenged, head, pointer, marked, op, calls, told, obCursor, reader>>
      /\ late' = TRUE
  BY DEF Observe!WindowPasses, Observe!journal
<1>3. outcome' \subseteq EventKeys /\ closed' \in EventKeys \cup {Observe!NoKey} /\ challenged' \subseteq EventKeys
      /\ calls' \in 0..MaxCalls
  BY <1>1, <1>2 DEF ObserveBase, Observe!TypeOK
<1>4. ObserveBase' BY <1>1, <1>2, <1>3, KeepBase
<1>5. OpFits' BY <1>1, <1>2 DEF OpFits
<1> QED BY <1>4, <1>5 DEF ObserveInv, ObserveBase

LEMMA ObserveQuiet ==
  ASSUME ObserveInv, UNCHANGED Observe!outside, UNCHANGED Observe!journal
  PROVE ObserveBase'
<1>1. ObserveBase BY ObserveInvIs
<1>2. UNCHANGED <<lane, late, rows, outcome, closed, challenged, head, pointer, marked, calls, told, obCursor, reader>>
  BY DEF Observe!outside, Observe!journal
<1>3. late \in BOOLEAN /\ outcome \subseteq EventKeys /\ closed \in EventKeys \cup {Observe!NoKey} /\ challenged \subseteq EventKeys
      /\ calls \in 0..MaxCalls
  BY <1>1 DEF ObserveBase, Observe!TypeOK
<1> QED BY <1>1, <1>2, <1>3, KeepBase

LEMMA ObserveStops ==
  ASSUME ObserveInv, Observe!Refuse \/ Observe!Fail PROVE ObserveInv'
<1>1. ObserveBase' /\ op' = Observe!NoOp BY ObserveQuiet DEF Observe!Refuse, Observe!Fail
<1> QED BY <1>1 DEF ObserveInv, ObserveBase, OpFits

\* The steps that change neither the index nor the stored receipts.
LEMMA ObserveChallenge ==
  ASSUME ObserveInv, Observe!Challenge PROVE ObserveInv'
<1>1. ObserveBase /\ OpFits BY ObserveInvIs
<1>2. UNCHANGED <<lane, late, rows, outcome, closed, head, pointer, marked, calls, told, obCursor, reader>>
      /\ op' = Observe!Done /\ Observe!Doing("challenge") /\ challenged' \subseteq challenged \cup {Original}
  BY DEF Observe!Challenge, Observe!outside
<1>3. late \in BOOLEAN /\ outcome \subseteq EventKeys /\ closed \in EventKeys \cup {Observe!NoKey} /\ challenged \subseteq EventKeys
      /\ calls \in 0..MaxCalls
  BY <1>1 DEF ObserveBase, Observe!TypeOK
<1>4. challenged' \subseteq EventKeys BY <1>2, <1>3, ObserveAssumption DEF ObserveAssumption
<1>5. ObserveBase' BY <1>1, <1>2, <1>3, <1>4, KeepBase
<1>6. Fits(op, rows, head, pointer, lane, obCursor) /\ op \in OpRecords /\ Todo(op.todo) /\ op.todo[1] = "challenge"
  BY <1>1, <1>2, AtStep
<1>7. Fits(op', rows, head, pointer, lane, obCursor) BY <1>2, <1>6, DoneFits DEF Finals, Observe!Done
<1> QED BY <1>2, <1>5, <1>7 DEF ObserveInv, ObserveBase, OpFits

LEMMA ObserveReconcile ==
  ASSUME ObserveInv, Observe!Reconcile PROVE ObserveInv'
<1>1. ObserveBase /\ OpFits BY ObserveInvIs
<1>2. UNCHANGED <<lane, late, rows, outcome, challenged, head, pointer, marked, calls, told, obCursor, reader>>
      /\ (op' = Observe!Done \/ op' = Observe!NoOp) /\ Observe!Doing("reconcile") /\ closed' \in {closed, op.row.key}
  BY DEF Observe!Reconcile, Observe!outside
<1>3. late \in BOOLEAN /\ outcome \subseteq EventKeys /\ closed \in EventKeys \cup {Observe!NoKey} /\ challenged \subseteq EventKeys
      /\ calls \in 0..MaxCalls
  BY <1>1 DEF ObserveBase, Observe!TypeOK
<1>4. Fits(op, rows, head, pointer, lane, obCursor) /\ op \in OpRecords /\ Todo(op.todo) /\ op.todo[1] = "reconcile"
  BY <1>1, <1>2, AtStep
<1>5. closed' \in EventKeys \cup {Observe!NoKey} BY <1>2, <1>3, <1>4, OpFields
<1>6. ObserveBase' BY <1>1, <1>2, <1>3, <1>5, KeepBase
<1>7. Fits(Observe!Done, rows, head, pointer, lane, obCursor) BY <1>4, DoneFits DEF Finals, Observe!Done
<1> QED BY <1>2, <1>6, <1>7 DEF ObserveInv, ObserveBase, OpFits

LEMMA ObserveLook ==
  ASSUME ObserveInv, Observe!Look PROVE ObserveInv'
<1>1. ObserveBase /\ OpFits BY ObserveInvIs
<1>2. ObserveBase' BY ObserveQuiet DEF Observe!Look
<1>3. UNCHANGED <<lane, rows, head, pointer, marked, obCursor>> /\ Observe!Doing("look")
  BY DEF Observe!Look, Observe!outside, Observe!journal
<1>4. Fits(op, rows, head, pointer, lane, obCursor) /\ op \in OpRecords /\ Todo(op.todo) /\ op.todo[1] = "look"
  BY <1>1, <1>3, AtStep
<1>5. op.todo \in Seq(Steps) BY <1>4, OpFields
<1>6. CASE op.row \notin marked
  <2>1. op' = [op EXCEPT !.todo = Tail(@)] BY <1>6 DEF Observe!Look
  <2>2. Fits(op', rows, head, pointer, lane, obCursor) BY <1>4, <2>1, DoneFits DEF Finals
  <2> QED BY <1>2, <1>3, <2>2 DEF ObserveInv, ObserveBase, OpFits
<1>7. CASE op.row \in marked
  <2>1. Len(Observe!IndexAt) = 5 BY DEF Observe!IndexAt
  <2>2. PICK s : s = SubSeq(op.todo, 6, Len(op.todo)) OBVIOUS
  <2>3. op' = [op EXCEPT !.todo = s]
    <3>1. op' = [op EXCEPT !.todo = SubSeq(op.todo, Len(Observe!IndexAt) + 1, Len(op.todo))] BY <1>7 DEF Observe!Look
    <3>2. Len(Observe!IndexAt) + 1 = 6 BY <2>1
    <3> QED BY <2>2, <3>1, <3>2
  <2>4. Todo(s) /\ Final(s) = Final(op.todo) /\ s[1] \notin Middles BY <1>4, <2>2, SkipOf
  <2>5. s \in Seq(Steps) BY <2>4 DEF Todo, Flows
  <2>6. op' \in OpRecords /\ op'.todo = s /\ op'.path = op.path /\ op'.row = op.row /\ op'.n = op.n
    BY <1>4, <2>3, <2>5, OpFields
  <2>7. \E m \in 1..head.published : pointer[m] = op.row
    BY <1>1, <1>7 DEF ObserveBase, Observe!Published
  <2>8. rows[op.path] # Observe!NoRow BY <1>4 DEF Fits
  <2>9. \/ op'.path = <<op'.row.key>> /\ (rows[op'.path] # Observe!NoRow => rows[op'.path].body = op'.row.body)
        \/ op'.path = <<op'.row.key, op'.row.body>> /\ rows[<<op'.row.key>>] # Observe!NoRow
    BY <1>4, <2>6 DEF Fits
  <2>10. Final(op'.todo) = "advance" => obCursor < head.published BY <1>4, <2>4, <2>6 DEF Fits
  <2>11. op'.todo[1] \notin {"point", "publish", "mark"} BY <2>4, <2>6 DEF Middles
  <2>12. Fits(op', rows, head, pointer, lane, obCursor)
    BY <2>4, <2>6, <2>7, <2>8, <2>9, <2>10, <2>11 DEF Fits
  <2> QED BY <1>2, <1>3, <2>12 DEF ObserveInv, ObserveBase, OpFits
<1> QED BY <1>6, <1>7

\* What is published stays published.
LEMMA ObserveMark ==
  ASSUME ObserveInv, Observe!Mark PROVE ObserveInv'
<1>1. ObserveBase /\ OpFits BY ObserveInvIs
<1>2. UNCHANGED <<lane, late, rows, outcome, closed, challenged, head, pointer, calls, told, obCursor, reader>>
      /\ op' = Observe!Done /\ Observe!Doing("mark") /\ marked' = marked \cup {op.row}
  BY DEF Observe!Mark, Observe!outside
<1>3. Fits(op, rows, head, pointer, lane, obCursor) /\ op \in OpRecords /\ Todo(op.todo) /\ op.todo[1] = "mark"
  BY <1>1, <1>2, AtStep
<1>4. \E m \in 1..head.published : pointer[m] = op.row BY <1>3 DEF Fits
<1>5. op.row \in Observe!Published BY <1>4 DEF Observe!Published
<1>6. op.row \in Observe!Rows BY <1>3, OpFields
<1>7. Observe!TypeOK' BY <1>1, <1>2, <1>6 DEF ObserveBase, Observe!TypeOK
<1>8. HeadsOrdered' BY <1>1, <1>2 DEF ObserveBase, HeadsOrdered
<1>9. RowsKeyed(rows)' /\ EntriesStored(pointer, rows)' 
  BY <1>1, <1>2 DEF ObserveBase, RowsKeyed, EntriesStored, StoredIs
<1>10. (marked \subseteq Observe!Published)' BY <1>1, <1>2, <1>5 DEF ObserveBase, Observe!Published
<1>11. Observe!NothingAppearsBehind' BY <1>1, <1>2 DEF ObserveBase, Observe!NothingAppearsBehind
<1>12. Observe!AnsweredIsPublished' BY <1>1, <1>2 DEF ObserveBase, Observe!AnsweredIsPublished, Observe!KeptForAudit, Observe!Published
<1>13. Fits(op', rows, head, pointer, lane, obCursor) BY <1>2, <1>3, DoneFits DEF Finals, Observe!Done
<1>14. OpFits' BY <1>2, <1>13 DEF OpFits
<1> QED BY <1>7, <1>8, <1>9, <1>10, <1>11, <1>12, <1>14 DEF ObserveInv

LEMMA ObserveAnswer ==
  ASSUME ObserveInv, Observe!Answer PROVE ObserveInv'
<1>1. ObserveBase /\ OpFits BY ObserveInvIs
<1>2. UNCHANGED <<lane, late, rows, outcome, closed, challenged, head, pointer, marked, calls, obCursor, reader>>
      /\ op' = Observe!NoOp /\ Observe!Doing("answer") /\ told' = told \cup {op.row}
  BY DEF Observe!Answer, Observe!journal
<1>3. Fits(op, rows, head, pointer, lane, obCursor) /\ op \in OpRecords /\ Todo(op.todo) /\ op.todo[1] = "answer"
  BY <1>1, <1>2, AtStep
<1>4. op.row \in Observe!Rows BY <1>3, OpFields
<1>5. Final(op.todo) = "answer" /\ ~ HasStep(op.todo, Opening)
  <2>1. op.todo \in Seq(Steps) /\ Len(op.todo) \in Nat /\ Len(op.todo) > 0
        /\ \A i \in 2..Len(op.todo) : op.todo[i - 1] \notin Finals
    BY <1>3 DEF Todo, Flows
  <2>2. Len(op.todo) = 1
    <3>1. ASSUME Len(op.todo) >= 2 PROVE FALSE
      <4>1. 2 \in 2..Len(op.todo) /\ 2 - 1 = 1 BY <2>1, <3>1
      <4>2. op.todo[1] \notin Finals BY <2>1, <4>1
      <4> QED BY <1>3, <4>2 DEF Finals
    <3>2. PICK l : l = Len(op.todo) OBVIOUS
    <3>3. l \in Nat /\ l > 0 /\ ~ (l >= 2) BY <2>1, <3>1, <3>2
    <3>4. l = 1 BY <3>3
    <3> QED BY <3>2, <3>4
  <2> QED BY <1>3, <2>1, <2>2 DEF Final, HasStep, Opening
<1>6. op.row \in Observe!Published \/ Observe!KeptForAudit(op.row)
  BY <1>3, <1>5 DEF Fits, Kept, Observe!Published, Observe!KeptForAudit
<1>7. Observe!TypeOK' BY <1>1, <1>2, <1>4 DEF ObserveBase, Observe!TypeOK
<1>8. HeadsOrdered' BY <1>1, <1>2 DEF ObserveBase, HeadsOrdered
<1>9. RowsKeyed(rows)' /\ EntriesStored(pointer, rows)' 
  BY <1>1, <1>2 DEF ObserveBase, RowsKeyed, EntriesStored, StoredIs
<1>10. (marked \subseteq Observe!Published)' BY <1>1, <1>2 DEF ObserveBase, Observe!Published
<1>11. Observe!NothingAppearsBehind' BY <1>1, <1>2 DEF ObserveBase, Observe!NothingAppearsBehind
<1>12. Observe!AnsweredIsPublished'
  BY <1>1, <1>2, <1>6 DEF ObserveBase, Observe!AnsweredIsPublished, Observe!KeptForAudit, Observe!Published
<1> QED BY <1>2, <1>7, <1>8, <1>9, <1>10, <1>11, <1>12 DEF ObserveInv, OpFits

LEMMA ObserveSignal ==
  ASSUME ObserveInv, Observe!Signal PROVE ObserveInv'
<1>1. ObserveBase /\ OpFits BY ObserveInvIs
<1>2. ObserveBase' BY ObserveQuiet DEF Observe!Signal
<1>3. UNCHANGED <<lane, rows, head, pointer, obCursor>> /\ Observe!Doing("signal")
  BY DEF Observe!Signal, Observe!outside, Observe!journal
<1>4. Fits(op, rows, head, pointer, lane, obCursor) /\ op \in OpRecords /\ Todo(op.todo) /\ op.todo[1] = "signal"
  BY <1>1, <1>3, AtStep
<1>5. PICK p : p = [op EXCEPT !.todo = Tail(@)] OBVIOUS
<1>6. p \in OpRecords /\ p.todo = Tail(op.todo) /\ p.path = op.path /\ p.row = op.row
  BY <1>4, <1>5, DoneIs DEF Finals
<1>7. PICK r : r = [p.row EXCEPT !.pending = FALSE] OBVIOUS
<1>8. r \in Observe!Rows /\ r.key = p.row.key /\ r.body = p.row.body
  <2>1. p.row \in Observe!Rows BY <1>6, OpFields
  <2> QED BY <1>7, <2>1 DEF Observe!Rows
<1>9. op' = [p EXCEPT !.row = r] BY <1>5, <1>7 DEF Observe!Signal, Observe!Done
<1>10. op' \in OpRecords /\ op'.todo = p.todo /\ op'.path = p.path /\ op'.row = r BY <1>6, <1>8, <1>9, OpFields
<1>11. Fits(op', rows, head, pointer, lane, obCursor)
  BY <1>4, <1>6, <1>8, <1>10, QuietStep DEF Finals, Changes
<1> QED BY <1>2, <1>3, <1>11 DEF ObserveInv, ObserveBase, OpFits

\* The list a commit leaves that came past the cutoff.
LEMMA LateTodo ==
  LET s == <<"save">> \o Observe!Index \o <<"answer">>
  IN Todo(s) /\ Final(s) = "answer" /\ s[1] = "save" /\ HasStep(s, Opening)
<1>1. PICK a : a = <<"answer">> OBVIOUS
<1>2. a \in Seq(Steps) /\ Flows(a) /\ a # <<>> /\ a[1] \notin Middles /\ Follows(a) /\ Final(a) = "answer"
  BY <1>1, FinalSteps DEF Finals
<1>3. PICK i : i = Observe!Index OBVIOUS
<1>4. Piece(i) /\ Follows(i) /\ HasStep(i, {"look"}) BY <1>3, IndexPieces
<1>5. PICK v : v = <<"save">> OBVIOUS
<1>6. Piece(v) /\ Follows(v) /\ v \in Seq(Steps) BY <1>5, SmallPieces
<1>7. i \in Seq(Steps) BY <1>4 DEF Piece, Flows
<1>8. Piece(v \o i) BY <1>4, <1>6, PiecesJoin
<1>9. Follows(v \o i) BY <1>4, <1>6, <1>7, FollowsJoin
<1>10. PICK w : w = v \o i OBVIOUS
<1>11. w \in Seq(Steps) BY <1>6, <1>7, <1>10
<1>12. Todo(w \o a) /\ Final(w \o a) = "answer"
  BY <1>2, <1>8, <1>9, <1>10, PieceThenTodo DEF Finals
<1>13. (w \o a)[1] = "save" BY <1>1, <1>2, <1>5, <1>6, <1>7, <1>10, <1>11
<1>14. HasStep(w, {"look"}) BY <1>4, <1>6, <1>7, <1>10, HasJoin
<1>15. HasStep(w \o a, {"look"}) BY <1>2, <1>11, <1>14, HasJoin
<1>16. HasStep(w \o a, Opening) BY <1>15 DEF HasStep, Opening
<1> QED BY <1>1, <1>3, <1>5, <1>10, <1>12, <1>13, <1>16

LEMMA ObserveCommit ==
  ASSUME ObserveInv, Observe!Commit PROVE ObserveInv'
<1>1. ObserveBase /\ OpFits BY ObserveInvIs
<1>2. UNCHANGED <<lane, late, rows, closed, challenged, head, pointer, marked, calls, told, obCursor, reader>>
      /\ Observe!Doing("commit") /\ outcome' \subseteq outcome \cup {op.row.key}
  BY DEF Observe!Commit, Observe!outside
<1>3. Fits(op, rows, head, pointer, lane, obCursor) /\ op \in OpRecords /\ Todo(op.todo) /\ op.todo[1] = "commit"
  BY <1>1, <1>2, AtStep
<1>4. late \in BOOLEAN /\ outcome \subseteq EventKeys /\ closed \in EventKeys \cup {Observe!NoKey} /\ challenged \subseteq EventKeys
      /\ calls \in 0..MaxCalls
  BY <1>1 DEF ObserveBase, Observe!TypeOK
<1>5. outcome' \subseteq EventKeys BY <1>2, <1>3, <1>4, OpFields
<1>6. ObserveBase' BY <1>1, <1>2, <1>4, <1>5, KeepBase
<1>7. CASE op' = Observe!NoOp BY <1>6, <1>7 DEF ObserveInv, ObserveBase, OpFits
<1>8. CASE op' = [Observe!Done EXCEPT !.row.committed = TRUE, !.row.status = "committed"]
  <2>1. PICK p : p = [op EXCEPT !.todo = Tail(@)] OBVIOUS
  <2>2. p \in OpRecords /\ p.todo = Tail(op.todo) /\ p.path = op.path /\ p.row = op.row
    BY <1>3, <2>1, DoneIs DEF Finals
  <2>3. PICK r : r = [[op.row EXCEPT !.committed = TRUE] EXCEPT !.status = "committed"] OBVIOUS
  <2>4. r \in Observe!Rows /\ r.key = op.row.key /\ r.body = op.row.body
    <3>1. op.row \in Observe!Rows BY <1>3, OpFields
    <3>2. PICK q : q = [op.row EXCEPT !.committed = TRUE] OBVIOUS
    <3>3. q \in Observe!Rows /\ q.key = op.row.key /\ q.body = op.row.body BY <3>1, <3>2 DEF Observe!Rows
    <3>4. r = [q EXCEPT !.status = "committed"] BY <2>3, <3>2
    <3> QED BY <3>3, <3>4 DEF Observe!Rows
  <2>5. op' = [p EXCEPT !.row = r]
    <3>1. op' = [[p EXCEPT !.row.committed = TRUE] EXCEPT !.row.status = "committed"]
      BY <1>8, <2>1 DEF Observe!Done
    <3>2. [p EXCEPT !.row.committed = TRUE] = [p EXCEPT !.row = [op.row EXCEPT !.committed = TRUE]] BY <2>2
    <3>3. PICK q : q = [op.row EXCEPT !.committed = TRUE] OBVIOUS
    <3>4. q \in Observe!Rows
      <4>1. op.row \in Observe!Rows BY <1>3, OpFields
      <4> QED BY <3>3, <4>1 DEF Observe!Rows
    <3>5. PICK z : z = [p EXCEPT !.row = q] OBVIOUS
    <3>6. z \in OpRecords /\ z.row = q BY <2>2, <3>4, <3>5, OpFields
    <3>7. op' = [z EXCEPT !.row.status = "committed"] BY <3>1, <3>2, <3>3, <3>5
    <3>8. op' = [z EXCEPT !.row = r] BY <2>3, <3>3, <3>6, <3>7
    <3> QED BY <2>2, <3>5, <3>8 DEF OpRecords
  <2>6. op' \in OpRecords /\ op'.todo = p.todo /\ op'.path = p.path /\ op'.row = r BY <2>2, <2>4, <2>5, OpFields
  <2>7. Fits(op', rows, head, pointer, lane, obCursor)
    BY <1>3, <2>2, <2>4, <2>6, QuietStep DEF Finals, Changes
  <2> QED BY <1>2, <1>6, <2>7 DEF ObserveInv, ObserveBase, OpFits
<1>9. CASE /\ lane = "learning"
           /\ op' = [op EXCEPT !.row.status = "late_audit", !.todo = <<"save">> \o Observe!Index \o <<"answer">>]
  <2>1. PICK s : s = <<"save">> \o Observe!Index \o <<"answer">> OBVIOUS
  <2>2. Todo(s) /\ Final(s) = "answer" /\ s[1] = "save" /\ HasStep(s, Opening) BY <2>1, LateTodo
  <2>3. s \in Seq(Steps) BY <2>2 DEF Todo, Flows
  <2>4. PICK r : r = [op.row EXCEPT !.status = "late_audit"] OBVIOUS
  <2>5. r \in Observe!Rows /\ r.key = op.row.key /\ r.body = op.row.body
    <3>1. op.row \in Observe!Rows BY <1>3, OpFields
    <3> QED BY <2>4, <3>1 DEF Observe!Rows, Observe!Audits
  <2>6. op' = [[op EXCEPT !.row = r] EXCEPT !.todo = s] BY <1>9, <2>1, <2>4
  <2>7. PICK z : z = [op EXCEPT !.row = r] OBVIOUS
  <2>8. z \in OpRecords /\ z.path = op.path /\ z.row = r BY <1>3, <2>5, <2>7, OpFields
  <2>9. op' \in OpRecords /\ op'.todo = s /\ op'.path = op.path /\ op'.row = r
    <3>1. op' = [z EXCEPT !.todo = s] BY <2>6, <2>7
    <3>2. op' \in OpRecords /\ op'.todo = s /\ op'.path = z.path /\ op'.row = z.row BY <2>3, <2>8, <3>1, OpFields
    <3> QED BY <2>8, <3>2
  <2>10. \/ op'.path = <<op'.row.key>> /\ (rows[op'.path] # Observe!NoRow => rows[op'.path].body = op'.row.body)
         \/ op'.path = <<op'.row.key, op'.row.body>> /\ rows[<<op'.row.key>>] # Observe!NoRow
    BY <1>3, <2>5, <2>9 DEF Fits
  <2>11. Fits(op', rows, head, pointer, lane, obCursor) BY <1>9, <2>2, <2>9, <2>10 DEF Fits
  <2> QED BY <1>2, <1>6, <2>11 DEF ObserveInv, ObserveBase, OpFits
<1> QED BY <1>7, <1>8, <1>9 DEF Observe!Commit

\* A walk behind the published head.
LEMMA ObserveAdvance ==
  ASSUME ObserveInv, Observe!AdvanceCursor PROVE ObserveInv'
<1>1. ObserveBase /\ OpFits BY ObserveInvIs
<1>2. UNCHANGED <<lane, late, rows, outcome, closed, challenged, head, pointer, marked, calls, told, reader>>
      /\ op' = Observe!NoOp /\ Observe!Doing("advance") /\ obCursor' = obCursor + 1
  BY DEF Observe!AdvanceCursor, Observe!journal
<1>3. obCursor < head.published
  <2>1. op # Observe!NoOp BY <1>2 DEF Observe!Doing, Observe!NoOp
  <2>2. ASSUME Fits(op, rows, head, pointer, lane, obCursor) PROVE obCursor < head.published
    <3>1. Todo(op.todo) BY <2>2 DEF Fits
    <3>2. op.todo \in Seq(Steps) /\ Len(op.todo) \in Nat /\ Len(op.todo) > 0
          /\ \A i \in 2..Len(op.todo) : op.todo[i - 1] \notin Finals
      BY <3>1 DEF Todo, Flows
    <3>3. op.todo[1] = "advance" BY <1>2, <3>2 DEF Observe!Doing
    <3>4. ASSUME Len(op.todo) >= 2 PROVE FALSE
      <4>1. 2 \in 2..Len(op.todo) /\ 2 - 1 = 1 BY <3>2, <3>4
      <4>2. op.todo[1] \notin Finals BY <3>2, <4>1
      <4> QED BY <3>3, <4>2 DEF Finals
    <3>5. Len(op.todo) = 1
      <4>1. PICK l : l = Len(op.todo) OBVIOUS
      <4>2. l \in Nat /\ l > 0 /\ ~ (l >= 2) BY <3>2, <3>4, <4>1
      <4>3. l = 1 BY <4>2
      <4> QED BY <4>1, <4>3
    <3> QED BY <2>2, <3>3, <3>5 DEF Fits, Final
  <2> QED BY <1>1, <2>1, <2>2 DEF OpFits
<1>4. head.published \in 0..MaxIndex /\ obCursor \in 0..MaxIndex /\ MaxIndex \in Nat
  BY <1>1, ObserveAssumption DEF ObserveBase, Observe!TypeOK, ObserveAssumption
<1>5. obCursor' \in 0..MaxIndex /\ obCursor' <= head.published BY <1>2, <1>3, <1>4
<1>6. Observe!TypeOK' BY <1>1, <1>2, <1>5 DEF ObserveBase, Observe!TypeOK
<1>7. HeadsOrdered' BY <1>1, <1>2, <1>5 DEF ObserveBase, HeadsOrdered
<1>8. RowsKeyed(rows)' /\ EntriesStored(pointer, rows)' 
  BY <1>1, <1>2 DEF ObserveBase, RowsKeyed, EntriesStored, StoredIs
<1>9. (marked \subseteq Observe!Published)' BY <1>1, <1>2 DEF ObserveBase, Observe!Published
<1>10. Observe!NothingAppearsBehind' BY <1>1, <1>2 DEF ObserveBase, Observe!NothingAppearsBehind
<1>11. Observe!AnsweredIsPublished' BY <1>1, <1>2 DEF ObserveBase, Observe!AnsweredIsPublished, Observe!KeptForAudit, Observe!Published
<1> QED BY <1>2, <1>6, <1>7, <1>8, <1>9, <1>10, <1>11 DEF ObserveInv, OpFits

Readers == [after : {0}, end : 0..MaxIndex, n : 0..MaxIndex,
            seen : SUBSET (Observe!Rows \cup {Observe!NoRow})]

LEMMA ReaderMoves ==
  ASSUME ObserveInv, UNCHANGED <<lane, late, rows, outcome, closed, challenged, head, pointer, marked, op,
                                 calls, told, obCursor>>,
         reader' \in Readers, reader'.n <= reader'.end, reader'.end <= head.published,
         \A m \in 1..reader'.n : pointer[m] # Observe!NoRow => pointer[m] \in reader'.seen
  PROVE ObserveInv'
<1>1. ObserveBase /\ OpFits BY ObserveInvIs
<1>2. reader'.n \in 0..MaxIndex BY DEF Readers
<1>3. Observe!TypeOK' BY <1>1, <1>2 DEF ObserveBase, Observe!TypeOK
<1>4. HeadsOrdered' BY <1>1 DEF ObserveBase, HeadsOrdered, Readers
<1>5. RowsKeyed(rows)' /\ EntriesStored(pointer, rows)' 
  BY <1>1 DEF ObserveBase, RowsKeyed, EntriesStored, StoredIs
<1>6. (marked \subseteq Observe!Published)' BY <1>1 DEF ObserveBase, Observe!Published
<1>7. Observe!NothingAppearsBehind' BY DEF Observe!NothingAppearsBehind
<1>8. Observe!AnsweredIsPublished' BY <1>1 DEF ObserveBase, Observe!AnsweredIsPublished, Observe!KeptForAudit, Observe!Published
<1>9. OpFits' BY <1>1 DEF OpFits
<1> QED BY <1>3, <1>4, <1>5, <1>6, <1>7, <1>8, <1>9 DEF ObserveInv

LEMMA ObserveReads ==
  ASSUME ObserveInv, Observe!ReadHead \/ Observe!ReadEntry PROVE ObserveInv'
<1>1. UNCHANGED <<lane, late, rows, outcome, closed, challenged, head, pointer, marked, op, calls, told, obCursor>>
  BY DEF Observe!ReadHead, Observe!ReadEntry, Observe!journal
<1>2. /\ reader \in Readers /\ reader.n <= reader.end /\ reader.end <= head.published
      /\ head.published \in 0..MaxIndex /\ MaxIndex \in Nat
      /\ pointer \in [1..MaxIndex -> Observe!Rows \cup {Observe!NoRow}]
  BY ObserveAssumption DEF ObserveInv, HeadsOrdered, Readers, Observe!TypeOK, ObserveAssumption
<1>3. reader.n \in 0..MaxIndex /\ reader.end \in 0..MaxIndex BY <1>2 DEF Readers
<1>4. \A m \in 1..reader.n : pointer[m] # Observe!NoRow => pointer[m] \in reader.seen
  BY DEF ObserveInv, Observe!NothingAppearsBehind
<1>5. CASE Observe!ReadHead
  <2>1. reader' = [reader EXCEPT !.end = head.published] BY <1>5 DEF Observe!ReadHead
  <2>2. reader' \in Readers BY <1>2, <2>1 DEF Readers
  <2>3. reader'.end = head.published /\ reader'.n = reader.n /\ reader'.seen = reader.seen
    BY <1>2, <2>1 DEF Readers
  <2>4. reader'.n <= reader'.end BY <1>2, <1>3, <2>3
  <2> QED BY <1>1, <1>2, <1>4, <2>2, <2>3, <2>4, ReaderMoves
<1>6. CASE Observe!ReadEntry
  <2>1. /\ reader.n < reader.end
        /\ reader' = [reader EXCEPT !.n = @ + 1, !.seen = @ \union {pointer[reader.n + 1]}]
    BY <1>6 DEF Observe!ReadEntry
  <2>2. PICK z : z = [reader EXCEPT !.n = @ + 1] OBVIOUS
  <2>3. z \in Readers /\ z.n = reader.n + 1 /\ z.seen = reader.seen /\ z.end = reader.end
    <3>1. reader.n + 1 \in 0..MaxIndex BY <1>2, <1>3, <2>1
    <3> QED BY <1>2, <2>2, <3>1 DEF Readers
  <2>4. reader' = [z EXCEPT !.seen = reader.seen \cup {pointer[reader.n + 1]}]
    BY <1>2, <2>1, <2>2, <2>3 DEF Readers
  <2>5. pointer[reader.n + 1] \in Observe!Rows \cup {Observe!NoRow}
    <3>1. reader.n + 1 \in 1..MaxIndex BY <1>2, <1>3, <2>1
    <3> QED BY <1>2, <3>1
  <2>6. reader' \in Readers /\ reader'.n = reader.n + 1 /\ reader'.end = reader.end
        /\ reader'.seen = reader.seen \cup {pointer[reader.n + 1]}
    <3>1. reader.seen \cup {pointer[reader.n + 1]} \in SUBSET (Observe!Rows \cup {Observe!NoRow})
      <4>1. reader.seen \in SUBSET (Observe!Rows \cup {Observe!NoRow}) BY <1>2 DEF Readers
      <4> QED BY <2>5, <4>1
    <3> QED BY <2>3, <2>4, <3>1 DEF Readers
  <2>7. reader'.n <= reader'.end /\ reader'.end <= head.published BY <1>2, <1>3, <2>1, <2>6
  <2>8. ASSUME NEW m \in 1..reader'.n, pointer[m] # Observe!NoRow PROVE pointer[m] \in reader'.seen
    <3>1. m \in 1..reader.n \/ m = reader.n + 1 BY <1>3, <2>6
    <3> QED BY <1>4, <2>6, <2>8, <3>1
  <2> QED BY <1>1, <2>6, <2>7, <2>8, ReaderMoves
<1> QED BY <1>5, <1>6

\* An operation stores the receipt it has: under its own key, with the content the key has.
LEMMA ObserveSave ==
  ASSUME ObserveInv, Observe!Save PROVE ObserveInv'
<1>1. ObserveBase /\ OpFits BY ObserveInvIs
<1>2. UNCHANGED <<lane, late, outcome, closed, challenged, head, pointer, marked, calls, told, obCursor, reader>>
      /\ op' = Observe!Done /\ Observe!Doing("save") /\ rows' = [rows EXCEPT ![op.path] = op.row]
  BY DEF Observe!Save, Observe!outside
<1>3. Fits(op, rows, head, pointer, lane, obCursor) /\ op \in OpRecords /\ Todo(op.todo) /\ op.todo[1] = "save"
  BY <1>1, <1>2, AtStep
<1>4. op.path \in Observe!Paths /\ op.row \in Observe!Rows /\ op.row.key \in EventKeys /\ op.row.body \in Bodies
  BY <1>3, OpFields
<1>5. rows \in [Observe!Paths -> Observe!Rows \cup {Observe!NoRow}]
      /\ pointer \in [1..MaxIndex -> Observe!Rows \cup {Observe!NoRow}]
  BY <1>1 DEF ObserveBase, Observe!TypeOK
<1>6. op.row # Observe!NoRow BY <1>4, NoRowIsNot
<1>7. /\ rows' \in [Observe!Paths -> Observe!Rows \cup {Observe!NoRow}]
      /\ rows'[op.path] = op.row
      /\ \A p \in Observe!Paths : p # op.path => rows'[p] = rows[p]
  BY <1>2, <1>4, <1>5
<1>8. \A p \in Observe!Paths : rows[p] # Observe!NoRow => rows'[p] # Observe!NoRow BY <1>6, <1>7
<1>9. \A k \in EventKeys : rows[<<k>>] # Observe!NoRow => rows'[<<k>>].body = rows[<<k>>].body
  <2> SUFFICES ASSUME NEW k \in EventKeys, rows[<<k>>] # Observe!NoRow PROVE rows'[<<k>>].body = rows[<<k>>].body
    OBVIOUS
  <2>1. <<k>> \in Observe!Paths BY PathsAre
  <2>2. CASE op.path # <<k>> BY <1>7, <2>1, <2>2
  <2>3. CASE op.path = <<k>>
    <3>1. op.path = <<op.row.key>> /\ rows[op.path].body = op.row.body
      <4>1. op.path # <<op.row.key, op.row.body>> BY <2>3, PathsDiffer
      <4> QED BY <1>3, <2>3, <4>1 DEF Fits
    <3> QED BY <1>7, <2>3, <3>1
  <2> QED BY <2>2, <2>3
<1>10. Observe!TypeOK' BY <1>1, <1>2, <1>7 DEF ObserveBase, Observe!TypeOK
<1>11. HeadsOrdered' BY <1>1, <1>2 DEF ObserveBase, HeadsOrdered
<1>12. RowsKeyed(rows)'
  <2> SUFFICES ASSUME NEW p \in Observe!Paths, rows'[p] # Observe!NoRow
               PROVE \/ p = <<rows'[p].key>>
                     \/ p = <<rows'[p].key, rows'[p].body>> /\ rows'[<<rows'[p].key>>] # Observe!NoRow
    BY DEF RowsKeyed
  <2>1. CASE p # op.path
    <3>1. rows'[p] = rows[p] /\ rows[p] # Observe!NoRow BY <1>7, <2>1
    <3>2. rows[p].key \in EventKeys
      <4>1. rows[p] \in Observe!Rows BY <1>5, <3>1
      <4> QED BY <4>1 DEF Observe!Rows
    <3>3. \/ p = <<rows[p].key>>
          \/ p = <<rows[p].key, rows[p].body>> /\ rows[<<rows[p].key>>] # Observe!NoRow
      BY <1>1, <3>1 DEF ObserveBase, RowsKeyed
    <3>4. <<rows[p].key>> \in Observe!Paths BY <3>2, PathsAre
    <3> QED BY <1>8, <3>1, <3>3, <3>4
  <2>2. CASE p = op.path
    <3>1. rows'[p] = op.row BY <1>7, <2>2
    <3>2. op.path = <<op.row.key>> \/ (op.path = <<op.row.key, op.row.body>> /\ rows[<<op.row.key>>] # Observe!NoRow)
      BY <1>3 DEF Fits
    <3>3. <<op.row.key>> \in Observe!Paths BY <1>4, PathsAre
    <3> QED BY <1>8, <2>2, <3>1, <3>2, <3>3
  <2> QED BY <2>1, <2>2
<1>13. EntriesStored(pointer, rows)'
  <2> SUFFICES ASSUME NEW m \in 1..MaxIndex, pointer[m] # Observe!NoRow
               PROVE StoredIs(pointer[m], rows')
    BY <1>2 DEF EntriesStored, StoredIs
  <2>1. PICK e : e = pointer[m] OBVIOUS
  <2>2. StoredIs(e, rows) BY <1>1, <2>1 DEF ObserveBase, EntriesStored
  <2>3. e.key \in EventKeys /\ e.body \in Bodies
    <3>1. e \in Observe!Rows BY <1>5, <2>1
    <3> QED BY <3>1 DEF Observe!Rows
  <2>4. <<e.key>> \in Observe!Paths /\ <<e.key, e.body>> \in Observe!Paths BY <2>3, PathsAre
  <2>5. rows'[<<e.key>>] # Observe!NoRow /\ rows'[<<e.key>>].body = rows[<<e.key>>].body
    BY <1>8, <1>9, <2>2, <2>3, <2>4 DEF StoredIs
  <2>6. rows[<<e.key, e.body>>] # Observe!NoRow => rows'[<<e.key, e.body>>] # Observe!NoRow BY <1>8, <2>4
  <2> QED BY <2>1, <2>2, <2>5, <2>6 DEF StoredIs
<1>14. (marked \subseteq Observe!Published)' BY <1>1, <1>2 DEF ObserveBase, Observe!Published
<1>15. Observe!NothingAppearsBehind' BY <1>1, <1>2 DEF ObserveBase, Observe!NothingAppearsBehind
<1>16. Observe!AnsweredIsPublished' BY <1>1, <1>2 DEF ObserveBase, Observe!AnsweredIsPublished, Observe!KeptForAudit, Observe!Published
<1>17. OpFits'
  <2>1. op' \in OpRecords /\ op'.todo = Tail(op.todo) /\ op'.path = op.path /\ op'.row = op.row /\ Todo(op'.todo)
    BY <1>2, <1>3, DoneIs DEF Observe!Done, Finals
  <2>2. /\ Final(op'.todo) = Final(op.todo)
        /\ op'.todo[1] \notin {"point", "publish", "mark"}
        /\ HasStep(op.todo, Opening) => HasStep(op'.todo, Opening)
    BY <1>3, <2>1, TailOf DEF Finals
  <2>3. rows'[op'.path] = op'.row BY <1>7, <2>1
  <2>4. \/ op'.path = <<op'.row.key>>
        \/ op'.path = <<op'.row.key, op'.row.body>> /\ rows'[<<op'.row.key>>] # Observe!NoRow
    <3>1. <<op.row.key>> \in Observe!Paths BY <1>4, PathsAre
    <3>2. \/ op.path = <<op.row.key>>
          \/ op.path = <<op.row.key, op.row.body>> /\ rows[<<op.row.key>>] # Observe!NoRow
      BY <1>3 DEF Fits
    <3> QED BY <1>8, <2>1, <3>1, <3>2
  <2>5. Final(op'.todo) = "answer" /\ ~ Kept(op'.row, lane) =>
       (\E m \in 1..head.published : pointer[m] = op'.row) \/ HasStep(op'.todo, Opening)
    BY <1>3, <2>1, <2>2 DEF Fits
  <2>6. Final(op'.todo) = "advance" => obCursor < head.published BY <1>3, <2>2 DEF Fits
  <2>7. Fits(op', rows', head, pointer, lane, obCursor)
    BY <1>6, <2>1, <2>2, <2>3, <2>4, <2>5, <2>6 DEF Fits
  <2> QED BY <1>2, <2>7 DEF OpFits
<1> QED BY <1>10, <1>11, <1>12, <1>13, <1>14, <1>15, <1>16, <1>17 DEF ObserveInv

\* The next entry of the index is allocated before it is written.
LEMMA ObserveAllocate ==
  ASSUME ObserveInv, Observe!Allocate PROVE ObserveInv'
<1>1. ObserveBase /\ OpFits BY ObserveInvIs
<1>2. UNCHANGED <<lane, late, rows, outcome, closed, challenged, pointer, marked, calls, told, obCursor, reader>>
      /\ Observe!Doing("allocate") /\ head.allocated < MaxIndex
      /\ head' = [head EXCEPT !.allocated = @ + 1]
      /\ op' = [Observe!Done EXCEPT !.n = head.allocated + 1]
  BY DEF Observe!Allocate, Observe!outside
<1>3. Fits(op, rows, head, pointer, lane, obCursor) /\ op \in OpRecords /\ Todo(op.todo) /\ op.todo[1] = "allocate"
  BY <1>1, <1>2, AtStep
<1>4. head \in [allocated : 0..MaxIndex, published : 0..MaxIndex] /\ head.published <= head.allocated /\ MaxIndex \in Nat
  BY <1>1, ObserveAssumption DEF ObserveBase, Observe!TypeOK, HeadsOrdered, ObserveAssumption
<1>5. head'.allocated = head.allocated + 1 /\ head'.published = head.published
      /\ head.allocated \in 0..MaxIndex /\ head.published \in 0..MaxIndex
  BY <1>2, <1>4
<1>6. head.allocated + 1 \in 0..MaxIndex /\ head'.published < head'.allocated BY <1>2, <1>4, <1>5
<1>7. head' \in [allocated : 0..MaxIndex, published : 0..MaxIndex] BY <1>2, <1>4, <1>6
<1>8. Observe!TypeOK' BY <1>1, <1>2, <1>7 DEF ObserveBase, Observe!TypeOK
<1>9. HeadsOrdered' BY <1>1, <1>2, <1>5, <1>6 DEF ObserveBase, HeadsOrdered
<1>10. RowsKeyed(rows)' /\ EntriesStored(pointer, rows)' 
  BY <1>1, <1>2 DEF ObserveBase, RowsKeyed, EntriesStored, StoredIs
<1>11. Observe!Published' = Observe!Published BY <1>2, <1>5 DEF Observe!Published
<1>12. (marked \subseteq Observe!Published)' BY <1>1, <1>2, <1>11 DEF ObserveBase
<1>13. Observe!NothingAppearsBehind' BY <1>1, <1>2 DEF ObserveBase, Observe!NothingAppearsBehind
<1>14. Observe!AnsweredIsPublished' BY <1>1, <1>2, <1>11 DEF ObserveBase, Observe!AnsweredIsPublished, Observe!KeptForAudit
<1>15. OpFits'
  <2>1. PICK p : p = [op EXCEPT !.todo = Tail(@)] OBVIOUS
  <2>2. p \in OpRecords /\ p.todo = Tail(op.todo) /\ p.path = op.path /\ p.row = op.row /\ Todo(p.todo)
    BY <1>3, <2>1, DoneIs DEF Finals
  <2>3. PICK m : m = head.allocated + 1 OBVIOUS
  <2>4. op' = [p EXCEPT !.n = m] BY <1>2, <2>1, <2>3 DEF Observe!Done
  <2>5. op' \in OpRecords /\ op'.todo = p.todo /\ op'.path = op.path /\ op'.row = op.row /\ op'.n = m
    BY <1>6, <2>2, <2>3, <2>4, OpFields
  <2>6. /\ Todo(op'.todo) /\ Final(op'.todo) = Final(op.todo)
        /\ op'.todo[1] = "point"
        /\ HasStep(op.todo, Opening) => HasStep(op'.todo, Opening)
    <3>1. Todo(p.todo) /\ Final(p.todo) = Final(op.todo) /\ p.todo[1] = "point"
          /\ (HasStep(op.todo, Opening) => HasStep(p.todo, Opening))
      BY <1>3, <2>2, TailOf DEF Finals
    <3> QED BY <2>5, <3>1
  <2>7. rows[op'.path] # Observe!NoRow BY <1>3, <2>5 DEF Fits
  <2>8. \/ op'.path = <<op'.row.key>> /\ (rows[op'.path] # Observe!NoRow => rows[op'.path].body = op'.row.body)
        \/ op'.path = <<op'.row.key, op'.row.body>> /\ rows[<<op'.row.key>>] # Observe!NoRow
    BY <1>3, <2>5 DEF Fits
  <2>9. Final(op'.todo) = "answer" /\ ~ Kept(op'.row, lane) =>
       (\E q \in 1..head'.published : pointer[q] = op'.row) \/ HasStep(op'.todo, Opening)
    BY <1>3, <1>5, <2>5, <2>6 DEF Fits
  <2>10. Final(op'.todo) = "advance" => obCursor < head'.published BY <1>3, <1>5, <2>6 DEF Fits
  <2>11. op'.n = head'.allocated BY <1>5, <2>3, <2>5
  <2>12. Fits(op', rows, head', pointer, lane, obCursor)
    BY <1>6, <2>5, <2>6, <2>7, <2>8, <2>9, <2>10, <2>11 DEF Fits
  <2> QED BY <1>2, <2>12 DEF OpFits
<1> QED BY <1>8, <1>9, <1>10, <1>12, <1>13, <1>14, <1>15 DEF ObserveInv

\* The entry written is the one that was allocated last, beyond every reader.
LEMMA ObservePoint ==
  ASSUME ObserveInv, Observe!Point PROVE ObserveInv'
<1>1. ObserveBase /\ OpFits BY ObserveInvIs
<1>2. UNCHANGED <<lane, late, rows, outcome, closed, challenged, head, marked, calls, told, obCursor, reader>>
      /\ Observe!Doing("point") /\ pointer' = [pointer EXCEPT ![op.n] = op.row] /\ op' = Observe!Done
  BY DEF Observe!Point, Observe!outside
<1>3. Fits(op, rows, head, pointer, lane, obCursor) /\ op \in OpRecords /\ Todo(op.todo) /\ op.todo[1] = "point"
  BY <1>1, <1>2, AtStep
<1>4. /\ head \in [allocated : 0..MaxIndex, published : 0..MaxIndex] /\ MaxIndex \in Nat
      /\ pointer \in [1..MaxIndex -> Observe!Rows \cup {Observe!NoRow}]
      /\ rows \in [Observe!Paths -> Observe!Rows \cup {Observe!NoRow}]
  BY <1>1, ObserveAssumption DEF ObserveBase, Observe!TypeOK, ObserveAssumption
<1>5. reader.n \in 0..MaxIndex /\ reader.end \in 0..MaxIndex /\ reader.n <= reader.end /\ reader.end <= head.published
  BY <1>1 DEF ObserveBase, HeadsOrdered
<1>6. op.n = head.allocated /\ head.published < head.allocated
      /\ head.allocated \in 0..MaxIndex /\ head.published \in 0..MaxIndex
  BY <1>3, <1>4 DEF Fits
<1>7. op.n \in 1..MaxIndex /\ head.published < op.n /\ reader.n < op.n BY <1>4, <1>5, <1>6
<1>8. op.row \in Observe!Rows /\ op.row.key \in EventKeys /\ op.row.body \in Bodies BY <1>3, OpFields
<1>9. pointer' \in [1..MaxIndex -> Observe!Rows \cup {Observe!NoRow}]
      /\ pointer'[op.n] = op.row /\ \A m \in 1..MaxIndex : m # op.n => pointer'[m] = pointer[m]
  BY <1>2, <1>4, <1>7, <1>8
<1>10. \A m \in 1..head.published : pointer'[m] = pointer[m]
  <2> TAKE m \in 1..head.published
  <2>1. m \in 1..MaxIndex /\ m # op.n BY <1>4, <1>6, <1>7
  <2> QED BY <1>9, <2>1
<1>11. \A m \in 1..reader.n : pointer'[m] = pointer[m]
  <2> TAKE m \in 1..reader.n
  <2>1. m \in 1..MaxIndex /\ m # op.n BY <1>4, <1>5, <1>7
  <2> QED BY <1>9, <2>1
<1>12. Observe!TypeOK' BY <1>1, <1>2, <1>9 DEF ObserveBase, Observe!TypeOK
<1>13. HeadsOrdered' BY <1>1, <1>2 DEF ObserveBase, HeadsOrdered
<1>14. RowsKeyed(rows)' BY <1>1, <1>2 DEF ObserveBase, RowsKeyed
<1>15. EntriesStored(pointer, rows)'
  <2>1. StoredIs(op.row, rows)
    <3>1. rows[op.path] # Observe!NoRow BY <1>3 DEF Fits
    <3>2. CASE op.path = <<op.row.key>> /\ rows[op.path].body = op.row.body BY <3>1, <3>2 DEF StoredIs
    <3>3. CASE op.path = <<op.row.key, op.row.body>> /\ rows[<<op.row.key>>] # Observe!NoRow
      BY <3>1, <3>3 DEF StoredIs
    <3> QED BY <1>3, <3>1, <3>2, <3>3 DEF Fits
  <2> SUFFICES ASSUME NEW m \in 1..MaxIndex, pointer'[m] # Observe!NoRow
               PROVE StoredIs(pointer'[m], rows)
    BY <1>2 DEF EntriesStored, StoredIs
  <2>2. CASE m = op.n BY <1>9, <2>1, <2>2
  <2>3. CASE m # op.n
    <3>1. pointer'[m] = pointer[m] BY <1>9, <2>3
    <3> QED BY <1>1, <3>1 DEF ObserveBase, EntriesStored
  <2> QED BY <2>2, <2>3
<1>16. Observe!Published' = Observe!Published BY <1>2, <1>10 DEF Observe!Published
<1>17. (marked \subseteq Observe!Published)' BY <1>1, <1>2, <1>16 DEF ObserveBase
<1>18. Observe!NothingAppearsBehind' BY <1>1, <1>2, <1>11 DEF ObserveBase, Observe!NothingAppearsBehind
<1>19. Observe!AnsweredIsPublished' BY <1>1, <1>2, <1>16 DEF ObserveBase, Observe!AnsweredIsPublished, Observe!KeptForAudit
<1>20. OpFits'
  <2>1. op' \in OpRecords /\ op'.todo = Tail(op.todo) /\ op'.path = op.path /\ op'.row = op.row /\ op'.n = op.n
    BY <1>2, <1>3, DoneIs DEF Observe!Done, Finals
  <2>2. /\ Todo(op'.todo) /\ Final(op'.todo) = Final(op.todo)
        /\ op'.todo[1] = "publish"
        /\ HasStep(op.todo, Opening) => HasStep(op'.todo, Opening)
    BY <1>3, <2>1, TailOf DEF Finals
  <2>3. rows[op'.path] # Observe!NoRow BY <1>3, <2>1 DEF Fits
  <2>4. \/ op'.path = <<op'.row.key>> /\ (rows[op'.path] # Observe!NoRow => rows[op'.path].body = op'.row.body)
        \/ op'.path = <<op'.row.key, op'.row.body>> /\ rows[<<op'.row.key>>] # Observe!NoRow
    BY <1>3, <2>1 DEF Fits
  <2>5. Final(op'.todo) = "answer" /\ ~ Kept(op'.row, lane) =>
       (\E q \in 1..head.published : pointer'[q] = op'.row) \/ HasStep(op'.todo, Opening)
    BY <1>3, <1>10, <2>1, <2>2 DEF Fits
  <2>6. Final(op'.todo) = "advance" => obCursor < head.published BY <1>3, <2>2 DEF Fits
  <2>7. Fits(op', rows, head, pointer', lane, obCursor)
    BY <1>6, <1>9, <2>1, <2>2, <2>3, <2>4, <2>5, <2>6 DEF Fits
  <2> QED BY <1>2, <2>7 DEF OpFits
<1> QED BY <1>12, <1>13, <1>14, <1>15, <1>17, <1>18, <1>19, <1>20 DEF ObserveInv

\* The head moves to the entry that was written.
LEMMA ObservePublish ==
  ASSUME ObserveInv, Observe!Publish PROVE ObserveInv'
<1>1. ObserveBase /\ OpFits BY ObserveInvIs
<1>2. UNCHANGED <<lane, late, rows, outcome, closed, challenged, pointer, marked, calls, told, obCursor, reader>>
      /\ Observe!Doing("publish") /\ head' = [head EXCEPT !.published = op.n] /\ op' = Observe!Done
  BY DEF Observe!Publish, Observe!outside
<1>3. Fits(op, rows, head, pointer, lane, obCursor) /\ op \in OpRecords /\ Todo(op.todo) /\ op.todo[1] = "publish"
  BY <1>1, <1>2, AtStep
<1>4. head \in [allocated : 0..MaxIndex, published : 0..MaxIndex] /\ MaxIndex \in Nat
  BY <1>1, ObserveAssumption DEF ObserveBase, Observe!TypeOK, ObserveAssumption
<1>5. op.n = head.allocated /\ head.published < head.allocated /\ pointer[op.n] = op.row
      /\ head.allocated \in 0..MaxIndex /\ head.published \in 0..MaxIndex
  BY <1>3, <1>4 DEF Fits
<1>6. head' \in [allocated : 0..MaxIndex, published : 0..MaxIndex]
      /\ head'.published = op.n /\ head'.allocated = head.allocated
  BY <1>2, <1>4, <1>5
<1>7. head.published < head'.published /\ op.n \in 1..head'.published BY <1>4, <1>5, <1>6
<1>8. 1..head.published \subseteq 1..head'.published BY <1>4, <1>5, <1>6
<1>9. obCursor \in 0..MaxIndex /\ reader \in Readers /\ reader.end <= head.published /\ reader.n <= reader.end
      /\ obCursor <= head.published
  BY <1>1 DEF ObserveBase, HeadsOrdered, Observe!TypeOK, Readers
<1>10. reader.end \in 0..MaxIndex BY <1>9 DEF Readers
<1>11. obCursor <= head'.published /\ reader.end <= head'.published /\ head'.published <= head'.allocated
  BY <1>4, <1>5, <1>6, <1>9, <1>10
<1>12. Observe!TypeOK' BY <1>1, <1>2, <1>6 DEF ObserveBase, Observe!TypeOK
<1>13. HeadsOrdered' BY <1>2, <1>9, <1>11 DEF HeadsOrdered, Readers
<1>14. RowsKeyed(rows)' /\ EntriesStored(pointer, rows)' 
  BY <1>1, <1>2 DEF ObserveBase, RowsKeyed, EntriesStored, StoredIs
<1>15. Observe!Published \subseteq Observe!Published' BY <1>2, <1>8 DEF Observe!Published
<1>16. (marked \subseteq Observe!Published)' BY <1>1, <1>2, <1>15 DEF ObserveBase
<1>17. Observe!NothingAppearsBehind' BY <1>1, <1>2 DEF ObserveBase, Observe!NothingAppearsBehind
<1>18. Observe!AnsweredIsPublished' BY <1>1, <1>2, <1>15 DEF ObserveBase, Observe!AnsweredIsPublished, Observe!KeptForAudit
<1>19. OpFits'
  <2>1. op' \in OpRecords /\ op'.todo = Tail(op.todo) /\ op'.path = op.path /\ op'.row = op.row /\ op'.n = op.n
    BY <1>2, <1>3, DoneIs DEF Observe!Done, Finals
  <2>2. Todo(op'.todo) /\ Final(op'.todo) = Final(op.todo) /\ op'.todo[1] = "mark"
    BY <1>3, <2>1, TailOf DEF Finals
  <2>3. rows[op'.path] # Observe!NoRow BY <1>3, <2>1 DEF Fits
  <2>4. \/ op'.path = <<op'.row.key>> /\ (rows[op'.path] # Observe!NoRow => rows[op'.path].body = op'.row.body)
        \/ op'.path = <<op'.row.key, op'.row.body>> /\ rows[<<op'.row.key>>] # Observe!NoRow
    BY <1>3, <2>1 DEF Fits
  <2>5. \E q \in 1..head'.published : pointer[q] = op'.row BY <1>5, <1>7, <2>1
  <2>6. Final(op'.todo) = "advance" => obCursor < head'.published
    <3>1. Final(op'.todo) = "advance" => obCursor < head.published BY <1>3, <2>2 DEF Fits
    <3> QED BY <1>5, <1>6, <1>7, <1>9, <3>1
  <2>7. Fits(op', rows, head', pointer, lane, obCursor)
    BY <2>1, <2>2, <2>3, <2>4, <2>5, <2>6 DEF Fits
  <2> QED BY <1>2, <2>7 DEF OpFits
<1> QED BY <1>12, <1>13, <1>14, <1>16, <1>17, <1>18, <1>19 DEF ObserveInv

\* How the lists of the operations are put together.
LEMMA PartsJoin ==
  ASSUME NEW s, NEW t, Piece(s), Piece(t), Follows(t), Follows(s) \/ HasStep(t, {"look"})
  PROVE /\ Piece(s \o t) /\ Follows(s \o t)
        /\ HasStep(s, {"look"}) \/ HasStep(t, {"look"}) => HasStep(s \o t, {"look"})
        /\ s # <<>> => s \o t # <<>> /\ (s \o t)[1] = s[1]
<1>1. s \in Seq(Steps) /\ t \in Seq(Steps) BY DEF Piece, Flows
<1>2. Piece(s \o t) BY PiecesJoin
<1>3. Follows(s \o t) BY <1>1, FollowsJoin
<1>4. HasStep(s, {"look"}) \/ HasStep(t, {"look"}) => HasStep(s \o t, {"look"}) BY <1>1, HasJoin
<1>5. s # <<>> => s \o t # <<>> /\ (s \o t)[1] = s[1]
  <2>1. Len(s) \in Nat /\ Len(t) \in Nat /\ (s # <<>> => Len(s) > 0) BY <1>1
  <2> QED BY <1>1, <2>1
<1> QED BY <1>2, <1>3, <1>4, <1>5

LEMMA ListEnds ==
  ASSUME NEW s, NEW x \in Finals, Piece(s), Follows(s)
  PROVE LET l == s \o <<x>>
        IN /\ Todo(l) /\ l[1] \notin Middles /\ Final(l) = x
           /\ HasStep(s, {"look"}) => HasStep(l, Opening)
           /\ s # <<>> => l[1] = s[1]
<1>1. PICK a : a = <<x>> OBVIOUS
<1>2. a \in Seq(Steps) /\ Flows(a) /\ a # <<>> /\ a[1] \notin Middles /\ Follows(a) /\ Final(a) = x
  BY <1>1, FinalSteps
<1>3. Todo(s \o a) /\ (s \o a)[1] \notin Middles /\ Final(s \o a) = x BY <1>2, PieceThenTodo
<1>4. s \in Seq(Steps) BY DEF Piece, Flows
<1>5. HasStep(s, {"look"}) => HasStep(s \o a, Opening)
  <2>1. HasStep(s, {"look"}) => HasStep(s \o a, {"look"}) BY <1>2, <1>4, HasJoin
  <2> QED BY <2>1 DEF HasStep, Opening
<1>6. s # <<>> => (s \o a)[1] = s[1]
  <2>1. Len(s) \in Nat /\ Len(a) \in Nat /\ (s # <<>> => Len(s) > 0) BY <1>2, <1>4
  <2> QED BY <1>2, <1>4, <2>1
<1> QED BY <1>1, <1>3, <1>5, <1>6

LEMMA CommitPiece == Piece(<<"commit", "save">>) /\ <<"commit", "save">> # <<>>
<1>1. PICK s : s = <<"commit", "save">> OBVIOUS
<1>2. s \in Seq(Steps) /\ Len(s) = 2 /\ s[1] = "commit" /\ s[2] = "save" BY <1>1 DEF Steps
<1>3. Flows(s) BY <1>2 DEF Flows, Finals
<1>4. Piece(s) BY <1>2, <1>3 DEF Piece, Middles, Opening, Finals
<1> QED BY <1>1, <1>2, <1>4

LEMMA SignalPiece == Piece(<<"signal", "save">>) /\ <<"signal", "save">> # <<>>
<1>1. PICK s : s = <<"signal", "save">> OBVIOUS
<1>2. s \in Seq(Steps) /\ Len(s) = 2 /\ s[1] = "signal" /\ s[2] = "save" BY <1>1 DEF Steps
<1>3. Flows(s) BY <1>2 DEF Flows, Finals
<1>4. Piece(s) BY <1>2, <1>3 DEF Piece, Middles, Opening, Finals
<1> QED BY <1>1, <1>2, <1>4

LEMMA RetryEnd ==
  LET e == <<"reconcile", "save", "answer">>
  IN e \in Seq(Steps) /\ Flows(e) /\ e # <<>> /\ e[1] \notin Middles /\ Follows(e) /\ Final(e) = "answer"
<1>1. PICK s : s = <<"reconcile", "save", "answer">> OBVIOUS
<1>2. s \in Seq(Steps) /\ Len(s) = 3 /\ s[1] = "reconcile" /\ s[2] = "save" /\ s[3] = "answer" BY <1>1 DEF Steps
<1>3. Flows(s) BY <1>2 DEF Flows, Finals
<1>4. Follows(s) BY <1>2 DEF Follows, Changes
<1> QED BY <1>1, <1>2, <1>3, <1>4 DEF Middles, Final

\* What the lists of the operations have in common.
Listed(t, x) == Todo(t) /\ t[1] \notin Middles /\ Final(t) = x

LEMMA ConflictLists ==
  /\ Listed(Observe!IndexAt \o <<"refuse">>, "refuse")
  /\ Listed(<<"save">> \o Observe!IndexAt \o <<"refuse">>, "refuse")
  /\ (<<"save">> \o Observe!IndexAt \o <<"refuse">>)[1] = "save"
<1>1. PICK i : i = Observe!IndexAt OBVIOUS
<1>2. Piece(i) /\ Follows(i) /\ HasStep(i, {"look"}) BY <1>1, IndexPieces
<1>3. PICK v : v = <<"save">> OBVIOUS
<1>4. Piece(v) /\ Follows(v) /\ v # <<>> /\ v[1] = "save" BY <1>3, SmallPieces
<1>5. PICK w : w = v \o i OBVIOUS
<1>6. Piece(w) /\ Follows(w) /\ w # <<>> /\ w[1] = "save" BY <1>2, <1>4, <1>5, PartsJoin
<1>7. "refuse" \in Finals BY DEF Finals
<1>8. Listed(i \o <<"refuse">>, "refuse") BY <1>2, <1>7, ListEnds DEF Listed
<1>9. Listed(w \o <<"refuse">>, "refuse") /\ (w \o <<"refuse">>)[1] = "save"
  BY <1>6, <1>7, ListEnds DEF Listed
<1> QED BY <1>1, <1>3, <1>5, <1>8, <1>9

LEMMA RetryLists ==
  ASSUME NEW c \in {<<"commit">>, <<>>}
  PROVE LET t == Observe!Index \o c \o <<"save">> \o Observe!Index \o <<"reconcile", "save", "answer">>
        IN Listed(t, "answer") /\ HasStep(t, Opening)
<1>1. PICK i : i = Observe!Index OBVIOUS
<1>2. Piece(i) /\ Follows(i) /\ HasStep(i, {"look"}) BY <1>1, IndexPieces
<1>3. PICK v : v = <<"save">> OBVIOUS
<1>4. Piece(v) BY <1>3, SmallPieces
<1>5. Piece(c) BY SmallPieces
<1>6. Piece(i \o c) BY <1>2, <1>5, PiecesJoin
<1>7. Piece((i \o c) \o v) BY <1>4, <1>6, PiecesJoin
<1>8. PICK w : w = ((i \o c) \o v) \o i OBVIOUS
<1>9. Piece(w) /\ Follows(w) /\ HasStep(w, {"look"}) BY <1>2, <1>7, <1>8, PartsJoin
<1>10. PICK e : e = <<"reconcile", "save", "answer">> OBVIOUS
<1>11. e \in Seq(Steps) /\ Flows(e) /\ e # <<>> /\ e[1] \notin Middles /\ Follows(e) /\ Final(e) = "answer"
  BY <1>10, RetryEnd
<1>12. Todo(w \o e) /\ (w \o e)[1] \notin Middles /\ Final(w \o e) = "answer"
  BY <1>9, <1>11, PieceThenTodo DEF Finals
<1>13. HasStep(w \o e, {"look"})
  <2>1. w \in Seq(Steps) BY <1>9 DEF Piece, Flows
  <2> QED BY <1>9, <1>11, <2>1, HasJoin
<1>14. HasStep(w \o e, Opening) BY <1>13 DEF HasStep, Opening
<1> QED BY <1>1, <1>3, <1>8, <1>10, <1>12, <1>14 DEF Listed

LEMMA FreshLists ==
  ASSUME NEW c \in {<<"commit", "save">> \o Observe!Index \o <<"reconcile">>,
                    <<"commit", "save">> \o Observe!Index, <<>>}
  PROVE LET t == <<"save">> \o Observe!Index \o c \o <<"answer">>
        IN Listed(t, "answer") /\ HasStep(t, Opening) /\ t[1] = "save"
<1>1. PICK i : i = Observe!Index OBVIOUS
<1>2. Piece(i) /\ Follows(i) /\ HasStep(i, {"look"}) BY <1>1, IndexPieces
<1>3. PICK v : v = <<"save">> OBVIOUS
<1>4. Piece(v) /\ Follows(v) /\ v # <<>> /\ v[1] = "save" BY <1>3, SmallPieces
<1>5. PICK b : b = <<"commit", "save">> OBVIOUS
<1>6. Piece(b) BY <1>5, CommitPiece
<1>7. Piece(b \o i) /\ Follows(b \o i) BY <1>2, <1>6, PartsJoin
<1>8. PICK r : r = <<"reconcile">> OBVIOUS
<1>9. Piece(r) /\ Follows(r) BY <1>8, SmallPieces
<1>10. Piece((b \o i) \o r) /\ Follows((b \o i) \o r) BY <1>7, <1>9, PartsJoin
<1>11. c \in {(b \o i) \o r, b \o i, <<>>} BY <1>1, <1>5, <1>8
<1>12. Piece(c) /\ Follows(c) BY <1>7, <1>10, <1>11, SmallPieces
<1>13. PICK w : w = v \o i OBVIOUS
<1>14. Piece(w) /\ Follows(w) /\ w # <<>> /\ w[1] = "save" /\ HasStep(w, {"look"})
  BY <1>2, <1>4, <1>13, PartsJoin
<1>15. PICK x : x = w \o c OBVIOUS
<1>16. Piece(x) /\ Follows(x) /\ x # <<>> /\ x[1] = "save" /\ HasStep(x, {"look"})
  BY <1>12, <1>14, <1>15, PartsJoin
<1>17. "answer" \in Finals BY DEF Finals
<1>18. Listed(x \o <<"answer">>, "answer") /\ HasStep(x \o <<"answer">>, Opening) /\ (x \o <<"answer">>)[1] = "save"
  BY <1>16, <1>17, ListEnds DEF Listed
<1> QED BY <1>1, <1>3, <1>13, <1>15, <1>18

LEMMA LearningRetryLists ==
  ASSUME NEW c \in {<<"commit", "save">> \o Observe!Index, <<>>}
  PROVE Listed(c \o <<"answer">>, "answer") /\ (c # <<>> => HasStep(c \o <<"answer">>, Opening))
<1>1. PICK i : i = Observe!Index OBVIOUS
<1>2. Piece(i) /\ Follows(i) /\ HasStep(i, {"look"}) BY <1>1, IndexPieces
<1>3. PICK b : b = <<"commit", "save">> OBVIOUS
<1>4. Piece(b) BY <1>3, CommitPiece
<1>5. Piece(b \o i) /\ Follows(b \o i) /\ HasStep(b \o i, {"look"}) BY <1>2, <1>4, PartsJoin
<1>6. Piece(c) /\ Follows(c) /\ (c # <<>> => HasStep(c, {"look"})) BY <1>1, <1>3, <1>5, SmallPieces
<1>7. "answer" \in Finals BY DEF Finals
<1> QED BY <1>6, <1>7, ListEnds DEF Listed

LEMMA ConsumeLists == Listed(<<"signal", "save">> \o Observe!IndexAt \o <<"advance">>, "advance")
<1>1. PICK i : i = Observe!IndexAt OBVIOUS
<1>2. Piece(i) /\ Follows(i) /\ HasStep(i, {"look"}) BY <1>1, IndexPieces
<1>3. PICK b : b = <<"signal", "save">> OBVIOUS
<1>4. Piece(b) BY <1>3, SignalPiece
<1>5. PICK w : w = b \o i OBVIOUS
<1>6. Piece(w) /\ Follows(w) BY <1>2, <1>4, <1>5, PartsJoin
<1>7. "advance" \in Finals BY DEF Finals
<1>8. Listed(w \o <<"advance">>, "advance") BY <1>6, <1>7, ListEnds DEF Listed
<1> QED BY <1>1, <1>3, <1>5, <1>8

\* An operation that begins.
LEMMA StartFits ==
  ASSUME NEW p \in Observe!Paths, NEW r \in Observe!Rows, NEW t, NEW x, Listed(t, x),
         \/ p = <<r.key>> /\ (rows[p] # Observe!NoRow => rows[p].body = r.body)
         \/ p = <<r.key, r.body>> /\ rows[<<r.key>>] # Observe!NoRow,
         rows[p] = Observe!NoRow => t[1] = "save",
         x = "answer" /\ ~ Kept(r, lane) => HasStep(t, Opening),
         x = "advance" => obCursor < head.published
  PROVE Fits(Observe!Start(p, r, t), rows, head, pointer, lane, obCursor)
<1>1. PICK o : o = Observe!Start(p, r, t) OBVIOUS
<1>2. o = [todo |-> t, path |-> p, row |-> r, n |-> 0] BY <1>1 DEF Observe!Start
<1>3. Todo(t) /\ t[1] \notin Middles /\ Final(t) = x BY DEF Listed
<1>4. t \in Seq(Steps) BY <1>3 DEF Todo, Flows
<1>5. 0 \in 0..MaxIndex BY ObserveAssumption DEF ObserveAssumption
<1>6. o \in OpRecords /\ o.todo = t /\ o.path = p /\ o.row = r BY <1>2, <1>4, <1>5 DEF OpRecords
<1>7. t[1] \notin {"point", "publish", "mark"} BY <1>3 DEF Middles
<1>8. Fits(o, rows, head, pointer, lane, obCursor) BY <1>3, <1>6, <1>7 DEF Fits
<1> QED BY <1>1, <1>8

LEMMA ReceiptIs ==
  ASSUME NEW k \in EventKeys, NEW b \in Bodies,
         NEW s \in {"accepted", "committed"} \cup Observe!Audits
  PROVE LET r == Observe!Receipt(k, b, s) IN r \in Observe!Rows /\ r.key = k /\ r.body = b
BY DEF Observe!Receipt, Observe!Rows

LEMMA RowsAre ==
  ASSUME ObserveInv, NEW p \in Observe!Paths, rows[p] # Observe!NoRow
  PROVE /\ rows[p] \in Observe!Rows /\ rows[p].key \in EventKeys /\ rows[p].body \in Bodies
        /\ \/ p = <<rows[p].key>>
           \/ p = <<rows[p].key, rows[p].body>> /\ rows[<<rows[p].key>>] # Observe!NoRow
<1>1. rows[p] \in Observe!Rows BY DEF ObserveInv, Observe!TypeOK
<1>2. rows[p].key \in EventKeys /\ rows[p].body \in Bodies BY <1>1 DEF Observe!Rows
<1> QED BY <1>1, <1>2 DEF ObserveInv, RowsKeyed

LEMMA ConflictFits ==
  ASSUME ObserveInv, NEW k \in EventKeys, NEW b \in Bodies,
         rows[<<k>>] # Observe!NoRow, rows[<<k>>].body # b
  PROVE Fits(Observe!Conflict(k, b), rows, head, pointer, lane, obCursor)
<1>1. PICK p : p = <<k, b>> OBVIOUS
<1>2. p \in Observe!Paths BY <1>1, PathsAre
<1>3. CASE rows[p] # Observe!NoRow
  <2>1. PICK r : r = rows[p] OBVIOUS
  <2>2. PICK t : t = Observe!IndexAt \o <<"refuse">> OBVIOUS
  <2>3. Observe!Conflict(k, b) = Observe!Start(p, r, t) BY <1>1, <1>3, <2>1, <2>2 DEF Observe!Conflict
  <2>4. r \in Observe!Rows /\ (p = <<r.key>> \/ (p = <<r.key, r.body>> /\ rows[<<r.key>>] # Observe!NoRow))
    BY <1>2, <1>3, <2>1, RowsAre
  <2>5. p # <<r.key>> BY <1>1, PathsDiffer
  <2>6. Listed(t, "refuse") BY <2>2, ConflictLists
  <2> QED BY <1>2, <1>3, <2>3, <2>4, <2>5, <2>6, StartFits
<1>4. CASE rows[p] = Observe!NoRow
  <2>1. PICK r : r = Observe!Receipt(k, b, "conflict_audit") OBVIOUS
  <2>2. PICK t : t = <<"save">> \o Observe!IndexAt \o <<"refuse">> OBVIOUS
  <2>3. Observe!Conflict(k, b) = Observe!Start(p, r, t) BY <1>1, <1>4, <2>1, <2>2 DEF Observe!Conflict
  <2>4. r \in Observe!Rows /\ r.key = k /\ r.body = b BY <2>1, ReceiptIs DEF Observe!Audits
  <2>5. Listed(t, "refuse") /\ t[1] = "save" BY <2>2, ConflictLists
  <2> QED BY <1>1, <1>2, <2>3, <2>4, <2>5, StartFits
<1> QED BY <1>3, <1>4

LEMMA RetryFits ==
  ASSUME ObserveInv, NEW k \in EventKeys, rows[<<k>>] # Observe!NoRow
  PROVE /\ Fits(Observe!Retry(k), rows, head, pointer, lane, obCursor)
        /\ lane # "action" => Fits(Observe!LearningRetry(k), rows, head, pointer, lane, obCursor)
<1>1. PICK p : p = <<k>> OBVIOUS
<1>2. p \in Observe!Paths BY <1>1, PathsAre
<1>3. PICK r : r = rows[p] OBVIOUS
<1>4. r \in Observe!Rows /\ p = <<r.key>>
  <2>1. p # <<r.key, r.body>> BY <1>1, PathsDiffer
  <2> QED BY <1>1, <1>2, <1>3, <2>1, RowsAre
<1>5. Fits(Observe!Retry(k), rows, head, pointer, lane, obCursor)
  <2>1. PICK c : c = IF r.status = "accepted" THEN <<"commit">> ELSE <<>> OBVIOUS
  <2>2. c \in {<<"commit">>, <<>>} BY <2>1
  <2>3. PICK t : t = Observe!Index \o c \o <<"save">> \o Observe!Index \o <<"reconcile", "save", "answer">> OBVIOUS
  <2>4. Observe!Retry(k) = Observe!Start(p, r, t) BY <1>1, <1>3, <2>1, <2>3 DEF Observe!Retry
  <2>5. Listed(t, "answer") /\ HasStep(t, Opening) BY <2>2, <2>3, RetryLists
  <2> QED BY <1>1, <1>2, <1>3, <1>4, <2>4, <2>5, StartFits
<1>6. ASSUME lane # "action" PROVE Fits(Observe!LearningRetry(k), rows, head, pointer, lane, obCursor)
  <2>1. PICK c : c = IF r.status \in Observe!Audits THEN <<>>
                     ELSE <<"commit", "save">> \o Observe!Index OBVIOUS
  <2>2. c \in {<<"commit", "save">> \o Observe!Index, <<>>} BY <2>1
  <2>3. PICK t : t = c \o <<"answer">> OBVIOUS
  <2>4. Observe!LearningRetry(k) = Observe!Start(p, r, t) BY <1>1, <1>3, <2>1, <2>3 DEF Observe!LearningRetry
  <2>5. Listed(t, "answer") /\ (c # <<>> => HasStep(t, Opening)) BY <2>2, <2>3, LearningRetryLists
  <2>6. ~ Kept(r, lane) => HasStep(t, Opening)
    <3>1. <<"commit", "save">> \o Observe!Index # <<>> BY CommitPiece, IndexPieces, PartsJoin
    <3>2. lane = "learning" BY <1>6, ObserveAssumption DEF ObserveInv, Observe!TypeOK, ObserveAssumption
    <3> QED BY <2>1, <2>5, <3>1, <3>2 DEF Kept
  <2> QED BY <1>1, <1>2, <1>3, <1>4, <2>4, <2>5, <2>6, StartFits
<1> QED BY <1>5, <1>6

LEMMA FreshFits ==
  ASSUME ObserveInv, NEW k \in EventKeys, NEW b \in Bodies, rows[<<k>>] = Observe!NoRow
  PROVE /\ Fits(Observe!Fresh(k, b), rows, head, pointer, lane, obCursor)
        /\ Fits(Observe!LearningFresh(k, b), rows, head, pointer, lane, obCursor)
<1>1. PICK p : p = <<k>> OBVIOUS
<1>2. p \in Observe!Paths /\ rows[p] = Observe!NoRow BY <1>1, PathsAre
<1>3. Fits(Observe!Fresh(k, b), rows, head, pointer, lane, obCursor)
  <2>1. PICK s : s = CASE late -> "late_audit"
                       [] ~late /\ b \notin Progress /\ closed # Observe!NoKey /\ k \notin Corrections -> "conflict_audit"
                       [] OTHER -> "accepted" OBVIOUS
  <2>2. s \in {"accepted", "committed"} \cup Observe!Audits BY <2>1 DEF Observe!Audits
  <2>3. PICK r : r = Observe!Receipt(k, b, s) OBVIOUS
  <2>4. r \in Observe!Rows /\ r.key = k /\ r.body = b BY <2>2, <2>3, ReceiptIs
  <2>5. PICK c : c = IF s = "accepted" THEN <<"commit", "save">> \o Observe!Index \o <<"reconcile">> ELSE <<>> OBVIOUS
  <2>6. c \in {<<"commit", "save">> \o Observe!Index \o <<"reconcile">>, <<>>} BY <2>5
  <2>7. PICK t : t = <<"save">> \o Observe!Index \o c \o <<"answer">> OBVIOUS
  <2>8. Observe!Fresh(k, b) = Observe!Start(p, r, t) BY <1>1, <2>1, <2>3, <2>5, <2>7 DEF Observe!Fresh
  <2>9. Listed(t, "answer") /\ HasStep(t, Opening) /\ t[1] = "save" BY <2>6, <2>7, FreshLists
  <2> QED BY <1>1, <1>2, <2>4, <2>8, <2>9, StartFits
<1>4. Fits(Observe!LearningFresh(k, b), rows, head, pointer, lane, obCursor)
  <2>1. PICK s : s = CASE k \in Corrections \/ (outcome \ {k}) # {} -> "conflict_audit"
                    [] k \notin Corrections /\ (outcome \ {k}) = {} /\ late -> "late_audit"
                    [] k \notin Corrections /\ (outcome \ {k}) = {} /\ ~late /\ b \in Progress -> "progress_audit"
                    [] OTHER -> "accepted" OBVIOUS
  <2>2. s \in {"accepted", "committed"} \cup Observe!Audits BY <2>1 DEF Observe!Audits
  <2>3. PICK r : r = Observe!Receipt(k, b, s) OBVIOUS
  <2>4. r \in Observe!Rows /\ r.key = k /\ r.body = b BY <2>2, <2>3, ReceiptIs
  <2>5. PICK c : c = IF s = "accepted" THEN <<"commit", "save">> \o Observe!Index ELSE <<>> OBVIOUS
  <2>6. c \in {<<"commit", "save">> \o Observe!Index, <<>>} BY <2>5
  <2>7. PICK t : t = <<"save">> \o Observe!Index \o c \o <<"answer">> OBVIOUS
  <2>8. Observe!LearningFresh(k, b) = Observe!Start(p, r, t)
    BY <1>1, <2>1, <2>3, <2>5, <2>7 DEF Observe!LearningFresh
  <2>9. Listed(t, "answer") /\ HasStep(t, Opening) /\ t[1] = "save" BY <2>6, <2>7, FreshLists
  <2> QED BY <1>1, <1>2, <2>4, <2>8, <2>9, StartFits
<1> QED BY <1>3, <1>4

LEMMA ObserveSubmit ==
  ASSUME ObserveInv, NEW k \in EventKeys, NEW b \in Bodies, Observe!Submit(k, b) PROVE ObserveInv'
<1>1. ObserveBase BY ObserveInvIs
<1>2. UNCHANGED <<lane, late, rows, outcome, closed, challenged, head, pointer, marked, told, obCursor, reader>>
      /\ calls < MaxCalls /\ calls' = calls + 1
  BY DEF Observe!Submit, Observe!journal
<1>3. late \in BOOLEAN /\ outcome \subseteq EventKeys /\ closed \in EventKeys \cup {Observe!NoKey} /\ challenged \subseteq EventKeys
  BY <1>1 DEF ObserveBase, Observe!TypeOK
<1>4. calls' \in 0..MaxCalls
  <2>1. calls \in 0..MaxCalls /\ MaxCalls \in Nat
    BY <1>1, ObserveAssumption DEF ObserveBase, Observe!TypeOK, ObserveAssumption
  <2> QED BY <1>2, <2>1
<1>5. ObserveBase' BY <1>1, <1>2, <1>3, <1>4, KeepBase
<1>6. op' = CASE rows[<<k>>] # Observe!NoRow /\ rows[<<k>>].body # b -> Observe!Conflict(k, b)
               [] rows[<<k>>] # Observe!NoRow /\ rows[<<k>>].body = b ->
                    IF lane = "action" THEN Observe!Retry(k) ELSE Observe!LearningRetry(k)
               [] OTHER -> IF lane = "action" THEN Observe!Fresh(k, b) ELSE Observe!LearningFresh(k, b)
  BY DEF Observe!Submit
<1>7. Fits(op', rows, head, pointer, lane, obCursor)
  <2>1. CASE rows[<<k>>] # Observe!NoRow /\ rows[<<k>>].body # b
    <3>1. op' = Observe!Conflict(k, b) BY <1>6, <2>1
    <3> QED BY <2>1, <3>1, ConflictFits
  <2>2. CASE rows[<<k>>] # Observe!NoRow /\ rows[<<k>>].body = b
    <3>1. op' = IF lane = "action" THEN Observe!Retry(k) ELSE Observe!LearningRetry(k) BY <1>6, <2>2
    <3> QED BY <2>2, <3>1, RetryFits
  <2>3. CASE rows[<<k>>] = Observe!NoRow
    <3>1. op' = IF lane = "action" THEN Observe!Fresh(k, b) ELSE Observe!LearningFresh(k, b) BY <1>6, <2>3
    <3> QED BY <2>3, <3>1, FreshFits
  <2> QED BY <2>1, <2>2, <2>3
<1> QED BY <1>2, <1>5, <1>7 DEF ObserveInv, ObserveBase, OpFits

\* The consumer finds the receipt an entry names where it was stored.
LEMMA ObserveConsume ==
  ASSUME ObserveInv, Observe!Consume PROVE ObserveInv'
<1>1. ObserveBase' BY ObserveQuiet DEF Observe!Consume
<1>2. UNCHANGED <<lane, rows, head, pointer, obCursor>> /\ obCursor < head.published /\ lane = "learning"
  BY DEF Observe!Consume, Observe!outside, Observe!journal
<1>3. obCursor \in 0..MaxIndex /\ MaxIndex \in Nat /\ head.published \in 0..MaxIndex
      /\ pointer \in [1..MaxIndex -> Observe!Rows \cup {Observe!NoRow}]
  BY ObserveAssumption DEF ObserveInv, Observe!TypeOK, ObserveAssumption
<1>4. PICK e : e = pointer[obCursor + 1] OBVIOUS
<1>5. PICK p : p = Observe!PathOf(e) OBVIOUS
<1>6. PICK r : r = rows[p] OBVIOUS
<1>7. PICK t : t = <<"signal", "save">> \o Observe!IndexAt \o <<"advance">> OBVIOUS
<1>8. CASE e # Observe!NoRow /\ op' = Observe!Start(p, r, t)
  <2>1. obCursor + 1 \in 1..MaxIndex BY <1>2, <1>3
  <2>2. e \in Observe!Rows BY <1>3, <1>4, <1>8, <2>1
  <2>3. e.key \in EventKeys /\ e.body \in Bodies BY <2>2 DEF Observe!Rows
  <2>4. StoredIs(e, rows) BY <1>4, <1>8, <2>1 DEF ObserveInv, EntriesStored
  <2>5. p \in Observe!Paths /\ r # Observe!NoRow
    <3>1. <<e.key>> \in Observe!Paths /\ <<e.key, e.body>> \in Observe!Paths BY <2>3, PathsAre
    <3> QED BY <1>5, <1>6, <2>4, <3>1 DEF Observe!PathOf, StoredIs
  <2>6. r \in Observe!Rows /\ (p = <<r.key>> \/ (p = <<r.key, r.body>> /\ rows[<<r.key>>] # Observe!NoRow))
    BY <1>6, <2>5, RowsAre
  <2>7. Listed(t, "advance") BY <1>7, ConsumeLists
  <2>8. Fits(op', rows, head, pointer, lane, obCursor)
    BY <1>2, <1>6, <1>8, <2>5, <2>6, <2>7, StartFits
  <2> QED BY <1>1, <1>2, <2>8 DEF ObserveInv, ObserveBase, OpFits
<1>9. CASE op' = [todo |-> <<"advance">>]
  BY <1>1, <1>2, <1>9 DEF ObserveInv, ObserveBase, OpFits
<1>10. \/ e # Observe!NoRow /\ op' = Observe!Start(p, r, t)
       \/ op' = [todo |-> <<"advance">>]
  BY <1>4, <1>5, <1>6, <1>7 DEF Observe!Consume
<1> QED BY <1>8, <1>9, <1>10

LEMMA ObserveStep ==
  ASSUME ObserveInv, [Observe!Next]_observeVars PROVE ObserveInv'
<1>1. CASE Observe!WindowPasses BY <1>1, ObserveWindow
<1>2. CASE \E k \in EventKeys, b \in Bodies : Observe!Submit(k, b) BY <1>2, ObserveSubmit
<1>3. CASE Observe!Save BY <1>3, ObserveSave
<1>4. CASE Observe!Challenge BY <1>4, ObserveChallenge
<1>5. CASE Observe!Look BY <1>5, ObserveLook
<1>6. CASE Observe!Allocate BY <1>6, ObserveAllocate
<1>7. CASE Observe!Point BY <1>7, ObservePoint
<1>8. CASE Observe!Publish BY <1>8, ObservePublish
<1>9. CASE Observe!Mark BY <1>9, ObserveMark
<1>10. CASE Observe!Commit BY <1>10, ObserveCommit
<1>11. CASE Observe!Reconcile BY <1>11, ObserveReconcile
<1>12. CASE Observe!Answer BY <1>12, ObserveAnswer
<1>13. CASE Observe!Refuse \/ Observe!Fail BY <1>13, ObserveStops
<1>14. CASE Observe!Consume BY <1>14, ObserveConsume
<1>15. CASE Observe!Signal BY <1>15, ObserveSignal
<1>16. CASE Observe!AdvanceCursor BY <1>16, ObserveAdvance
<1>17. CASE Observe!ReadHead \/ Observe!ReadEntry BY <1>17, ObserveReads
<1>18. CASE UNCHANGED observeVars
  BY <1>18 DEF ObserveInv, observeVars, Observe!TypeOK, HeadsOrdered, RowsKeyed, EntriesStored, StoredIs,
       Observe!Published, Observe!NothingAppearsBehind, Observe!AnsweredIsPublished, Observe!KeptForAudit, OpFits
<1> QED BY <1>1, <1>2, <1>3, <1>4, <1>5, <1>6, <1>7, <1>8, <1>9, <1>10, <1>11, <1>12, <1>13, <1>14, <1>15,
           <1>16, <1>17, <1>18 DEF Observe!Next

(***************************************************************************)
(* Intake, managed changes and forget on the edge worker.                  *)
(***************************************************************************)
EdgeClaims == Receipts \X (1..PlanSize)
EdgeChanges == [state : {"none", "prepared", "reconciling", "confirmed", "discarded"},
                kind : {"delete", "suppress", "correct"},
                targets : SUBSET EdgeClaims, done : SUBSET EdgeClaims]
EdgePasses == [at : {"none", "opening", "planning", "reviewing", "closing", "finish", "fail", "ended"},
               epoch : 0..MaxEdgeEpoch, n : 0..PlanSize]
Underway == {"reconciling", "confirmed"}
Forming == {"planning", "reviewing"}

\* A change that was begun has excluded its source, and the passes over the
\* source that still run were admitted before it.
PassesFenced(chs, ctl) ==
  \A o \in Edge!Operations : chs[o].state \in Underway =>
    /\ o[1] \in suppressed
    /\ \A k \in Receipts : intake[k].source = o[1] /\ edPass[k].at \in Forming => edPass[k].epoch < ctl.epoch

\* A receipt is available only once its pass ended, and what a pass wrote is
\* numbered by the pass.
IntakeFollowsPass ==
  \A k \in Receipts :
    /\ intake[k].state = "none" => intake[k].source = Nothing /\ edPass[k].at = "none"
    /\ intake[k].state # "none" => intake[k].source \in EdgeSources
    /\ intake[k].state = "available" => edPass[k].at = "ended"
    /\ edPass[k].at \in {"none", "opening"} => edPass[k].n = 0
    /\ edPass[k].epoch <= control.epoch

HeldIsNumbered == \A h \in held : h[2] <= edPass[h[1]].n

\* A source that was forgotten has no receipt that may still become available.
ForgottenIsSettled ==
  \A s \in EdgeSources : forgot[s] = "completed" =>
    \A k \in Receipts : intake[k].source = s => intake[k].state # "recorded"

\* A statement is of a source whose observation was captured, by a receipt of
\* that source.
CapturerIsKnown ==
  /\ \A s \in EdgeSources : capturedBy[s] # Nothing => intake[capturedBy[s]].source = s
  /\ \A h \in held : capturedBy[intake[h[1]].source] # Nothing

\* Once a source was forgotten, its Evidence is gone or is of a failed pass.
ForgottenIsTraceless ==
  \A s \in EdgeSources : forgot[s] = "completed" =>
    capturedBy[s] = Nothing \/ intake[capturedBy[s]].state = "failed"

EdgeTypes ==
  /\ Edge!TypeOK
  /\ change \in [Edge!Operations -> EdgeChanges]

EdgeInv ==
  /\ EdgeTypes
  /\ control.pending # Nothing => change[control.pending].state = "reconciling"
  /\ PassesFenced(change, control)
  /\ IntakeFollowsPass
  /\ HeldIsNumbered
  /\ ForgottenIsSettled
  /\ CapturerIsKnown
  /\ ForgottenIsTraceless

LEMMA EdgeFacts ==
  PlanSize \in Nat /\ MaxEdgeEpoch \in Nat /\ Nothing \notin EdgeSources /\ Nothing \notin Receipts /\ Nothing \notin Edge!Operations
BY EdgeAssumption DEF EdgeAssumption, Edge!Operations

\* The types, piece by piece.
LEMMA EdgeTyped ==
  EdgeTypes <=>
    /\ control \in [epoch : 0..MaxEdgeEpoch, pending : Edge!Operations \cup {Nothing}]
    /\ scrub \subseteq EdgeClaims /\ suppressed \subseteq EdgeSources
    /\ intake \in [Receipts -> [source : EdgeSources \cup {Nothing},
                                state : {"none", "recorded", "available", "failed"}]]
    /\ held \subseteq EdgeClaims
    /\ capturedBy \in [EdgeSources -> Receipts \cup {Nothing}]
    /\ forgot \in [EdgeSources -> {"none", "completed", "partial", "failed"}]
    /\ change \in [Edge!Operations -> EdgeChanges]
    /\ \A o \in Edge!Operations : change[o].done \subseteq change[o].targets
    /\ edPass \in [Receipts -> EdgePasses]
<1>1. change \in [Edge!Operations -> EdgeChanges] =>
        \A o \in Edge!Operations : 
          /\ change[o].state \in {"none", "prepared", "reconciling", "confirmed", "discarded"}
          /\ change[o].kind \in {"delete", "suppress", "correct"}
  BY DEF EdgeChanges
<1> QED BY <1>1 DEF EdgeTypes, Edge!TypeOK, EdgeClaims, EdgePasses

LEMMA EdgeTypedNext ==
  ASSUME control' \in [epoch : 0..MaxEdgeEpoch, pending : Edge!Operations \cup {Nothing}],
         scrub' \subseteq EdgeClaims, suppressed' \subseteq EdgeSources,
         intake' \in [Receipts -> [source : EdgeSources \cup {Nothing},
                                   state : {"none", "recorded", "available", "failed"}]],
         held' \subseteq EdgeClaims,
         capturedBy' \in [EdgeSources -> Receipts \cup {Nothing}],
         forgot' \in [EdgeSources -> {"none", "completed", "partial", "failed"}],
         change' \in [Edge!Operations -> EdgeChanges],
         \A o \in Edge!Operations : change'[o].done \subseteq change'[o].targets,
         edPass' \in [Receipts -> EdgePasses]
  PROVE EdgeTypes'
<1>1. \A o \in Edge!Operations :
          /\ change'[o].state \in {"none", "prepared", "reconciling", "confirmed", "discarded"}
          /\ change'[o].kind \in {"delete", "suppress", "correct"}
  BY DEF EdgeChanges
<1> QED BY <1>1 DEF EdgeTypes, Edge!TypeOK, EdgeClaims, EdgePasses

LEMMA EdgeInit == Edge!Init => EdgeInv
<1> SUFFICES ASSUME Edge!Init PROVE EdgeInv OBVIOUS
<1>1. /\ control = [epoch |-> 0, pending |-> Nothing] /\ scrub = {} /\ suppressed = {}
      /\ intake = [k \in Receipts |-> [source |-> Nothing, state |-> "none"]]
      /\ held = {} /\ forgot = [s \in EdgeSources |-> "none"] /\ capturedBy = [s \in EdgeSources |-> Nothing]
      /\ change = [o \in Edge!Operations |-> [state |-> "none", kind |-> "delete", targets |-> {}, done |-> {}]]
      /\ edPass = [k \in Receipts |-> [at |-> "none", epoch |-> 0, n |-> 0]]
  BY DEF Edge!Init
<1>2. EdgeTypes
  <2>1. control \in [epoch : 0..MaxEdgeEpoch, pending : Edge!Operations \cup {Nothing}] BY <1>1, EdgeFacts
  <2>2. intake \in [Receipts -> [source : EdgeSources \cup {Nothing},
                                 state : {"none", "recorded", "available", "failed"}]] BY <1>1
  <2>3. change \in [Edge!Operations -> EdgeChanges] BY <1>1 DEF EdgeChanges
  <2>4. edPass \in [Receipts -> EdgePasses] BY <1>1, EdgeFacts DEF EdgePasses
  <2>5. \A o \in Edge!Operations : change[o].done \subseteq change[o].targets BY <1>1
  <2>6. forgot \in [EdgeSources -> {"none", "completed", "partial", "failed"}] BY <1>1
  <2> QED BY <1>1, <2>1, <2>2, <2>3, <2>4, <2>5, <2>6, EdgeTyped
<1>3. control.pending = Nothing /\ control.epoch = 0 BY <1>1
<1>4. PassesFenced(change, control) BY <1>1 DEF PassesFenced, Underway
<1>5. IntakeFollowsPass BY <1>1, <1>3 DEF IntakeFollowsPass
<1>6. HeldIsNumbered BY <1>1 DEF HeldIsNumbered
<1>7. ForgottenIsSettled BY <1>1 DEF ForgottenIsSettled
<1>8. CapturerIsKnown /\ ForgottenIsTraceless BY <1>1 DEF CapturerIsKnown, ForgottenIsTraceless
<1> QED BY <1>2, <1>3, <1>4, <1>5, <1>6, <1>7, <1>8 DEF EdgeInv

\* What is left of a forgotten source was captured by a pass that failed.
LEMMA EdgeErased == EdgeInv => Edge!CompletedIsErased
<1> SUFFICES ASSUME EdgeInv, NEW s \in EdgeSources, forgot[s] = "completed", NEW h \in Edge!OfSource(s)
             PROVE \E k \in Edge!IntakesOf(s) : capturedBy[s] = k /\ intake[k].state = "failed"
  BY DEF Edge!CompletedIsErased
<1>1. h \in held /\ intake[h[1]].source = s BY DEF Edge!OfSource
<1>2. capturedBy[s] # Nothing /\ intake[capturedBy[s]].source = s BY <1>1 DEF EdgeInv, CapturerIsKnown
<1>3. capturedBy[s] \in Receipts BY <1>2, EdgeTyped DEF EdgeInv
<1>4. intake[capturedBy[s]].state = "failed" BY <1>2 DEF EdgeInv, ForgottenIsTraceless
<1> QED BY <1>2, <1>3, <1>4 DEF Edge!IntakesOf

\* Proposals whose content was erased are discarded, the others stay.
LEMMA ScrubbedIs ==
  ASSUME NEW chs \in [Edge!Operations -> EdgeChanges], NEW gonefor, NEW x,
         \A o \in Edge!Operations : chs[o].done \subseteq chs[o].targets
  PROVE LET c == Edge!Scrubbed(chs, gonefor, x)
        IN /\ c \in [Edge!Operations -> EdgeChanges]
           /\ \A o \in Edge!Operations :
                /\ c[o].targets = chs[o].targets /\ c[o].done = chs[o].done
                /\ c[o].state = chs[o].state \/ (c[o].state = "discarded" /\ chs[o].state = "prepared" /\ o # x)
<1>1. PICK c : c = Edge!Scrubbed(chs, gonefor, x) OBVIOUS
<1>2. c = [o \in Edge!Operations |->
             IF o # x /\ chs[o].state = "prepared" /\ chs[o].targets \cap gonefor # {}
             THEN [chs[o] EXCEPT !.state = "discarded"] ELSE chs[o]]
  BY <1>1 DEF Edge!Scrubbed
<1>3. ASSUME NEW o \in Edge!Operations
      PROVE /\ c[o] \in EdgeChanges
            /\ c[o].targets = chs[o].targets /\ c[o].done = chs[o].done
            /\ c[o].state = chs[o].state \/ (c[o].state = "discarded" /\ chs[o].state = "prepared" /\ o # x)
  <2>1. chs[o] \in EdgeChanges OBVIOUS
  <2>2. CASE o # x /\ chs[o].state = "prepared" /\ chs[o].targets \cap gonefor # {}
    <3>1. c[o] = [chs[o] EXCEPT !.state = "discarded"] BY <1>2, <2>2
    <3> QED BY <2>1, <2>2, <3>1 DEF EdgeChanges
  <2>3. CASE ~ (o # x /\ chs[o].state = "prepared" /\ chs[o].targets \cap gonefor # {})
    <3>1. c[o] = chs[o] BY <1>2, <2>3
    <3> QED BY <2>1, <3>1
  <2> QED BY <2>2, <2>3
<1>4. c \in [Edge!Operations -> EdgeChanges] BY <1>2, <1>3
<1> QED BY <1>1, <1>3, <1>4

\* What applying a change does.
LEMMA ApplyIs ==
  ASSUME NEW o \in Edge!Operations, NEW ctl \in [epoch : 0..MaxEdgeEpoch, pending : Edge!Operations \cup {Nothing}],
         NEW chs \in [Edge!Operations -> EdgeChanges],
         \A q \in Edge!Operations : chs[q].done \subseteq chs[q].targets,
         Edge!Apply(o, ctl, chs)
  PROVE /\ change' \in [Edge!Operations -> EdgeChanges]
        /\ \A q \in Edge!Operations : change'[q].done \subseteq change'[q].targets
        /\ change'[o].state \in Underway
        /\ \A q \in Edge!Operations : q # o =>
             change'[q].state = chs[q].state \/ change'[q].state = "discarded"
        /\ held' \subseteq held
        /\ change'[o].state = "confirmed" => held' = held \ chs[o].targets
        /\ control' \in [epoch : 0..MaxEdgeEpoch, pending : Edge!Operations \cup {Nothing}]
        /\ control'.epoch = ctl.epoch
        /\ control'.pending # Nothing => control'.pending = o /\ change'[o].state = "reconciling"
        /\ scrub' \subseteq EdgeClaims
<1>1. chs[o] \in EdgeChanges OBVIOUS
<1>2. PICK d : d = IF chs[o].kind = "delete" THEN chs[o].targets ELSE {} OBVIOUS
<1>3. d \subseteq EdgeClaims BY <1>1, <1>2 DEF EdgeChanges
<1>4. PICK reached \in SUBSET chs[o].targets, sure \in BOOLEAN :
        /\ held' = held \ reached
        /\ sure => reached = chs[o].targets
        /\ change' = [Edge!Scrubbed(chs, IF sure THEN d ELSE {}, o)
                 EXCEPT ![o] = [chs[o] EXCEPT !.done = reached, !.state = IF sure THEN "confirmed" ELSE "reconciling"]]
        /\ control' = [ctl EXCEPT !.pending = IF sure THEN Nothing ELSE o]
        /\ scrub' = IF reached = chs[o].targets /\ ~sure THEN d ELSE {}
  BY <1>2, Zenon DEF Edge!Apply
<1>5. PICK g : g = IF sure THEN d ELSE {} OBVIOUS
<1>6. PICK c : c = Edge!Scrubbed(chs, g, o) OBVIOUS
<1>7. /\ c \in [Edge!Operations -> EdgeChanges]
      /\ \A q \in Edge!Operations :
                /\ c[q].targets = chs[q].targets /\ c[q].done = chs[q].done
                /\ c[q].state = chs[q].state \/ c[q].state = "discarded"
  BY <1>6, ScrubbedIs
<1>8. PICK y : y = IF sure THEN "confirmed" ELSE "reconciling" OBVIOUS
<1>9. y \in Underway /\ (y = "confirmed" <=> sure) BY <1>8 DEF Underway
<1>10. PICK e : e = [[chs[o] EXCEPT !.done = reached] EXCEPT !.state = y] OBVIOUS
<1>11. e \in EdgeChanges /\ e.state = y /\ e.done = reached /\ e.targets = chs[o].targets
  <2>1. PICK f : f = [chs[o] EXCEPT !.done = reached] OBVIOUS
  <2>2. reached \in SUBSET EdgeClaims BY <1>1, <1>4 DEF EdgeChanges
  <2>3. f \in EdgeChanges /\ f.done = reached /\ f.targets = chs[o].targets BY <1>1, <2>1, <2>2 DEF EdgeChanges
  <2>4. e = [f EXCEPT !.state = y] BY <1>10, <2>1
  <2> QED BY <1>9, <2>3, <2>4 DEF EdgeChanges, Underway
<1>12. change' = [c EXCEPT ![o] = e] BY <1>4, <1>5, <1>6, <1>8, <1>10
<1>13. change' \in [Edge!Operations -> EdgeChanges] /\ change'[o] = e
       /\ \A q \in Edge!Operations : q # o => change'[q] = c[q]
  BY <1>7, <1>11, <1>12
<1>14. \A q \in Edge!Operations : change'[q].done \subseteq change'[q].targets
  <2> TAKE q \in Edge!Operations
  <2>1. CASE q = o BY <1>4, <1>11, <1>13, <2>1
  <2>2. CASE q # o BY <1>7, <1>13, <2>2
  <2> QED BY <2>1, <2>2
<1>15. /\ control' \in [epoch : 0..MaxEdgeEpoch, pending : Edge!Operations \cup {Nothing}]
       /\ control'.epoch = ctl.epoch /\ control'.pending = IF sure THEN Nothing ELSE o
  BY <1>4
<1>16. scrub' \subseteq EdgeClaims BY <1>3, <1>4
<1> QED BY <1>4, <1>7, <1>8, <1>9, <1>11, <1>13, <1>14, <1>15, <1>16 DEF Underway

\* The invariant as the steps use it.
LEMMA EdgeKnown ==
  ASSUME EdgeInv
  PROVE /\ control \in [epoch : 0..MaxEdgeEpoch, pending : Edge!Operations \cup {Nothing}]
        /\ control.epoch \in 0..MaxEdgeEpoch /\ control.pending \in Edge!Operations \cup {Nothing}
        /\ scrub \subseteq EdgeClaims /\ suppressed \subseteq EdgeSources
        /\ intake \in [Receipts -> [source : EdgeSources \cup {Nothing},
                                    state : {"none", "recorded", "available", "failed"}]]
        /\ held \subseteq EdgeClaims
        /\ capturedBy \in [EdgeSources -> Receipts \cup {Nothing}]
        /\ forgot \in [EdgeSources -> {"none", "completed", "partial", "failed"}]
        /\ change \in [Edge!Operations -> EdgeChanges]
        /\ \A o \in Edge!Operations : change[o].done \subseteq change[o].targets
        /\ edPass \in [Receipts -> EdgePasses]
        /\ control.pending # Nothing => change[control.pending].state = "reconciling"
<1>1. /\ control \in [epoch : 0..MaxEdgeEpoch, pending : Edge!Operations \cup {Nothing}]
      /\ scrub \subseteq EdgeClaims /\ suppressed \subseteq EdgeSources
      /\ intake \in [Receipts -> [source : EdgeSources \cup {Nothing},
                                  state : {"none", "recorded", "available", "failed"}]]
      /\ held \subseteq EdgeClaims
      /\ capturedBy \in [EdgeSources -> Receipts \cup {Nothing}]
      /\ forgot \in [EdgeSources -> {"none", "completed", "partial", "failed"}]
      /\ change \in [Edge!Operations -> EdgeChanges]
      /\ \A o \in Edge!Operations : change[o].done \subseteq change[o].targets
      /\ edPass \in [Receipts -> EdgePasses]
  BY EdgeTyped DEF EdgeInv
<1> QED BY <1>1 DEF EdgeInv

\* A statement is of a receipt that was admitted.
LEMMA HeldIsAdmitted ==
  ASSUME EdgeInv, NEW h \in held
  PROVE h \in EdgeClaims /\ h[1] \in Receipts /\ intake[h[1]].source \in EdgeSources /\ 1 <= edPass[h[1]].n
<1>1. h \in EdgeClaims BY EdgeKnown
<1>2. h[1] \in Receipts /\ h[2] \in 1..PlanSize BY <1>1 DEF EdgeClaims
<1>3. h[2] <= edPass[h[1]].n BY DEF EdgeInv, HeldIsNumbered
<1>4. edPass[h[1]].n \in 0..PlanSize
  <2>1. edPass[h[1]] \in EdgePasses BY <1>2, EdgeKnown
  <2> QED BY <2>1 DEF EdgePasses
<1>5. 1 <= edPass[h[1]].n /\ edPass[h[1]].n # 0 BY <1>2, <1>3, <1>4, EdgeFacts
<1>6. edPass[h[1]].at # "none" BY <1>2, <1>5 DEF EdgeInv, IntakeFollowsPass
<1>7. intake[h[1]].state # "none" BY <1>2, <1>6 DEF EdgeInv, IntakeFollowsPass
<1>8. intake[h[1]].source \in EdgeSources BY <1>2, <1>7 DEF EdgeInv, IntakeFollowsPass
<1> QED BY <1>1, <1>2, <1>5, <1>8

\* A step of the changes: what was excluded stays excluded, and a change that
\* begins raises the epoch.
LEMMA EdgeChanging ==
  ASSUME EdgeInv, UNCHANGED <<intake, edPass>>,
         control' \in [epoch : 0..MaxEdgeEpoch, pending : Edge!Operations \cup {Nothing}],
         control.epoch <= control'.epoch,
         scrub' \subseteq EdgeClaims,
         suppressed \subseteq suppressed', suppressed' \subseteq EdgeSources,
         held' \subseteq held,
         change' \in [Edge!Operations -> EdgeChanges],
         \A o \in Edge!Operations : change'[o].done \subseteq change'[o].targets,
         control'.pending # Nothing => change'[control'.pending].state = "reconciling",
         \A o \in Edge!Operations : change'[o].state \in Underway =>
            change[o].state \in Underway \/ (o[1] \in suppressed' /\ control.epoch < control'.epoch),
         forgot' \in [EdgeSources -> {"none", "completed", "partial", "failed"}],
         \A s \in EdgeSources : forgot'[s] = "completed" =>
            \/ forgot[s] = "completed"
            \/ /\ \A k \in Receipts : intake[k].source = s => intake[k].state # "recorded"
               /\ capturedBy'[s] = Nothing \/ intake[capturedBy'[s]].state = "failed",
         capturedBy' \in [EdgeSources -> Receipts \cup {Nothing}],
         \A s \in EdgeSources :
            \/ capturedBy'[s] = capturedBy[s]
            \/ capturedBy'[s] = Nothing /\ \A h \in held' : intake[h[1]].source # s
  PROVE EdgeInv'
<1>1. EdgeTypes /\ PassesFenced(change, control) /\ IntakeFollowsPass /\ HeldIsNumbered /\ ForgottenIsSettled
      /\ CapturerIsKnown /\ ForgottenIsTraceless
  BY DEF EdgeInv
<1>2. /\ intake \in [Receipts -> [source : EdgeSources \cup {Nothing},
                                 state : {"none", "recorded", "available", "failed"}]]
      /\ held \subseteq EdgeClaims /\ edPass \in [Receipts -> EdgePasses]
      /\ control \in [epoch : 0..MaxEdgeEpoch, pending : Edge!Operations \cup {Nothing}]
  BY <1>1, EdgeTyped
<1>3. EdgeTypes'
  <2>1. held' \subseteq EdgeClaims BY <1>2
  <2> QED BY <1>2, <2>1, EdgeTypedNext
<1>4. control.epoch \in Nat /\ control'.epoch \in Nat BY <1>2, EdgeFacts
<1>5. \A k \in Receipts : edPass[k].epoch \in Nat BY <1>2, EdgeFacts DEF EdgePasses
<1>6. PassesFenced(change, control)'
  <2> SUFFICES ASSUME NEW o \in Edge!Operations, change'[o].state \in Underway
               PROVE /\ o[1] \in suppressed'
                     /\ \A k \in Receipts : intake[k].source = o[1] /\ edPass[k].at \in Forming =>
                          edPass[k].epoch < control'.epoch
    BY DEF PassesFenced
  <2>1. CASE change[o].state \in Underway
    <3>1. /\ o[1] \in suppressed
          /\ \A k \in Receipts : intake[k].source = o[1] /\ edPass[k].at \in Forming =>
                                   edPass[k].epoch < control.epoch
      BY <1>1, <2>1 DEF PassesFenced
    <3>2. \A k \in Receipts : edPass[k].epoch < control.epoch => edPass[k].epoch < control'.epoch BY <1>4, <1>5
    <3> QED BY <3>1, <3>2
  <2>2. CASE o[1] \in suppressed' /\ control.epoch < control'.epoch
    <3>1. \A k \in Receipts : edPass[k].epoch <= control.epoch BY <1>1 DEF IntakeFollowsPass
    <3>2. \A k \in Receipts : edPass[k].epoch < control'.epoch BY <1>4, <1>5, <2>2, <3>1
    <3> QED BY <2>2, <3>2
  <2> QED BY <2>1, <2>2
<1>7. IntakeFollowsPass'
  <2>1. \A k \in Receipts : edPass[k].epoch <= control.epoch BY <1>1 DEF IntakeFollowsPass
  <2>2. \A k \in Receipts : edPass[k].epoch <= control'.epoch BY <1>4, <1>5, <2>1
  <2> QED BY <1>1, <2>2 DEF IntakeFollowsPass
<1>8. HeldIsNumbered' BY <1>1 DEF HeldIsNumbered
<1>9. ForgottenIsSettled' BY <1>1 DEF ForgottenIsSettled
<1>10. CapturerIsKnown'
  <2>1. \A s \in EdgeSources : capturedBy'[s] # Nothing => intake[capturedBy'[s]].source = s
    BY <1>1 DEF CapturerIsKnown
  <2>2. ASSUME NEW h \in held' PROVE capturedBy'[intake[h[1]].source] # Nothing
    <3>1. h \in held /\ intake[h[1]].source \in EdgeSources BY HeldIsAdmitted
    <3>2. capturedBy[intake[h[1]].source] # Nothing BY <1>1, <3>1 DEF CapturerIsKnown
    <3> QED BY <3>1, <3>2
  <2> QED BY <2>1, <2>2 DEF CapturerIsKnown
<1>11. ForgottenIsTraceless' BY <1>1 DEF ForgottenIsTraceless
<1> QED BY <1>3, <1>6, <1>7, <1>8, <1>9, <1>10, <1>11 DEF EdgeInv

\* A step of a pass and of its receipt.
LEMMA EdgePassing ==
  ASSUME EdgeInv, UNCHANGED <<control, scrub, suppressed, change, forgot>>,
         NEW k \in Receipts, NEW p \in EdgePasses,
         NEW r \in [source : EdgeSources \cup {Nothing}, state : {"none", "recorded", "available", "failed"}],
         edPass' = [edPass EXCEPT ![k] = p], intake' = [intake EXCEPT ![k] = r],
         r.state # "none" /\ r.source \in EdgeSources,
         r.state = "available" => p.at = "ended",
         p.at \in {"none", "opening"} => p.n = 0,
         p.epoch <= control.epoch, edPass[k].n <= p.n,
         held \subseteq held', held' \subseteq held \cup {<<k, i>> : i \in 1..p.n},
         p.at \in Forming => r.source \notin suppressed
                             \/ (edPass[k].at \in Forming /\ p.epoch = edPass[k].epoch /\ r.source = intake[k].source),
         r.state = "recorded" => r = intake[k] \/ forgot[r.source] # "completed",
         r.state = "available" => intake[k].state = "available" \/ forgot[r.source] # "completed",
         r.source = intake[k].source \/ (forgot[r.source] # "completed" /\ intake[k].state = "none"),
         held' # held => r.state # "available" /\ capturedBy'[r.source] # Nothing,
         capturedBy' \in [EdgeSources -> Receipts \cup {Nothing}],
         \A s \in EdgeSources :
            \/ capturedBy'[s] = capturedBy[s]
            \/ s = r.source /\ capturedBy[s] = Nothing /\ capturedBy'[s] = k /\ r.state # "available"
  PROVE EdgeInv'
<1>1. EdgeTypes /\ PassesFenced(change, control) /\ IntakeFollowsPass /\ HeldIsNumbered /\ ForgottenIsSettled
      /\ CapturerIsKnown /\ ForgottenIsTraceless
  BY DEF EdgeInv
<1>2. /\ intake \in [Receipts -> [source : EdgeSources \cup {Nothing},
                                 state : {"none", "recorded", "available", "failed"}]]
      /\ held \subseteq EdgeClaims /\ edPass \in [Receipts -> EdgePasses]
      /\ control \in [epoch : 0..MaxEdgeEpoch, pending : Edge!Operations \cup {Nothing}]
      /\ scrub \subseteq EdgeClaims /\ suppressed \subseteq EdgeSources
      /\ forgot \in [EdgeSources -> {"none", "completed", "partial", "failed"}]
      /\ capturedBy \in [EdgeSources -> Receipts \cup {Nothing}]
      /\ change \in [Edge!Operations -> EdgeChanges]
      /\ \A o \in Edge!Operations : change[o].done \subseteq change[o].targets
  BY <1>1, EdgeTyped
<1>3. /\ intake' \in [Receipts -> [source : EdgeSources \cup {Nothing},
                                 state : {"none", "recorded", "available", "failed"}]]
      /\ intake'[k] = r /\ \A j \in Receipts : j # k => intake'[j] = intake[j]
  BY <1>2
<1>4. edPass' \in [Receipts -> EdgePasses] /\ edPass'[k] = p /\ \A j \in Receipts : j # k => edPass'[j] = edPass[j]
  BY <1>2
<1>5. p.n \in 0..PlanSize /\ edPass[k].n \in 0..PlanSize /\ p.epoch \in 0..MaxEdgeEpoch BY <1>2 DEF EdgePasses
<1>6. EdgeTypes'
  <2>1. {<<k, i>> : i \in 1..p.n} \subseteq EdgeClaims
    <3>1. \A i \in 1..p.n : i \in 1..PlanSize BY <1>5, EdgeFacts
    <3> QED BY <3>1 DEF EdgeClaims
  <2>2. held' \subseteq EdgeClaims BY <1>2, <2>1
  <2> QED BY <1>2, <1>3, <1>4, <2>2, EdgeTypedNext
<1>7. (control.pending # Nothing => change[control.pending].state = "reconciling")' BY DEF EdgeInv
<1>8. PassesFenced(change, control)'
  <2> SUFFICES ASSUME NEW o \in Edge!Operations, change[o].state \in Underway
               PROVE /\ o[1] \in suppressed
                     /\ \A j \in Receipts : intake'[j].source = o[1] /\ edPass'[j].at \in Forming =>
                          edPass'[j].epoch < control.epoch
    BY DEF PassesFenced
  <2>1. /\ o[1] \in suppressed
        /\ \A j \in Receipts : intake[j].source = o[1] /\ edPass[j].at \in Forming =>
                                   edPass[j].epoch < control.epoch
    BY <1>1 DEF PassesFenced
  <2>2. ASSUME NEW j \in Receipts, intake'[j].source = o[1], edPass'[j].at \in Forming
        PROVE edPass'[j].epoch < control.epoch
    <3>1. CASE j # k BY <1>3, <1>4, <2>1, <2>2, <3>1
    <3>2. CASE j = k BY <1>3, <1>4, <2>1, <2>2, <3>2
    <3> QED BY <3>1, <3>2
  <2> QED BY <2>1, <2>2
<1>9. IntakeFollowsPass'
  <2> SUFFICES ASSUME NEW j \in Receipts
               PROVE /\ intake'[j].state = "none" => intake'[j].source = Nothing /\ edPass'[j].at = "none"
                     /\ intake'[j].state # "none" => intake'[j].source \in EdgeSources
                     /\ intake'[j].state = "available" => edPass'[j].at = "ended"
                     /\ edPass'[j].at \in {"none", "opening"} => edPass'[j].n = 0
                     /\ edPass'[j].epoch <= control.epoch
    BY DEF IntakeFollowsPass
  <2>1. CASE j # k BY <1>1, <1>3, <1>4, <2>1 DEF IntakeFollowsPass
  <2>2. CASE j = k BY <1>3, <1>4, <2>2
  <2> QED BY <2>1, <2>2
<1>10. HeldIsNumbered'
  <2> SUFFICES ASSUME NEW h \in held' PROVE h[2] <= edPass'[h[1]].n BY DEF HeldIsNumbered
  <2>1. CASE h \in held
    <3>1. h[2] <= edPass[h[1]].n /\ h[1] \in Receipts /\ h[2] \in 1..PlanSize
      BY <1>1, <1>2, <2>1 DEF HeldIsNumbered, EdgeClaims
    <3>2. CASE h[1] # k BY <1>4, <3>1, <3>2
    <3>3. CASE h[1] = k
      <4>1. h[2] <= edPass[k].n /\ edPass'[h[1]].n = p.n BY <1>4, <3>1, <3>3
      <4> QED BY <1>5, <3>1, <4>1, EdgeFacts
    <3> QED BY <3>2, <3>3
  <2>2. CASE h \in {<<k, i>> : i \in 1..p.n} BY <1>4, <1>5, <2>2
  <2> QED BY <2>1, <2>2
<1>11. ForgottenIsSettled'
  <2> SUFFICES ASSUME NEW s \in EdgeSources, forgot[s] = "completed", NEW j \in Receipts, intake'[j].source = s
               PROVE intake'[j].state # "recorded"
    BY DEF ForgottenIsSettled
  <2>1. CASE j # k BY <1>1, <1>3, <2>1 DEF ForgottenIsSettled
  <2>2. CASE j = k BY <1>1, <1>3, <2>2 DEF ForgottenIsSettled
  <2> QED BY <2>1, <2>2
<1>12. CapturerIsKnown'
  <2>1. ASSUME NEW s \in EdgeSources, capturedBy'[s] # Nothing PROVE intake'[capturedBy'[s]].source = s
    <3>1. CASE capturedBy'[s] = capturedBy[s]
      <4>1. PICK j \in Receipts : j = capturedBy[s] BY <2>1, <3>1
      <4>2. intake[j].source = s BY <1>1, <2>1, <3>1, <4>1 DEF CapturerIsKnown
      <4>3. CASE j # k BY <1>3, <3>1, <4>1, <4>2, <4>3
      <4>4. CASE j = k
        <5>1. intake[k].state # "none" BY <1>1, <4>2, <4>4, EdgeFacts DEF IntakeFollowsPass
        <5> QED BY <1>3, <3>1, <4>1, <4>2, <4>4, <5>1
      <4> QED BY <4>3, <4>4
    <3>2. CASE s = r.source /\ capturedBy'[s] = k BY <1>3, <3>2
    <3> QED BY <3>1, <3>2
  <2>2. ASSUME NEW h \in held' PROVE capturedBy'[intake'[h[1]].source] # Nothing
    <3>1. CASE h \in held
      <4>1. h[1] \in Receipts /\ intake[h[1]].source \in EdgeSources BY <3>1, HeldIsAdmitted
      <4>2. capturedBy[intake[h[1]].source] # Nothing BY <1>1, <3>1 DEF CapturerIsKnown
      <4>3. capturedBy'[intake[h[1]].source] # Nothing BY <4>1, <4>2
      <4>4. CASE h[1] # k BY <1>3, <4>1, <4>3, <4>4
      <4>5. CASE h[1] = k
        <5>1. intake[k].state # "none" BY <1>1, <4>1, <4>5, EdgeFacts DEF IntakeFollowsPass
        <5> QED BY <1>3, <4>3, <4>5, <5>1
      <4> QED BY <4>4, <4>5
    <3>2. CASE h \notin held
      <4>1. h[1] = k /\ held' # held BY <2>2, <3>2
      <4> QED BY <1>3, <4>1
    <3> QED BY <3>1, <3>2
  <2> QED BY <2>1, <2>2 DEF CapturerIsKnown
<1>13. ForgottenIsTraceless'
  <2> SUFFICES ASSUME NEW s \in EdgeSources, forgot[s] = "completed", capturedBy'[s] # Nothing
               PROVE intake'[capturedBy'[s]].state = "failed"
    BY DEF ForgottenIsTraceless
  <2>1. r.source = s => r.state # "available" \/ intake[k].state = "available" OBVIOUS
  <2>2. r.source = s => r.state # "recorded" BY <1>3, <1>11 DEF ForgottenIsSettled
  <2>3. CASE capturedBy'[s] = capturedBy[s]
    <3>1. PICK j \in Receipts : j = capturedBy[s] BY <2>3
    <3>2. intake[j].state = "failed" /\ intake[j].source = s
      BY <1>1, <2>3, <3>1 DEF ForgottenIsTraceless, CapturerIsKnown
    <3>3. CASE j # k BY <1>3, <2>3, <3>1, <3>2, <3>3
    <3>4. CASE j = k
      <4>1. r.source = s BY <3>2, <3>4
      <4>2. r.state # "available" BY <2>1, <3>2, <3>4, <4>1
      <4> QED BY <1>3, <2>2, <2>3, <3>1, <3>4, <4>1, <4>2
    <3> QED BY <3>3, <3>4
  <2>4. CASE s = r.source /\ capturedBy'[s] = k /\ r.state # "available" BY <1>3, <2>2, <2>4
  <2> QED BY <2>3, <2>4
<1> QED BY <1>6, <1>7, <1>8, <1>9, <1>10, <1>11, <1>12, <1>13 DEF EdgeInv

\* Proposals and their end touch nothing but the proposal.
LEMMA EdgeProposes ==
  ASSUME EdgeInv, UNCHANGED <<control, scrub, suppressed, intake, capturedBy, forgot, held, edPass>>,
         NEW o \in Edge!Operations, NEW c \in EdgeChanges, change' = [change EXCEPT ![o] = c],
         c.done \subseteq c.targets, c.state \notin Underway, control.pending # o
  PROVE EdgeInv'
<1>1. control \in [epoch : 0..MaxEdgeEpoch, pending : Edge!Operations \cup {Nothing}] /\ control.epoch \in 0..MaxEdgeEpoch
      /\ control.pending \in Edge!Operations \cup {Nothing}
      /\ scrub \subseteq EdgeClaims /\ suppressed \subseteq EdgeSources
      /\ forgot \in [EdgeSources -> {"none", "completed", "partial", "failed"}]
      /\ capturedBy \in [EdgeSources -> Receipts \cup {Nothing}]
      /\ change \in [Edge!Operations -> EdgeChanges]
      /\ (\A q \in Edge!Operations : change[q].done \subseteq change[q].targets)
      /\ (control.pending # Nothing => change[control.pending].state = "reconciling")
  BY EdgeKnown
<1>2. change' \in [Edge!Operations -> EdgeChanges] /\ change'[o] = c
      /\ \A q \in Edge!Operations : q # o => change'[q] = change[q]
  BY <1>1
<1>3. \A q \in Edge!Operations : change'[q].done \subseteq change'[q].targets BY <1>1, <1>2
<1>4. \A q \in Edge!Operations : change'[q].state \in Underway => change[q].state \in Underway BY <1>2
<1>5. control'.pending # Nothing => change'[control'.pending].state = "reconciling" BY <1>1, <1>2
<1>6. control.epoch <= control'.epoch BY <1>1, EdgeFacts
<1> QED BY <1>1, <1>2, <1>3, <1>4, <1>5, <1>6, EdgeChanging

LEMMA EdgeDiscard ==
  ASSUME EdgeInv, NEW o \in Edge!Operations, Edge!Discard(o) PROVE EdgeInv'
<1>1. UNCHANGED <<control, scrub, suppressed, intake, capturedBy, forgot, held, edPass>> /\ control.pending # o
      /\ change' = [change EXCEPT ![o].state = "discarded"]
  BY DEF Edge!Discard, Edge!ledger
<1>2. change[o] \in EdgeChanges /\ change[o].done \subseteq change[o].targets /\ change \in [Edge!Operations -> EdgeChanges]
  BY EdgeKnown
<1>3. PICK c : c = [change[o] EXCEPT !.state = "discarded"] OBVIOUS
<1>4. c \in EdgeChanges /\ c.state = "discarded" /\ c.done = change[o].done /\ c.targets = change[o].targets
  BY <1>2, <1>3 DEF EdgeChanges
<1>5. change' = [change EXCEPT ![o] = c] BY <1>1, <1>2, <1>3
<1>6. c.state \notin Underway BY <1>4 DEF Underway
<1> QED BY <1>1, <1>2, <1>4, <1>5, <1>6, EdgeProposes

LEMMA EdgePrepare ==
  ASSUME EdgeInv, NEW h \in held, NEW kind \in {"delete", "suppress", "correct"}, Edge!Prepare(h, kind) PROVE EdgeInv'
<1>1. PICK o : o = <<intake[h[1]].source, "user">> OBVIOUS
<1>2. o \in Edge!Operations BY <1>1, HeldIsAdmitted DEF Edge!Operations
<1>3. PICK c : c = [state |-> "prepared", kind |-> kind, targets |-> Edge!Preview(h, kind), done |-> {}] OBVIOUS
<1>4. UNCHANGED <<control, scrub, suppressed, intake, capturedBy, forgot, held, edPass>> /\ control.pending = Nothing
      /\ change' = [change EXCEPT ![o] = c]
  BY <1>1, <1>3 DEF Edge!Prepare, Edge!ledger, Edge!Check
<1>5. Edge!Preview(h, kind) \in SUBSET EdgeClaims
  <2>1. held \subseteq EdgeClaims BY EdgeKnown
  <2> QED BY <2>1 DEF Edge!Preview, Edge!OfSource
<1>6. c \in EdgeChanges /\ c.state = "prepared" /\ c.done = {} BY <1>3, <1>5 DEF EdgeChanges
<1>7. c.state \notin Underway /\ c.done \subseteq c.targets BY <1>6 DEF Underway
<1>8. control.pending # o BY <1>2, <1>4, EdgeFacts
<1> QED BY <1>2, <1>4, <1>6, <1>7, <1>8, EdgeProposes

\* A change is applied under a new epoch, or under the one its first attempt raised.
LEMMA EdgeApplies ==
  ASSUME EdgeInv, UNCHANGED <<intake, edPass>>, NEW o \in Edge!Operations,
         NEW ctl \in [epoch : 0..MaxEdgeEpoch, pending : Edge!Operations \cup {Nothing}],
         NEW chs \in [Edge!Operations -> EdgeChanges],
         \A q \in Edge!Operations : chs[q].done \subseteq chs[q].targets,
         \A q \in Edge!Operations : q # o /\ chs[q].state \in Underway => change[q].state \in Underway,
         Edge!Apply(o, ctl, chs),
         control.epoch <= ctl.epoch,
         change[o].state \in Underway \/ (o[1] \in suppressed' /\ control.epoch < ctl.epoch),
         suppressed \subseteq suppressed', suppressed' \subseteq EdgeSources,
         forgot' \in [EdgeSources -> {"none", "completed", "partial", "failed"}],
         \A s \in EdgeSources : forgot'[s] = "completed" =>
            \/ forgot[s] = "completed"
            \/ /\ \A k \in Receipts : intake[k].source = s => intake[k].state # "recorded"
               /\ capturedBy'[s] = Nothing \/ intake[capturedBy'[s]].state = "failed",
         capturedBy' \in [EdgeSources -> Receipts \cup {Nothing}],
         \A s \in EdgeSources :
            \/ capturedBy'[s] = capturedBy[s]
            \/ capturedBy'[s] = Nothing /\ \A h \in held' : intake[h[1]].source # s
  PROVE EdgeInv'
<1>1. /\ change' \in [Edge!Operations -> EdgeChanges]
      /\ \A q \in Edge!Operations : change'[q].done \subseteq change'[q].targets
      /\ change'[o].state \in Underway
      /\ \A q \in Edge!Operations : q # o =>
             change'[q].state = chs[q].state \/ change'[q].state = "discarded"
      /\ held' \subseteq held
      /\ control' \in [epoch : 0..MaxEdgeEpoch, pending : Edge!Operations \cup {Nothing}]
      /\ control'.epoch = ctl.epoch
      /\ control'.pending # Nothing => control'.pending = o /\ change'[o].state = "reconciling"
      /\ scrub' \subseteq EdgeClaims
  BY ApplyIs
<1>2. control'.pending # Nothing => change'[control'.pending].state = "reconciling" BY <1>1
<1>3. ASSUME NEW q \in Edge!Operations, change'[q].state \in Underway
      PROVE change[q].state \in Underway \/ (q[1] \in suppressed' /\ control.epoch < control'.epoch)
  <2>1. CASE q = o BY <1>1, <2>1
  <2>2. CASE q # o
    <3>1. chs[q].state \in Underway BY <1>1, <1>3, <2>2 DEF Underway
    <3> QED BY <2>2, <3>1
  <2> QED BY <2>1, <2>2
<1>4. control.epoch <= control'.epoch BY <1>1
<1> QED BY <1>1, <1>2, <1>3, <1>4, EdgeChanging

LEMMA EdgeCommitChange ==
  ASSUME EdgeInv, NEW o \in Edge!Operations, Edge!CommitChange(o) PROVE EdgeInv'
<1>1. UNCHANGED <<intake, capturedBy, forgot, edPass>> /\ control.epoch < MaxEdgeEpoch /\ suppressed' = suppressed \cup {o[1]}
      /\ Edge!Apply(o, [epoch |-> control.epoch + 1, pending |-> o], change)
  BY DEF Edge!CommitChange, Edge!ledger
<1>2. PICK c : c = [epoch |-> control.epoch + 1, pending |-> o] OBVIOUS
<1>3. control.epoch \in 0..MaxEdgeEpoch /\ suppressed \subseteq EdgeSources
      /\ forgot \in [EdgeSources -> {"none", "completed", "partial", "failed"}]
      /\ capturedBy \in [EdgeSources -> Receipts \cup {Nothing}]
      /\ change \in [Edge!Operations -> EdgeChanges]
      /\ (\A q \in Edge!Operations : change[q].done \subseteq change[q].targets)
  BY EdgeKnown
<1>4. c \in [epoch : 0..MaxEdgeEpoch, pending : Edge!Operations \cup {Nothing}] /\ c.epoch = control.epoch + 1
  <2>1. control.epoch + 1 \in 0..MaxEdgeEpoch BY <1>1, <1>3, EdgeFacts
  <2> QED BY <1>2, <2>1
<1>5. control.epoch < c.epoch /\ control.epoch <= c.epoch BY <1>3, <1>4, EdgeFacts
<1>6. o[1] \in EdgeSources BY DEF Edge!Operations
<1>7. Edge!Apply(o, c, change) BY <1>1, <1>2
<1>8. o[1] \in suppressed' /\ suppressed \subseteq suppressed' /\ suppressed' \subseteq EdgeSources BY <1>1, <1>3, <1>6
<1> QED BY <1>1, <1>3, <1>4, <1>5, <1>7, <1>8, EdgeApplies

LEMMA EdgeRecover ==
  ASSUME EdgeInv, Edge!Recover PROVE EdgeInv'
<1>1. UNCHANGED <<suppressed, intake, capturedBy, forgot, edPass>> BY DEF Edge!Recover, Edge!ledger
<1>2. /\ control \in [epoch : 0..MaxEdgeEpoch, pending : Edge!Operations \cup {Nothing}]
      /\ control.epoch \in 0..MaxEdgeEpoch /\ control.pending \in Edge!Operations \cup {Nothing}
      /\ suppressed \subseteq EdgeSources
      /\ forgot \in [EdgeSources -> {"none", "completed", "partial", "failed"}]
      /\ capturedBy \in [EdgeSources -> Receipts \cup {Nothing}]
      /\ change \in [Edge!Operations -> EdgeChanges]
      /\ (\A q \in Edge!Operations : change[q].done \subseteq change[q].targets)
      /\ (control.pending # Nothing => change[control.pending].state = "reconciling")
  BY EdgeKnown
<1>3. PICK c : c = Edge!Scrubbed(change, scrub, control.pending) OBVIOUS
<1>4. /\ c \in [Edge!Operations -> EdgeChanges]
      /\ \A q \in Edge!Operations :
                /\ c[q].targets = change[q].targets /\ c[q].done = change[q].done
                /\ c[q].state = change[q].state \/ c[q].state = "discarded"
  BY <1>2, <1>3, ScrubbedIs
<1>5. \A q \in Edge!Operations : c[q].done \subseteq c[q].targets BY <1>2, <1>4
<1>6. \A q \in Edge!Operations : c[q].state \in Underway => change[q].state \in Underway BY <1>4 DEF Underway
<1>7. control.epoch <= control.epoch BY <1>2, EdgeFacts
<1>8. CASE control.pending # Nothing
  <2>1. Edge!Apply(control.pending, control, c) BY <1>3, <1>8 DEF Edge!Recover
  <2>2. control.pending \in Edge!Operations /\ change[control.pending].state \in Underway
    BY <1>2, <1>8 DEF Underway
  <2> QED BY <1>1, <1>2, <1>4, <1>5, <1>6, <1>7, <2>1, <2>2, EdgeApplies
<1>9. CASE control.pending = Nothing
  <2>1. change' = c /\ scrub' = {} /\ UNCHANGED <<control, held>> BY <1>3, <1>9 DEF Edge!Recover
  <2>2. control'.pending # Nothing => change'[control'.pending].state = "reconciling" BY <1>9, <2>1
  <2> QED BY <1>1, <1>2, <1>4, <1>5, <1>6, <1>7, <2>1, <2>2, EdgeChanging
<1> QED BY <1>8, <1>9

LEMMA EdgeErase ==
  ASSUME EdgeInv, NEW victims \in SUBSET held, Edge!Erase(victims) PROVE EdgeInv'
<1>1. UNCHANGED <<suppressed, intake, capturedBy, forgot, edPass>> /\ held' = held \ victims
      /\ control' = [control EXCEPT !.epoch = @ + 1] /\ control.epoch < MaxEdgeEpoch /\ control.pending = Nothing
      /\ (change' = Edge!Scrubbed(change, victims, Nothing) \/ change' = change)
      /\ (scrub' = {} \/ scrub' = victims)
  BY DEF Edge!Erase, Edge!Invalidate, Edge!Check, Edge!ledger
<1>2. /\ control \in [epoch : 0..MaxEdgeEpoch, pending : Edge!Operations \cup {Nothing}]
      /\ control.epoch \in 0..MaxEdgeEpoch /\ held \subseteq EdgeClaims
      /\ suppressed \subseteq EdgeSources
      /\ forgot \in [EdgeSources -> {"none", "completed", "partial", "failed"}]
      /\ capturedBy \in [EdgeSources -> Receipts \cup {Nothing}]
      /\ change \in [Edge!Operations -> EdgeChanges]
      /\ (\A q \in Edge!Operations : change[q].done \subseteq change[q].targets)
  BY EdgeKnown
<1>3. PICK c : c = Edge!Scrubbed(change, victims, Nothing) OBVIOUS
<1>4. /\ c \in [Edge!Operations -> EdgeChanges]
      /\ \A q \in Edge!Operations :
                /\ c[q].targets = change[q].targets /\ c[q].done = change[q].done
                /\ c[q].state = change[q].state \/ c[q].state = "discarded"
  BY <1>2, <1>3, ScrubbedIs
<1>5. /\ change' \in [Edge!Operations -> EdgeChanges]
      /\ \A q \in Edge!Operations : change'[q].done \subseteq change'[q].targets
      /\ \A q \in Edge!Operations : change'[q].state \in Underway => change[q].state \in Underway
  BY <1>1, <1>2, <1>3, <1>4 DEF Underway
<1>6. control.epoch + 1 \in 0..MaxEdgeEpoch /\ control.epoch <= control.epoch + 1 BY <1>1, <1>2, EdgeFacts
<1>7. control' \in [epoch : 0..MaxEdgeEpoch, pending : Edge!Operations \cup {Nothing}]
      /\ control'.epoch = control.epoch + 1 /\ control'.pending = Nothing
  BY <1>1, <1>2, <1>6
<1>8. scrub' \subseteq EdgeClaims /\ held' \subseteq held BY <1>1, <1>2
<1> QED BY <1>1, <1>2, <1>5, <1>6, <1>7, <1>8, EdgeChanging

LEMMA IntakeStates ==
  ASSUME EdgeInv, NEW k \in Receipts
  PROVE intake[k].state \in {"none", "recorded", "available", "failed"}
<1>1. intake \in [Receipts -> [source : EdgeSources \cup {Nothing},
                              state : {"none", "recorded", "available", "failed"}]]
  BY EdgeKnown
<1> QED BY <1>1

\* A forget that answers `completed` leaves no receipt under way, and the
\* Evidence its finished receipts name is purged with what cites it.
LEMMA EdgeForget ==
  ASSUME EdgeInv, NEW s \in EdgeSources, Edge!Forget(s) PROVE EdgeInv'
<1>1. UNCHANGED <<intake, edPass>> BY DEF Edge!Forget
<1>2. PICK o : o = <<s, "forget">> OBVIOUS
<1>3. o \in Edge!Operations /\ o[1] = s BY <1>2 DEF Edge!Operations
<1>4. /\ control \in [epoch : 0..MaxEdgeEpoch, pending : Edge!Operations \cup {Nothing}]
      /\ control.epoch \in 0..MaxEdgeEpoch /\ held \subseteq EdgeClaims
      /\ scrub \subseteq EdgeClaims /\ suppressed \subseteq EdgeSources
      /\ forgot \in [EdgeSources -> {"none", "completed", "partial", "failed"}]
      /\ capturedBy \in [EdgeSources -> Receipts \cup {Nothing}]
      /\ change \in [Edge!Operations -> EdgeChanges]
      /\ (\A q \in Edge!Operations : change[q].done \subseteq change[q].targets)
      /\ (control.pending # Nothing => change[control.pending].state = "reconciling")
  BY EdgeKnown
<1>5. control.epoch <= control.epoch BY <1>4, EdgeFacts
<1>6. Edge!Answer(s) \in {"partial", "completed"}
      /\ (Edge!Answer(s) = "completed" =>
            \A k \in Receipts : intake[k].source = s => intake[k].state # "recorded")
  BY DEF Edge!Answer, Edge!IntakesOf
<1>17. PICK named \in Edge!Named(s) :
         IF ~named \/ Edge!OfSource(s) = {}
         THEN /\ suppressed' = suppressed \cup {s} /\ forgot' = [forgot EXCEPT ![s] = Edge!Answer(s)]
              /\ Edge!Uncaptured(s, named) /\ UNCHANGED <<control, scrub, change, held>>
         ELSE IF control.pending # Nothing
         THEN /\ forgot' = [forgot EXCEPT ![s] = "failed"]
              /\ UNCHANGED <<control, scrub, suppressed, change, held, capturedBy>>
         ELSE /\ control.epoch < MaxEdgeEpoch /\ suppressed' = suppressed \cup {s}
              /\ Edge!Apply(o, [epoch |-> control.epoch + 1, pending |-> o],
                   [change EXCEPT ![o] = [state |-> "prepared", kind |-> "delete",
                                          targets |-> Edge!OfSource(s), done |-> {}]])
              /\ forgot' = [forgot EXCEPT ![s] = IF change'[o].state = "confirmed" THEN Edge!Answer(s) ELSE "failed"]
              /\ Edge!Uncaptured(s, change'[o].state = "confirmed")
  BY <1>2, Zenon DEF Edge!Forget, Edge!object
<1>18. ASSUME NEW purged \in BOOLEAN, Edge!Uncaptured(s, purged)
       PROVE /\ capturedBy' \in [EdgeSources -> Receipts \cup {Nothing}]
             /\ purged => capturedBy'[s] = Nothing
             /\ ~purged => capturedBy'[s] = capturedBy[s]
             /\ \A x \in EdgeSources : x # s => capturedBy'[x] = capturedBy[x]
  BY <1>4, <1>18 DEF Edge!Uncaptured
\* The capturer of a source without a receipt under way is named or has failed.
<1>19. ASSUME Edge!Answer(s) = "completed", capturedBy[s] # Nothing, intake[capturedBy[s]].state # "failed"
       PROVE named = TRUE
  <2>1. capturedBy[s] \in Receipts /\ intake[capturedBy[s]].source = s BY <1>4, <1>19 DEF EdgeInv, CapturerIsKnown
  <2>2. intake[capturedBy[s]].state # "recorded" BY <1>6, <1>19, <2>1
  <2>3. intake[capturedBy[s]].state # "none" BY <2>1, EdgeFacts DEF EdgeInv, IntakeFollowsPass
  <2>4. intake[capturedBy[s]].state = "available" BY <1>19, <2>1, <2>2, <2>3, IntakeStates
  <2>5. capturedBy[s] \in {k \in Edge!IntakesOf(s) : intake[k].state = "available"} BY <2>1, <2>4 DEF Edge!IntakesOf
  <2> QED BY <1>17, <2>5 DEF Edge!Named
<1>7. CASE ~named \/ Edge!OfSource(s) = {}
  <2>1. suppressed' = suppressed \cup {s} /\ forgot' = [forgot EXCEPT ![s] = Edge!Answer(s)]
        /\ UNCHANGED <<control, scrub, change, held>> /\ Edge!Uncaptured(s, named)
    BY <1>7, <1>17
  <2>2. forgot' \in [EdgeSources -> {"none", "completed", "partial", "failed"}] /\ forgot'[s] = Edge!Answer(s)
        /\ \A x \in EdgeSources : x # s => forgot'[x] = forgot[x]
    BY <1>4, <1>6, <2>1
  <2>3. named \in BOOLEAN BY DEF Edge!Named
  <2>4. /\ capturedBy' \in [EdgeSources -> Receipts \cup {Nothing}]
        /\ named => capturedBy'[s] = Nothing
        /\ ~named => capturedBy'[s] = capturedBy[s]
        /\ \A x \in EdgeSources : x # s => capturedBy'[x] = capturedBy[x]
    BY <1>18, <2>1, <2>3
  <2>5. named => \A h \in held' : intake[h[1]].source # s BY <1>7, <2>1 DEF Edge!OfSource
  <2>6. \A x \in EdgeSources :
          \/ capturedBy'[x] = capturedBy[x]
          \/ capturedBy'[x] = Nothing /\ \A h \in held' : intake[h[1]].source # x
    BY <2>3, <2>4, <2>5
  <2>7. Edge!Answer(s) = "completed" => capturedBy'[s] = Nothing \/ intake[capturedBy'[s]].state = "failed"
    BY <1>19, <2>3, <2>4
  <2>8. \A x \in EdgeSources : forgot'[x] = "completed" =>
            \/ forgot[x] = "completed"
            \/ /\ \A k \in Receipts : intake[k].source = x => intake[k].state # "recorded"
               /\ capturedBy'[x] = Nothing \/ intake[capturedBy'[x]].state = "failed"
    <3> TAKE x \in EdgeSources
    <3>1. CASE x # s BY <2>2, <3>1
    <3>2. CASE x = s BY <1>6, <2>2, <2>7, <3>2
    <3> QED BY <3>1, <3>2
  <2>9. suppressed \subseteq suppressed' /\ suppressed' \subseteq EdgeSources BY <1>4, <2>1
  <2> QED BY <1>1, <1>4, <1>5, <2>1, <2>2, <2>4, <2>6, <2>8, <2>9, EdgeChanging
<1>8. CASE ~ (~named \/ Edge!OfSource(s) = {}) /\ control.pending # Nothing
  <2>1. forgot' = [forgot EXCEPT ![s] = "failed"] /\ UNCHANGED <<control, scrub, suppressed, change, held, capturedBy>>
    BY <1>8, <1>17
  <2>2. forgot' \in [EdgeSources -> {"none", "completed", "partial", "failed"}]
        /\ \A x \in EdgeSources : forgot'[x] = "completed" => forgot[x] = "completed"
    BY <1>4, <2>1
  <2> QED BY <1>1, <1>4, <1>5, <2>1, <2>2, EdgeChanging
<1>9. CASE ~ (~named \/ Edge!OfSource(s) = {}) /\ control.pending = Nothing
  <2>1. PICK d : d = [state |-> "prepared", kind |-> "delete", targets |-> Edge!OfSource(s), done |-> {}] OBVIOUS
  <2>2. PICK chs : chs = [change EXCEPT ![o] = d] OBVIOUS
  <2>3. PICK c : c = [epoch |-> control.epoch + 1, pending |-> o] OBVIOUS
  <2>4. /\ control.epoch < MaxEdgeEpoch /\ suppressed' = suppressed \cup {s}
        /\ Edge!Apply(o, c, chs)
        /\ forgot' = [forgot EXCEPT ![s] = IF change'[o].state = "confirmed" THEN Edge!Answer(s) ELSE "failed"]
        /\ Edge!Uncaptured(s, change'[o].state = "confirmed")
    BY <1>9, <1>17, <2>1, <2>2, <2>3
  <2>5. d \in EdgeChanges /\ d.done = {} /\ d.targets = Edge!OfSource(s) /\ d.state = "prepared"
    <3>1. Edge!OfSource(s) \in SUBSET EdgeClaims BY <1>4 DEF Edge!OfSource
    <3> QED BY <2>1, <3>1 DEF EdgeChanges
  <2>6. /\ chs \in [Edge!Operations -> EdgeChanges] /\ chs[o] = d
        /\ \A q \in Edge!Operations : q # o => chs[q] = change[q]
    BY <1>3, <1>4, <2>2, <2>5
  <2>7. \A q \in Edge!Operations : chs[q].done \subseteq chs[q].targets BY <1>4, <2>5, <2>6
  <2>8. c \in [epoch : 0..MaxEdgeEpoch, pending : Edge!Operations \cup {Nothing}] /\ c.epoch = control.epoch + 1
    <3>1. control.epoch + 1 \in 0..MaxEdgeEpoch BY <1>4, <2>4, EdgeFacts
    <3> QED BY <1>3, <2>3, <3>1
  <2>9. control.epoch < c.epoch /\ control.epoch <= c.epoch BY <1>4, <2>8, EdgeFacts
  <2>10. change'[o].state = "confirmed" => held' = held \ Edge!OfSource(s)
    BY <1>3, <2>4, <2>5, <2>6, <2>7, <2>8, ApplyIs
  <2>11. PICK y : y = IF change'[o].state = "confirmed" THEN Edge!Answer(s) ELSE "failed" OBVIOUS
  <2>12. y \in {"none", "completed", "partial", "failed"}
         /\ (y = "completed" => change'[o].state = "confirmed" /\ Edge!Answer(s) = "completed")
    BY <1>6, <2>11
  <2>13. forgot' \in [EdgeSources -> {"none", "completed", "partial", "failed"}] /\ forgot'[s] = y
         /\ \A x \in EdgeSources : x # s => forgot'[x] = forgot[x]
    BY <1>4, <2>4, <2>11, <2>12
  <2>17. PICK purged \in BOOLEAN : purged = (change'[o].state = "confirmed") OBVIOUS
  <2>18. /\ capturedBy' \in [EdgeSources -> Receipts \cup {Nothing}]
         /\ purged => capturedBy'[s] = Nothing
         /\ ~purged => capturedBy'[s] = capturedBy[s]
         /\ \A x \in EdgeSources : x # s => capturedBy'[x] = capturedBy[x]
    BY <1>18, <2>4, <2>17
  <2>19. purged => \A h \in held' : intake[h[1]].source # s BY <2>10, <2>17 DEF Edge!OfSource
  <2>20. \A x \in EdgeSources :
          \/ capturedBy'[x] = capturedBy[x]
          \/ capturedBy'[x] = Nothing /\ \A h \in held' : intake[h[1]].source # x
    BY <2>18, <2>19
  <2>14. \A x \in EdgeSources : forgot'[x] = "completed" =>
            \/ forgot[x] = "completed"
            \/ /\ \A k \in Receipts : intake[k].source = x => intake[k].state # "recorded"
               /\ capturedBy'[x] = Nothing \/ intake[capturedBy'[x]].state = "failed"
    <3> TAKE x \in EdgeSources
    <3>1. CASE x # s BY <2>13, <3>1
    <3>2. CASE x = s BY <1>6, <2>12, <2>13, <2>17, <2>18, <3>2
    <3> QED BY <3>1, <3>2
  <2>15. s \in suppressed' /\ suppressed \subseteq suppressed' /\ suppressed' \subseteq EdgeSources BY <1>4, <2>4
  <2>16. \A q \in Edge!Operations : q # o /\ chs[q].state \in Underway => change[q].state \in Underway BY <2>6
  <2> QED BY <1>1, <1>3, <2>4, <2>6, <2>7, <2>8, <2>9, <2>13, <2>14, <2>15, <2>16, <2>18, <2>20, EdgeApplies
<1> QED BY <1>7, <1>8, <1>9

\* The passes.
LEMMA PassFields ==
  ASSUME EdgeInv, NEW k \in Receipts
  PROVE /\ edPass[k] \in EdgePasses /\ edPass[k].n \in 0..PlanSize /\ edPass[k].epoch \in 0..MaxEdgeEpoch
        /\ intake[k] \in [source : EdgeSources \cup {Nothing}, state : {"none", "recorded", "available", "failed"}]
        /\ \A x \in {"none", "opening", "planning", "reviewing", "closing", "finish", "fail", "ended"} :
             LET p == [edPass[k] EXCEPT !.at = x]
             IN p \in EdgePasses /\ p.at = x /\ p.epoch = edPass[k].epoch /\ p.n = edPass[k].n
        /\ intake = [intake EXCEPT ![k] = intake[k]]
        /\ edPass[k].n <= edPass[k].n /\ edPass[k].epoch <= control.epoch
        /\ edPass = [edPass EXCEPT ![k] = edPass[k]]
<1>1. edPass[k] \in EdgePasses BY EdgeKnown
<1>2. intake \in [Receipts -> [source : EdgeSources \cup {Nothing},
                                    state : {"none", "recorded", "available", "failed"}]]
      /\ edPass \in [Receipts -> EdgePasses]
  BY EdgeKnown
<1>3. edPass[k].n \in 0..PlanSize /\ edPass[k].epoch \in 0..MaxEdgeEpoch BY <1>1 DEF EdgePasses
<1>4. \A x \in {"none", "opening", "planning", "reviewing", "closing", "finish", "fail", "ended"} :
             LET p == [edPass[k] EXCEPT !.at = x]
             IN p \in EdgePasses /\ p.at = x /\ p.epoch = edPass[k].epoch /\ p.n = edPass[k].n
  BY <1>1 DEF EdgePasses
<1>5. edPass[k].n <= edPass[k].n BY <1>3, EdgeFacts
<1>6. edPass[k].epoch <= control.epoch BY DEF EdgeInv, IntakeFollowsPass
<1> QED BY <1>1, <1>2, <1>3, <1>4, <1>5, <1>6

\* A pass that goes to another place and a receipt that may settle.
LEMMA EdgeMoves ==
  ASSUME EdgeInv, UNCHANGED <<control, scrub, suppressed, change, capturedBy, forgot, held>>, NEW k \in Receipts,
         NEW x \in {"none", "opening", "planning", "reviewing", "closing", "finish", "fail", "ended"},
         NEW r \in [source : EdgeSources \cup {Nothing}, state : {"none", "recorded", "available", "failed"}],
         intake[k].state # "none", r.state # "none", r.source = intake[k].source,
         edPass' = [edPass EXCEPT ![k].at = x], intake' = [intake EXCEPT ![k] = r],
         x \notin {"none", "opening"} \/ x = edPass[k].at,
         x \notin Forming \/ x = edPass[k].at,
         r.state = "recorded" => r = intake[k],
         r.state = "available" => x = "ended" /\ intake[k].state \in {"available", "recorded"}
  PROVE EdgeInv'
<1>1. PICK p : p = [edPass[k] EXCEPT !.at = x] OBVIOUS
<1>2. p \in EdgePasses /\ p.at = x /\ p.epoch = edPass[k].epoch /\ p.n = edPass[k].n BY <1>1, PassFields
<1>3. edPass' = [edPass EXCEPT ![k] = p]
  <2>1. edPass \in [Receipts -> EdgePasses] BY EdgeKnown
  <2> QED BY <1>1, <2>1
<1>4. r.source \in EdgeSources BY DEF EdgeInv, IntakeFollowsPass
<1>5. p.at \in {"none", "opening"} => p.n = 0 BY <1>2 DEF EdgeInv, IntakeFollowsPass
<1>6. p.epoch <= control.epoch /\ edPass[k].n <= p.n BY <1>2, PassFields
<1>7. r.state = "available" => intake[k].state = "available" \/ forgot[r.source] # "completed"
  BY <1>4 DEF EdgeInv, ForgottenIsSettled
<1>8. p.at \in Forming => edPass[k].at \in Forming /\ p.epoch = edPass[k].epoch BY <1>2
<1>9. r.state = "available" => p.at = "ended" BY <1>2
<1>10. held' = held /\ held' \subseteq held \cup {<<k, i>> : i \in 1..p.n} OBVIOUS
<1>11. capturedBy' \in [EdgeSources -> Receipts \cup {Nothing}] BY EdgeKnown
<1> QED BY <1>2, <1>3, <1>4, <1>5, <1>6, <1>7, <1>8, <1>9, <1>10, <1>11, EdgePassing

LEMMA RunningIsAdmitted ==
  ASSUME EdgeInv, NEW k \in Receipts, edPass[k].at # "none"
  PROVE intake[k].state # "none" /\ intake[k].source \in EdgeSources
BY DEF EdgeInv, IntakeFollowsPass

LEMMA IntakeRow ==
  ASSUME EdgeInv, NEW k \in Receipts
  PROVE intake[k] \in [source : EdgeSources \cup {Nothing}, state : {"none", "recorded", "available", "failed"}]
BY PassFields

LEMMA EdgeClose ==
  ASSUME EdgeInv, NEW k \in Receipts, Edge!Close(k) PROVE EdgeInv'
<1>1. UNCHANGED <<control, scrub, suppressed, change, capturedBy, forgot, held, intake>> /\ edPass[k].at = "closing"
  BY DEF Edge!Close, Edge!object, Edge!ledger
<1>2. PICK x \in {"finish", "fail"} : edPass' = [edPass EXCEPT ![k].at = x]
  <2>1. PICK x : x = IF Edge!Check(edPass[k].epoch) THEN "finish" ELSE "fail" OBVIOUS
  <2>2. x \in {"finish", "fail"} /\ edPass' = [edPass EXCEPT ![k].at = x] BY <2>1 DEF Edge!Close
  <2> QED BY <2>2
<1>3. intake[k].state # "none" /\ intake[k].state # "available" BY <1>1 DEF EdgeInv, IntakeFollowsPass
<1>4. intake' = [intake EXCEPT ![k] = intake[k]] BY <1>1, PassFields
<1>5. x \notin {"none", "opening"} /\ x \notin Forming BY DEF Forming
<1>6. x \in {"none", "opening", "planning", "reviewing", "closing", "finish", "fail", "ended"} OBVIOUS
<1>7. intake[k] \in [source : EdgeSources \cup {Nothing}, state : {"none", "recorded", "available", "failed"}] BY IntakeRow
<1>8. UNCHANGED <<control, scrub, suppressed, change, capturedBy, forgot, held>> BY <1>1
<1> QED BY <1>2, <1>3, <1>4, <1>5, <1>6, <1>7, <1>8, EdgeMoves

LEMMA EdgeCrash ==
  ASSUME EdgeInv, NEW k \in Receipts, Edge!Crash(k) PROVE EdgeInv'
<1>1. UNCHANGED <<control, scrub, suppressed, change, capturedBy, forgot, held, intake>> /\ edPass[k].at \notin {"none", "ended"}
      /\ edPass' = [edPass EXCEPT ![k].at = "ended"]
  BY DEF Edge!Crash, Edge!object, Edge!ledger
<1>2. intake[k].state # "none" /\ intake[k].state # "available" BY <1>1 DEF EdgeInv, IntakeFollowsPass
<1>3. intake' = [intake EXCEPT ![k] = intake[k]] BY <1>1, PassFields
<1>4. "ended" \notin Forming BY DEF Forming
<1> QED BY <1>1, <1>2, <1>3, <1>4, IntakeRow, EdgeMoves

LEMMA SettledIs ==
  ASSUME EdgeInv, NEW k \in Receipts, NEW x \in {"available", "failed"}, Edge!Settled(k, x)
  PROVE \E r \in [source : EdgeSources \cup {Nothing}, state : {"none", "recorded", "available", "failed"}] :
          /\ intake' = [intake EXCEPT ![k] = r] /\ r.source = intake[k].source
          /\ r.state = IF intake[k].state = "recorded" THEN x ELSE intake[k].state
<1>1. PICK y : y = IF intake[k].state = "recorded" THEN x ELSE intake[k].state OBVIOUS
<1>2. PICK r : r = [intake[k] EXCEPT !.state = y] OBVIOUS
<1>3. intake[k] \in [source : EdgeSources \cup {Nothing}, state : {"none", "recorded", "available", "failed"}] BY PassFields
<1>4. y \in {"none", "recorded", "available", "failed"} BY <1>1, <1>3
<1>5. r \in [source : EdgeSources \cup {Nothing}, state : {"none", "recorded", "available", "failed"}]
      /\ r.source = intake[k].source /\ r.state = y
  BY <1>2, <1>3, <1>4
<1>6. intake' = [intake EXCEPT ![k].state = y] BY <1>1 DEF Edge!Settled
<1>7. intake' = [intake EXCEPT ![k] = r]
  <2>1. intake \in [Receipts -> [source : EdgeSources \cup {Nothing},
                                    state : {"none", "recorded", "available", "failed"}]] BY EdgeKnown
  <2> QED BY <1>2, <1>6, <2>1
<1> QED BY <1>1, <1>5, <1>7

LEMMA EdgeSettle ==
  ASSUME EdgeInv, NEW k \in Receipts, Edge!Settle(k) PROVE EdgeInv'
<1>1. UNCHANGED <<control, scrub, suppressed, change, capturedBy, forgot, held>> /\ edPass[k].at \in {"finish", "fail"}
      /\ edPass' = [edPass EXCEPT ![k].at = "ended"]
  BY DEF Edge!Settle, Edge!object
<1>2. PICK x : x = IF edPass[k].at = "finish" THEN "available" ELSE "failed" OBVIOUS
<1>3. x \in {"available", "failed"} /\ Edge!Settled(k, x) BY <1>2 DEF Edge!Settle
<1>4. PICK r \in [source : EdgeSources \cup {Nothing}, state : {"none", "recorded", "available", "failed"}] :
          /\ intake' = [intake EXCEPT ![k] = r] /\ r.source = intake[k].source
          /\ r.state = IF intake[k].state = "recorded" THEN x ELSE intake[k].state
  BY <1>3, SettledIs
<1>5. intake[k].state # "none" /\ intake[k].state # "available" BY <1>1 DEF EdgeInv, IntakeFollowsPass
<1>6. r.state # "none" /\ r.state # "recorded" /\ (r.state = "available" => intake[k].state = "recorded")
  BY <1>3, <1>4, <1>5
<1>7. "ended" \notin Forming BY DEF Forming
<1> QED BY <1>1, <1>4, <1>5, <1>6, <1>7, EdgeMoves

LEMMA EdgeAbandon ==
  ASSUME EdgeInv, NEW k \in Receipts, Edge!Abandon(k) PROVE EdgeInv'
<1>1. UNCHANGED <<control, scrub, suppressed, change, capturedBy, forgot, held, edPass>> /\ intake[k].state = "recorded"
      /\ Edge!Settled(k, "failed")
  BY DEF Edge!Abandon, Edge!object
<1>2. PICK r \in [source : EdgeSources \cup {Nothing}, state : {"none", "recorded", "available", "failed"}] :
          /\ intake' = [intake EXCEPT ![k] = r] /\ r.source = intake[k].source
          /\ r.state = IF intake[k].state = "recorded" THEN "failed" ELSE intake[k].state
  BY <1>1, SettledIs
<1>3. r.state = "failed" BY <1>1, <1>2
<1>4. PICK x : x = edPass[k].at OBVIOUS
<1>5. x \in {"none", "opening", "planning", "reviewing", "closing", "finish", "fail", "ended"}
  BY <1>4, PassFields DEF EdgePasses
<1>6. edPass' = [edPass EXCEPT ![k].at = x]
  <2>1. edPass \in [Receipts -> EdgePasses] BY EdgeKnown
  <2> QED BY <1>1, <1>4, <2>1 DEF EdgePasses
<1> QED BY <1>1, <1>2, <1>3, <1>4, <1>5, <1>6, EdgeMoves

LEMMA EdgeAdmit ==
  ASSUME EdgeInv, NEW k \in Receipts, NEW s \in EdgeSources, Edge!Admit(k, s) PROVE EdgeInv'
<1>1. UNCHANGED <<control, scrub, suppressed, change, capturedBy, forgot, held>> /\ intake[k].state = "none"
      /\ forgot[s] # "completed"
      /\ intake' = [intake EXCEPT ![k] = [source |-> s, state |-> "recorded"]]
      /\ edPass' = [edPass EXCEPT ![k].at = "opening"]
  BY DEF Edge!Admit, Edge!object
<1>2. PICK r : r = [source |-> s, state |-> "recorded"] OBVIOUS
<1>3. r \in [source : EdgeSources \cup {Nothing}, state : {"none", "recorded", "available", "failed"}]
      /\ r.source = s /\ r.state = "recorded"
  BY <1>2
<1>4. PICK p : p = [edPass[k] EXCEPT !.at = "opening"] OBVIOUS
<1>5. p \in EdgePasses /\ p.at = "opening" /\ p.epoch = edPass[k].epoch /\ p.n = edPass[k].n BY <1>4, PassFields
<1>6. edPass' = [edPass EXCEPT ![k] = p]
  <2>1. edPass \in [Receipts -> EdgePasses] BY EdgeKnown
  <2> QED BY <1>1, <1>4, <2>1
<1>7. p.n = 0 BY <1>1, <1>5 DEF EdgeInv, IntakeFollowsPass
<1>8. p.epoch <= control.epoch /\ edPass[k].n <= p.n BY <1>5, PassFields
<1>9. p.at \notin Forming BY <1>5 DEF Forming
<1>10. held' \subseteq held \cup {<<k, i>> : i \in 1..p.n} BY <1>1
<1>11. intake' = [intake EXCEPT ![k] = r] BY <1>1, <1>2
<1>12. capturedBy' \in [EdgeSources -> Receipts \cup {Nothing}] BY <1>1, EdgeKnown
<1> QED BY <1>1, <1>3, <1>5, <1>6, <1>7, <1>8, <1>9, <1>10, <1>11, <1>12, EdgePassing

LEMMA EdgeOpen ==
  ASSUME EdgeInv, NEW k \in Receipts, Edge!Open(k) PROVE EdgeInv'
<1>1. UNCHANGED <<control, scrub, suppressed, change, capturedBy, forgot, held, intake>> /\ edPass[k].at = "opening"
      /\ edPass' = [edPass EXCEPT ![k] = IF Edge!Begin(intake[k].source)
                THEN [at |-> "planning", epoch |-> control.epoch, n |-> 0]
                ELSE [edPass[k] EXCEPT !.at = "fail"]]
  BY DEF Edge!Open, Edge!object, Edge!ledger
<1>2. intake[k].state # "none" /\ intake[k].source \in EdgeSources /\ intake[k].state # "available" /\ edPass[k].n = 0
  BY <1>1 DEF EdgeInv, IntakeFollowsPass
<1>3. intake' = [intake EXCEPT ![k] = intake[k]] BY <1>1, PassFields
<1>4. CASE Edge!Begin(intake[k].source)
  <2>1. PICK p : p = [at |-> "planning", epoch |-> control.epoch, n |-> 0] OBVIOUS
  <2>2. control.epoch \in 0..MaxEdgeEpoch BY EdgeKnown
  <2>3. p \in EdgePasses /\ p.at = "planning" /\ p.epoch = control.epoch /\ p.n = 0
    BY <2>1, <2>2, EdgeFacts DEF EdgePasses
  <2>4. edPass' = [edPass EXCEPT ![k] = p] BY <1>1, <1>4, <2>1
  <2>5. intake[k].source \notin suppressed BY <1>4 DEF Edge!Begin
  <2>6. p.epoch <= control.epoch /\ edPass[k].n <= p.n BY <1>2, <2>2, <2>3, EdgeFacts
  <2>7. held' \subseteq held \cup {<<k, i>> : i \in 1..p.n} BY <1>1
  <2>8. p.at \notin {"none", "opening"} BY <2>3
  <2>9. capturedBy' \in [EdgeSources -> Receipts \cup {Nothing}] BY <1>1, EdgeKnown
  <2> QED BY <1>1, <1>2, <1>3, <2>3, <2>4, <2>5, <2>6, <2>7, <2>8, <2>9, IntakeRow, EdgePassing
<1>5. CASE ~ Edge!Begin(intake[k].source)
  <2>1. edPass' = [edPass EXCEPT ![k].at = "fail"]
    <3>1. edPass' = [edPass EXCEPT ![k] = [edPass[k] EXCEPT !.at = "fail"]] BY <1>1, <1>5
    <3>2. edPass \in [Receipts -> EdgePasses] BY EdgeKnown
    <3> QED BY <3>1, <3>2
  <2>2. "fail" \notin Forming BY DEF Forming
  <2> QED BY <1>1, <1>2, <1>3, <2>1, <2>2, IntakeRow, EdgeMoves
<1> QED BY <1>4, <1>5

\* A pass writes only under the epoch it was admitted in.
LEMMA PlanIs ==
  ASSUME EdgeInv, NEW k \in Receipts, Edge!Plan(k)
  PROVE \/ /\ Edge!Check(edPass[k].epoch)
           /\ \E m \in edPass[k].n .. PlanSize, x \in {"reviewing", "closing", "fail"} :
                /\ x = "reviewing" => edPass[k].at = "planning"
                /\ held' = held \cup {<<k, i>> : i \in (edPass[k].n + 1)..m}
                /\ Edge!Capture(k, m)
                /\ edPass' = [edPass EXCEPT ![k].n = m, ![k].at = x]
        \/ edPass' = [edPass EXCEPT ![k].at = "fail"] /\ held' = held /\ capturedBy' = capturedBy
BY Zenon DEF Edge!Plan

LEMMA EdgePlan ==
  ASSUME EdgeInv, NEW k \in Receipts, Edge!Plan(k) PROVE EdgeInv'
<1>1. UNCHANGED <<control, scrub, suppressed, change, forgot, intake>> /\ edPass[k].at \in Forming
  BY DEF Edge!Plan, Edge!object, Edge!ledger, Forming
<1>2. intake[k].state # "none" /\ intake[k].source \in EdgeSources /\ intake[k].state # "available"
  BY <1>1 DEF EdgeInv, IntakeFollowsPass, Forming
<1>3. intake' = [intake EXCEPT ![k] = intake[k]] BY <1>1, PassFields
<1>4. CASE edPass' = [edPass EXCEPT ![k].at = "fail"] /\ held' = held /\ capturedBy' = capturedBy
  <2>1. "fail" \notin Forming BY DEF Forming
  <2> QED BY <1>1, <1>2, <1>3, <1>4, <2>1, IntakeRow, EdgeMoves
<1>5. ASSUME NEW m \in edPass[k].n .. PlanSize, NEW x \in {"reviewing", "closing", "fail"},
             held' = held \cup {<<k, i>> : i \in (edPass[k].n + 1)..m}, Edge!Capture(k, m),
             edPass' = [edPass EXCEPT ![k].n = m, ![k].at = x]
      PROVE EdgeInv'
  <2>1. edPass[k] \in EdgePasses /\ edPass[k].n \in 0..PlanSize /\ edPass \in [Receipts -> EdgePasses]
    BY PassFields, EdgeKnown
  <2>2. m \in 0..PlanSize /\ edPass[k].n <= m BY <2>1, EdgeFacts
  <2>3. PICK q : q = [edPass[k] EXCEPT !.n = m] OBVIOUS
  <2>4. q \in EdgePasses /\ q.n = m /\ q.epoch = edPass[k].epoch BY <2>1, <2>2, <2>3 DEF EdgePasses
  <2>5. PICK p : p = [q EXCEPT !.at = x] OBVIOUS
  <2>6. p \in EdgePasses /\ p.n = m /\ p.epoch = edPass[k].epoch /\ p.at = x BY <2>4, <2>5 DEF EdgePasses
  <2>7. edPass' = [edPass EXCEPT ![k] = p]
    <3>1. PICK z : z = [edPass EXCEPT ![k].n = m] OBVIOUS
    <3>2. z = [edPass EXCEPT ![k] = q] BY <2>1, <2>3, <3>1
    <3>3. edPass' = [z EXCEPT ![k].at = x] BY <1>5, <3>1
    <3>4. z \in [Receipts -> EdgePasses] /\ z[k] = q BY <2>1, <2>4, <3>2
    <3>5. edPass' = [z EXCEPT ![k] = p] BY <2>5, <3>3, <3>4
    <3> QED BY <2>1, <2>4, <2>6, <3>2, <3>5
  <2>8. p.epoch <= control.epoch BY <2>6, PassFields
  <2>9. held \subseteq held' /\ held' \subseteq held \cup {<<k, i>> : i \in 1..p.n}
    <3>1. \A i \in (edPass[k].n + 1)..m : i \in 1..p.n BY <2>1, <2>2, <2>6, EdgeFacts
    <3> QED BY <1>5, <3>1
  <2>10. p.at \notin {"none", "opening"} /\ edPass[k].n <= p.n BY <2>2, <2>6
  <2>11. capturedBy \in [EdgeSources -> Receipts \cup {Nothing}] BY EdgeKnown
  <2>12. PICK s \in EdgeSources : s = intake[k].source BY <1>2
  <2>13. capturedBy' = IF capturedBy[s] = Nothing /\ m > edPass[k].n
                       THEN [capturedBy EXCEPT ![s] = k] ELSE capturedBy
    BY <1>5, <2>12 DEF Edge!Capture
  <2>14. /\ capturedBy' \in [EdgeSources -> Receipts \cup {Nothing}]
         /\ \A x1 \in EdgeSources :
              \/ capturedBy'[x1] = capturedBy[x1]
              \/ x1 = s /\ capturedBy[x1] = Nothing /\ capturedBy'[x1] = k
    BY <2>11, <2>13
  <2>15. held' # held => capturedBy'[s] # Nothing
    <3>1. SUFFICES ASSUME held' # held, capturedBy[s] = Nothing PROVE capturedBy'[s] = k
      BY <2>11, <2>13, EdgeFacts
    <3>2. m > edPass[k].n
      <4>1. PICK i \in (edPass[k].n + 1)..m : TRUE BY <1>5, <3>1
      <4> QED BY <2>1, <2>2, <4>1, EdgeFacts
    <3> QED BY <2>11, <2>13, <3>1, <3>2
  <2>16. \A s1 \in EdgeSources :
            \/ capturedBy'[s1] = capturedBy[s1]
            \/ s1 = intake[k].source /\ capturedBy[s1] = Nothing /\ capturedBy'[s1] = k /\ intake[k].state # "available"
    BY <1>2, <2>12, <2>14
  <2>17. held' # held => intake[k].state # "available" /\ capturedBy'[intake[k].source] # Nothing
    BY <1>2, <2>12, <2>15
  <2>18. p.at \in Forming => edPass[k].at \in Forming /\ p.epoch = edPass[k].epoch BY <1>1, <2>6
  <2> QED BY <1>1, <1>2, <1>3, <2>6, <2>7, <2>8, <2>9, <2>10, <2>14, <2>16, <2>17, <2>18, IntakeRow, EdgePassing
<1> QED BY <1>4, <1>5, PlanIs

LEMMA EdgeStep ==
  ASSUME EdgeInv, [Edge!Next]_edgeVars PROVE EdgeInv'
<1>1. CASE UNCHANGED edgeVars
  BY <1>1 DEF edgeVars, EdgeInv, EdgeTypes, Edge!TypeOK, PassesFenced, IntakeFollowsPass, HeldIsNumbered,
     ForgottenIsSettled, CapturerIsKnown, ForgottenIsTraceless
<1>2. CASE Edge!Next
  BY <1>2, EdgeForget, EdgeAdmit, EdgePrepare, EdgeDiscard, EdgeCommitChange, EdgeRecover, EdgeErase,
     EdgeOpen, EdgePlan, EdgeClose, EdgeSettle, EdgeAbandon, EdgeCrash DEF Edge!Next
<1> QED BY <1>1, <1>2

\* What a step adds is formed by a pass that was admitted under the present
\* epoch, so not over a source that a change has excluded.
LEMMA EdgeExcludes ==
  ASSUME EdgeInv, [Edge!Next]_edgeVars, NEW o \in Edge!Operations, change[o].state \in Underway,
         NEW h \in held' \ held
  PROVE intake[h[1]].source # o[1]
<1>1. ASSUME NEW k \in Receipts, Edge!Plan(k) PROVE intake[h[1]].source # o[1]
  <2>1. edPass[k].at \in Forming BY <1>1 DEF Edge!Plan, Forming
  <2>2. Edge!Check(edPass[k].epoch) /\ h[1] = k
    <3>1. held' # held OBVIOUS
    <3>2. Edge!Check(edPass[k].epoch)
          /\ \E m : held' = held \cup {<<k, i>> : i \in (edPass[k].n + 1)..m}
      BY <1>1, <3>1, PlanIs
    <3>3. PICK m : held' = held \cup {<<k, i>> : i \in (edPass[k].n + 1)..m} BY <3>2
    <3>4. h \in {<<k, i>> : i \in (edPass[k].n + 1)..m} BY <3>3
    <3> QED BY <3>2, <3>4
  <2>3. edPass[k].epoch = control.epoch BY <2>2 DEF Edge!Check
  <2>4. control.epoch \in Nat BY EdgeKnown, EdgeFacts
  <2>5. intake[k].source = o[1] => edPass[k].epoch < control.epoch BY <2>1 DEF EdgeInv, PassesFenced
  <2> QED BY <2>2, <2>3, <2>4, <2>5
<1>2. ASSUME held' \subseteq held PROVE FALSE BY <1>2
<1>3. ASSUME NEW q \in Edge!Operations, NEW ctl, NEW chs, Edge!Apply(q, ctl, chs) PROVE held' \subseteq held
  BY <1>3, Zenon DEF Edge!Apply
<1>4. ASSUME NEW s \in EdgeSources, Edge!Forget(s) PROVE held' \subseteq held
  <2>1. <<s, "forget">> \in Edge!Operations BY DEF Edge!Operations
  <2> QED BY <1>3, <1>4, <2>1, Zenon DEF Edge!Forget, Edge!object
<1>5. ASSUME Edge!Recover PROVE held' \subseteq held
  <2>1. control.pending # Nothing => control.pending \in Edge!Operations BY EdgeKnown
  <2> QED BY <1>3, <1>5, <2>1, Zenon DEF Edge!Recover
<1>6. ASSUME NEW q \in Edge!Operations, Edge!Discard(q) \/ Edge!CommitChange(q) PROVE held' \subseteq held
  BY <1>3, <1>6, Zenon DEF Edge!Discard, Edge!CommitChange
<1>7. ASSUME NEW k \in Receipts,
             Edge!Open(k) \/ Edge!Close(k) \/ Edge!Settle(k) \/ Edge!Abandon(k) \/ Edge!Crash(k)
             \/ \E s \in EdgeSources : Edge!Admit(k, s)
      PROVE held' \subseteq held
  BY <1>7, Zenon DEF Edge!Open, Edge!Close, Edge!Settle, Edge!Abandon, Edge!Crash, Edge!Admit
<1>8. ASSUME UNCHANGED edgeVars PROVE held' \subseteq held BY <1>8 DEF edgeVars
<1>9. ASSUME NEW v \in SUBSET held, Edge!Erase(v) PROVE held' \subseteq held BY <1>9 DEF Edge!Erase
<1>10. ASSUME NEW g \in held, NEW kind, Edge!Prepare(g, kind) PROVE held' \subseteq held BY <1>10 DEF Edge!Prepare
<1> QED BY <1>1, <1>2, <1>4, <1>5, <1>6, <1>7, <1>8, <1>9, <1>10 DEF Edge!Next
=============================================================================
