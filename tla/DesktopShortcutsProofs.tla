------------------------ MODULE DesktopShortcutsProofs ------------------------
(***************************************************************************)
(* The layout of the desktop, for every grid, every number of shortcuts,   *)
(* every saved position and every size of the lane: no two shortcuts get   *)
(* one cell while there are cells enough, and a layout that is computed    *)
(* again from its own cells is the same layout.  From these two facts      *)
(* follows what the callbacks may move.                                    *)
(***************************************************************************)
EXTENDS DesktopShortcuts, ListsProofs

Point == Int \X Int
Size == Nat \X Nat

-----------------------------------------------------------------------------
(* The grid.                                                               *)

LEMMA SmallestProperties ==
  ASSUME NEW S \in SUBSET Nat, S # {}
  PROVE  Smallest(S) \in S /\ \A n \in S : Smallest(S) <= n
BY LeastNatural DEF Smallest

LEMMA QuotientIsNatural ==
  ASSUME NEW a \in Nat, NEW b \in Nat \ {0}
  PROVE  a \div b \in Nat
OBVIOUS

LEMMA GapProperties ==
  ASSUME NEW m \in Int, NEW n \in Int
  PROVE  Gap(m, n) \in Nat /\ (Gap(m, n) = 0 <=> m = n)
BY DEF Gap

LEMMA DistanceProperties ==
  ASSUME NEW p \in Point, NEW q \in Point
  PROVE  Distance(p, q) \in Nat /\ (Distance(p, q) = 0 <=> p = q)
<1>1. /\ Gap(p[1], q[1]) \in Nat /\ (Gap(p[1], q[1]) = 0 <=> p[1] = q[1])
      /\ Gap(p[2], q[2]) \in Nat /\ (Gap(p[2], q[2]) = 0 <=> p[2] = q[2])
  BY GapProperties DEF Point
<1> QED
  BY <1>1 DEF Distance, Point

LEMMA AxisProperties ==
  ASSUME NEW origin \in Nat, NEW step \in Nat \ {0}, NEW max \in Nat
  PROVE  /\ AxisLength(origin, step, max) \in Nat \ {0}
         /\ \A k \in Nat : AxisValue(origin, step, max, k) \in Nat
         /\ AxisValues(origin, step, max) \in SUBSET Nat
         /\ AxisValues(origin, step, max) # {}
         /\ IsFiniteSet(AxisValues(origin, step, max))
<1> DEFINE n == AxisLength(origin, step, max)
           value == [k \in 0..n - 1 |-> AxisValue(origin, step, max, k)]
<1>1. n \in Nat \ {0}
  <2>1. CASE max < origin
    BY <2>1 DEF AxisLength
  <2>2. CASE ~(max < origin)
    <3>1. max - origin + step - 1 \in Nat
      BY <2>2
    <3>2. (max - origin + step - 1) \div step \in Nat
      BY <3>1, QuotientIsNatural
    <3> QED
      BY <2>2, <3>2 DEF AxisLength
  <2> QED
    BY <2>1, <2>2
<1>2. ASSUME NEW k \in Nat PROVE AxisValue(origin, step, max, k) \in Nat
  <2>1. k * step \in Nat
    OBVIOUS
  <2> QED
    BY <2>1 DEF AxisValue, Lesser
<1>3. AxisValues(origin, step, max) = {value[k] : k \in 0..n - 1}
  BY DEF AxisValues
<1> HIDE DEF n
<1>4. AxisValues(origin, step, max) \in SUBSET Nat
  BY <1>1, <1>2, <1>3
<1>5. 0 \in 0..n - 1
  BY <1>1
<1>6. IsFiniteSet(AxisValues(origin, step, max))
  <2>1. IsFiniteSet(0..n - 1)
    BY <1>1, FS_Interval
  <2>2. value \in Surjection(0..n - 1, AxisValues(origin, step, max))
    BY <1>3 DEF Surjection
  <2> QED
    BY <2>1, <2>2, FS_Surjection
<1> QED
  <2> HIDE DEF value
  <2>1. AxisValues(origin, step, max) # {}
    BY <1>3, <1>5
  <2> QED
    BY <1>1, <1>2, <1>4, <1>6, <2>1 DEF n

LEMMA NearestProperties ==
  ASSUME NEW values \in SUBSET Nat, values # {}, NEW v \in Int
  PROVE  /\ Nearest(v, values) \in values
         /\ v \in values => Nearest(v, values) = v
<1> DEFINE gaps == {Gap(c, v) : c \in values}
           best == {c \in values : \A d \in values : Gap(c, v) <= Gap(d, v)}
<1>1. \A c \in values : Gap(c, v) \in Nat /\ (Gap(c, v) = 0 <=> c = v)
  <2> TAKE c \in values
  <2>1. c \in Int
    OBVIOUS
  <2> QED
    BY <2>1, GapProperties
<1>2. gaps \in SUBSET Nat /\ gaps # {}
  BY <1>1
<1>3. PICK g \in gaps : \A h \in gaps : g <= h
  BY <1>2, LeastNatural
<1>4. best # {} /\ best \in SUBSET Nat
  <2>1. PICK c \in values : g = Gap(c, v)
    OBVIOUS
  <2>2. c \in best
    BY <1>3, <2>1
  <2> QED
    BY <2>2
<1>5. Smallest(best) \in best
  BY <1>4, SmallestProperties
<1>6. ASSUME v \in values PROVE Smallest(best) = v
  <2> DEFINE c == Smallest(best)
  <2>1. c \in values /\ Gap(c, v) <= Gap(v, v)
    BY <1>5, <1>6
  <2> HIDE DEF c
  <2>2. Gap(c, v) = 0
    BY <1>1, <1>6, <2>1
  <2> QED
    BY <1>1, <2>1, <2>2 DEF c
<1> QED
  BY <1>5, <1>6 DEF Nearest

LEMMA SlotsProperties ==
  ASSUME NEW max \in Size
  PROVE  /\ Slots(max) \in SUBSET Size /\ Slots(max) \in SUBSET Point
         /\ IsFiniteSet(Slots(max)) /\ Cardinality(Slots(max)) \in Nat
         /\ \A p \in Point : Snap(p, max) \in Slots(max)
         /\ \A p \in Slots(max) : Snap(p, max) = p
<1> DEFINE xs == AxisValues(OriginX, StepX, max[1])
           ys == AxisValues(OriginY, StepY, max[2])
<1>1. /\ xs \in SUBSET Nat /\ xs # {} /\ IsFiniteSet(xs)
      /\ ys \in SUBSET Nat /\ ys # {} /\ IsFiniteSet(ys)
  BY AxisProperties, DesktopAssumption DEF Size
<1>2. Slots(max) = xs \X ys
  BY DEF Slots
<1>3. IsFiniteSet(xs \X ys)
  <2> HIDE DEF xs, ys
  <2> QED
    BY <1>1, FS_Product
<1>4. \A p : Snap(p, max) = <<Nearest(p[1], xs), Nearest(p[2], ys)>>
  BY DEF Snap
<1> HIDE DEF xs, ys
<1>5. ASSUME NEW p \in Point PROVE Snap(p, max) \in Slots(max)
  BY <1>1, <1>2, <1>4, NearestProperties DEF Point
<1>6. ASSUME NEW p \in Slots(max) PROVE Snap(p, max) = p
  <2>1. p = <<p[1], p[2]>> /\ p[1] \in xs /\ p[2] \in ys
    BY <1>2
  <2> QED
    BY <1>1, <1>4, <2>1, NearestProperties
<1>7. ASSUME NEW p \in Slots(max) PROVE p \in Size /\ p \in Point
  <2>1. p = <<p[1], p[2]>> /\ p[1] \in xs /\ p[2] \in ys
    BY <1>2
  <2>2. p[1] \in Nat /\ p[2] \in Nat
    BY <1>1, <2>1
  <2> QED
    BY <2>1, <2>2 DEF Size, Point
<1>8. IsFiniteSet(Slots(max)) /\ Cardinality(Slots(max)) \in Nat
  BY <1>2, <1>3, FS_CardinalityType
<1> QED
  BY <1>5, <1>6, <1>7, <1>8

LEMMA DefaultPositionType ==
  ASSUME NEW max \in Size, NEW n \in Nat \ {0}
  PROVE  Slot(n, max) \in Point /\ DefaultPosition(n, max) \in Point
<1> DEFINE c == Columns(max)
<1>1. c \in Nat \ {0}
  BY AxisProperties, DesktopAssumption DEF Columns, Size
<1>2. (n - 1) % c \in Nat /\ (n - 1) \div c \in Nat
  <2> HIDE DEF c
  <2> QED
    BY <1>1, QuotientIsNatural
<1>3. /\ AxisValue(OriginX, StepX, max[1], (n - 1) % c) \in Nat
      /\ AxisValue(OriginY, StepY, max[2], (n - 1) \div c) \in Nat
  <2> HIDE DEF c
  <2> QED
    BY <1>2, AxisProperties, DesktopAssumption DEF Size
<1>4. Slot(n, max) \in Point
  BY <1>3 DEF Slot, Point
<1>5. <<OriginX, OriginY>> \in Point
  BY DesktopAssumption DEF Point
<1> QED
  BY <1>4, <1>5 DEF DefaultPosition

\* Of several free slots there is always one nearest, and a free slot is
\* nearest to itself.
LEMMA NearestOfProperties ==
  ASSUME NEW max \in Size, NEW free \in SUBSET Slots(max), free # {},
         NEW p \in Point
  PROVE  /\ NearestOf(free, p, max) \in free
         /\ p \in free => NearestOf(free, p, max) = p
<1> DEFINE cell == Snap(p, max)
           distances == {Distance(s, cell) : s \in free}
<1>1. cell \in Point /\ free \in SUBSET Size /\ free \in SUBSET Point
  BY SlotsProperties
<1> HIDE DEF cell
<1>2. \A s \in free : Distance(s, cell) \in Nat
                      /\ (Distance(s, cell) = 0 <=> s = cell)
  BY <1>1, DistanceProperties
<1>3. distances \in SUBSET Nat /\ distances # {}
  BY <1>2
<1>4. PICK s1 \in free : \A t \in free : Distance(s1, cell) <= Distance(t, cell)
  <2>1. PICK d \in distances : \A e \in distances : d <= e
    BY <1>3, LeastNatural
  <2> QED
    BY <2>1
<1> DEFINE closest == {s \in free : Distance(s, cell) = Distance(s1, cell)}
           rows == {s[2] : s \in closest}
<1>5. closest \in SUBSET Size /\ s1 \in closest
  BY <1>1
<1>6. PICK s2 \in closest : \A t \in closest : s2[2] <= t[2]
  <2>1. rows \in SUBSET Nat /\ rows # {}
    BY <1>5 DEF Size
  <2>2. PICK y \in rows : \A z \in rows : y <= z
    BY <2>1, LeastNatural
  <2> QED
    BY <2>2
<1> DEFINE row == {s \in closest : s[2] = s2[2]}
           columns == {s[1] : s \in row}
<1>7. PICK s \in row : \A t \in row : s[1] <= t[1]
  <2>1. columns \in SUBSET Nat /\ columns # {}
    BY <1>5, <1>6 DEF Size
  <2>2. PICK x \in columns : \A z \in columns : x <= z
    BY <2>1, LeastNatural
  <2> QED
    BY <2>2
<1>8. ASSUME NEW t \in free, t # s PROVE Precedes(s, t, cell)
  <2>1. /\ s \in free /\ s \in Size /\ t \in Size /\ s[2] = s2[2]
        /\ Distance(s, cell) = Distance(s1, cell)
    BY <1>1, <1>7
  <2>2. CASE t \notin closest
    BY <1>2, <1>4, <2>1, <2>2 DEF Precedes
  <2>3. CASE t \in closest /\ t \notin row
    <3>1. s[2] < t[2]
      BY <1>6, <2>1, <2>3 DEF Size
    <3> QED
      BY <2>1, <2>3, <3>1 DEF Precedes, Before
  <2>4. CASE t \in row
    <3>1. s[1] <= t[1] /\ s[2] = t[2]
      BY <1>7, <2>1, <2>4
    <3>2. s = <<s[1], s[2]>> /\ t = <<t[1], t[2]>>
      BY <2>1 DEF Size
    <3>3. s[1] < t[1]
      BY <1>8, <2>1, <3>1, <3>2 DEF Size
    <3> QED
      BY <2>1, <2>4, <3>1, <3>3 DEF Precedes, Before
  <2> QED
    BY <2>2, <2>3, <2>4
<1>9. s \in free
  BY <1>7
<1>10. NearestOf(free, p, max)
         = CHOOSE r \in free : \A t \in free \ {r} : Precedes(r, t, cell)
  BY DEF NearestOf, cell
<1>11. /\ NearestOf(free, p, max) \in free
       /\ \A t \in free \ {NearestOf(free, p, max)} :
             Precedes(NearestOf(free, p, max), t, cell)
  BY <1>8, <1>9, <1>10
<1>12. ASSUME p \in free PROVE NearestOf(free, p, max) = p
  <2> DEFINE r == NearestOf(free, p, max)
  <2>1. cell = p
    BY <1>12, SlotsProperties DEF cell
  <2>2. r \in free /\ (p # r => Precedes(r, p, cell))
    BY <1>11, <1>12
  <2> HIDE DEF r
  <2>3. Distance(p, cell) = 0 /\ Distance(r, cell) \in Nat
        /\ (Distance(r, cell) = 0 <=> r = cell)
    BY <1>2, <1>12, <2>1, <2>2
  <2> QED
    BY <2>1, <2>2, <2>3 DEF Precedes, r
<1> QED
  BY <1>11, <1>12

-----------------------------------------------------------------------------
(* The layout.                                                             *)

\* A shortcut always gets a slot: a free one if there is one, and the one it
\* should have if that is free.
LEMMA SettleProperties ==
  ASSUME NEW max \in Size, NEW taken, NEW p \in Point
  PROVE  /\ Settle(p, taken, max) \in Slots(max)
         /\ Free(taken, max) # {} => Settle(p, taken, max) \notin taken
         /\ p \in Free(taken, max) => Settle(p, taken, max) = p
<1> DEFINE free == Free(taken, max)
<1>1. free \in SUBSET Slots(max) /\ free \cap taken = {}
  BY DEF Free
<1>2. Settle(p, taken, max)
        = IF free = {} THEN Snap(p, max) ELSE NearestOf(free, p, max)
  BY DEF Settle
<1> HIDE DEF free
<1>3. Snap(p, max) \in Slots(max)
  BY SlotsProperties
<1>4. free # {} => /\ NearestOf(free, p, max) \in free
                   /\ p \in free => NearestOf(free, p, max) = p
  BY <1>1, NearestOfProperties
<1> QED
  BY <1>1, <1>2, <1>3, <1>4 DEF free

Wishes(wanted) == \A a \in DOMAIN wanted : wanted[a] \in Point

LEMMA DesiredType ==
  ASSUME NEW max \in Size, NEW ids, NEW wanted, Wishes(wanted),
         NEW n \in Nat \ {0}
  PROVE  Desired(ids, wanted, max, n) \in Point
BY DefaultPositionType DEF Desired, Wishes

\* What "Layout" computes: cell[n] is where the n-th shortcut settles after
\* those before it.
Greedy(cell, ids, wanted, max) ==
    /\ cell \in [1..Len(ids) -> Slots(max)]
    /\ \A n \in 1..Len(ids) :
          cell[n] = Settle(Desired(ids, wanted, max, n),
                           {cell[k] : k \in 1..n - 1}, max)

\* The recursion in "Layout" has a solution.
LEMMA CellsExist ==
  ASSUME NEW max \in Size, NEW ids, NEW wanted, Wishes(wanted), NEW N \in Nat
  PROVE  \E f \in [0..N -> Seq(Slots(max))] :
            /\ f[0] = <<>>
            /\ \A k \in 1..N :
                  f[k] = Append(f[k - 1], Settle(Desired(ids, wanted, max, k),
                                                 Range(f[k - 1]), max))
<1> DEFINE Placed == Seq(Slots(max))
           none == <<>>
           put == [n \in 1..N |-> [s \in Placed |->
                     Settle(Desired(ids, wanted, max, n), Range(s), max)]]
           extending == [n \in 1..N |->
                            [s \in Placed |-> Append(s, put[n][s])]]
<1>1. none \in Placed
  OBVIOUS
<1>2. put \in [1..N -> [Placed -> Slots(max)]]
  BY DesiredType, SettleProperties
<1>3. extending \in [1..N -> [Placed -> Placed]]
  <2> HIDE DEF put
  <2> QED
    BY <1>2
<1>4. \E f \in [0..N -> Placed] :
         f[0] = none /\ \A k \in 1..N : f[k] = extending[k][f[k - 1]]
  <2> HIDE DEF Placed, none, extending
  <2> QED
    BY ONLY N \in Nat, <1>1, <1>3, PrimitiveRecursion
<1>5. PICK f \in [0..N -> Placed] :
         f[0] = none /\ \A k \in 1..N : f[k] = extending[k][f[k - 1]]
  BY <1>4
<1>6. ASSUME NEW k \in 1..N
      PROVE  f[k] = Append(f[k - 1], Settle(Desired(ids, wanted, max, k),
                                            Range(f[k - 1]), max))
  <2>1. f[k - 1] \in Placed
    BY k - 1 \in 0..N
  <2> QED
    BY <1>5, <2>1
<1> QED
  BY <1>5, <1>6

LEMMA LayoutIsGreedy ==
  ASSUME NEW max \in Size, NEW S, NEW ids \in Seq(S),
         NEW wanted, Wishes(wanted)
  PROVE  \E cell : /\ Greedy(cell, ids, wanted, max)
                   /\ Layout(ids, wanted, max)
                        = [a \in Range(ids) |-> cell[Index(ids, a)]]
<1> DEFINE N == Len(ids)
           Placed == Seq(Slots(max))
           Extend(s, n) == Append(s, Settle(Desired(ids, wanted, max, n),
                                            Range(s), max))
           Recurs(f) == f = [n \in 0..N |-> IF n = 0 THEN <<>>
                                            ELSE Extend(f[n - 1], n)]
           cells == CHOOSE f : Recurs(f)
<1>1. N \in Nat
  OBVIOUS
<1>2. Layout(ids, wanted, max)
        = [a \in Range(ids) |-> cells[N][Index(ids, a)]]
  BY DEF Layout
<1>3. ASSUME NEW s \in Placed, NEW n \in 1..N
      PROVE  /\ Extend(s, n) \in Placed /\ Len(Extend(s, n)) = Len(s) + 1
             /\ \A k \in 1..Len(s) : Extend(s, n)[k] = s[k]
             /\ Extend(s, n)[Len(s) + 1]
                  = Settle(Desired(ids, wanted, max, n), Range(s), max)
  <2> DEFINE q == Settle(Desired(ids, wanted, max, n), Range(s), max)
  <2>1. q \in Slots(max)
    BY DesiredType, SettleProperties
  <2> HIDE DEF q
  <2>2. /\ Append(s, q) \in Placed /\ Len(Append(s, q)) = Len(s) + 1
        /\ \A k \in 1..Len(s) : Append(s, q)[k] = s[k]
        /\ Append(s, q)[Len(s) + 1] = q
    BY <2>1
  <2> QED
    BY <2>2 DEF q
<1>4. PICK f \in [0..N -> Placed] :
         f[0] = <<>> /\ \A k \in 1..N : f[k] = Extend(f[k - 1], k)
  BY <1>1, CellsExist
<1>5. Recurs(f)
  <2> HIDE DEF Placed, Extend, N
  <2>1. \A k \in 0..N : k # 0 => k \in 1..N
    BY <1>1
  <2>2. \A k \in 0..N : f[k] = IF k = 0 THEN <<>> ELSE Extend(f[k - 1], k)
    BY <1>4, <2>1
  <2>3. f = [k \in 0..N |-> f[k]]
    BY <1>4
  <2> QED
    BY <2>2, <2>3
<1>6. \E g : Recurs(g)
  BY <1>5
<1>7. Recurs(cells)
  <2> HIDE DEF Recurs
  <2> QED
    BY <1>6
<1>8. cells[0] = <<>> /\ \A n \in 1..N : cells[n] = Extend(cells[n - 1], n)
  <2> HIDE DEF cells, Extend
  <2> QED
    BY <1>1, <1>7
<1> HIDE DEF cells, Recurs, Extend, Placed
<1> DEFINE Good == {n \in 0..N :
              /\ cells[n] \in Placed /\ Len(cells[n]) = n
              /\ \A k \in 1..n : cells[n][k] = cells[k][k]
              /\ \A k \in 1..n : cells[k][k] \in Slots(max)}
<1>9. \A n \in 0..N : n \in Good
  <2>1. 0 \in Good
    <3>1. 0 \in 0..N /\ 1..0 = {}
      BY <1>1
    <3>2. <<>> \in Placed /\ Len(<<>>) = 0
      BY DEF Placed
    <3> HIDE DEF N
    <3> QED
      BY <1>8, <3>1, <3>2
  <2>2. ASSUME NEW n \in 1..N, n - 1 \in Good PROVE n \in Good
    <3>1. cells[n - 1] \in Placed /\ Len(cells[n - 1]) = n - 1
      BY <2>2
    <3>2. /\ cells[n] \in Placed /\ Len(cells[n]) = n
          /\ \A k \in 1..n - 1 : cells[n][k] = cells[n - 1][k]
      <4>1. cells[n] = Extend(cells[n - 1], n)
        BY <1>8
      <4>2. (n - 1) + 1 = n
        BY <1>1
      <4> HIDE DEF Good, N
      <4>3. /\ Extend(cells[n - 1], n) \in Placed
            /\ Len(Extend(cells[n - 1], n)) = Len(cells[n - 1]) + 1
            /\ \A k \in 1..Len(cells[n - 1]) :
                  Extend(cells[n - 1], n)[k] = cells[n - 1][k]
        BY <1>3, <3>1
      <4> QED
        BY <3>1, <4>1, <4>2, <4>3
    <3>3. \A k \in 1..n : cells[n][k] = cells[k][k]
      BY <2>2, <3>2
    <3>4. cells[n][n] \in Slots(max)
      BY <3>2 DEF Placed
    <3> QED
      BY <2>2, <3>2, <3>3, <3>4
  <2> HIDE DEF Good
  <2>3. 0..N \subseteq Good
    BY <1>1, <2>1, <2>2, InductionUpTo
  <2> QED
    BY <2>3
<1> DEFINE cell == [n \in 1..N |-> cells[n][n]]
<1>10. ASSUME NEW n \in 1..N
      PROVE  /\ cell[n] \in Slots(max)
             /\ cell[n] = Settle(Desired(ids, wanted, max, n),
                                 {cell[k] : k \in 1..n - 1}, max)
  <2>1. n \in Good /\ n - 1 \in Good
    BY <1>1, <1>9
  <2>2. cells[n - 1] \in Placed /\ Len(cells[n - 1]) = n - 1
    BY <2>1
  <2>3. cells[n][n]
          = Settle(Desired(ids, wanted, max, n), Range(cells[n - 1]), max)
    <3>1. Len(cells[n - 1]) + 1 = n
      BY <2>2
    <3> QED
      BY <1>3, <1>8, <2>2, <3>1
  <2>4. Range(cells[n - 1]) = {cell[k] : k \in 1..n - 1}
    <3>1. DOMAIN cells[n - 1] = 1..n - 1
      BY <2>2 DEF Placed
    <3>2. \A k \in 1..n - 1 : cells[n - 1][k] = cell[k]
      BY <1>1, <2>1
    <3> QED
      BY <3>1, <3>2 DEF Range
  <2> QED
    BY <2>1, <2>3, <2>4
<1>11. Layout(ids, wanted, max) = [a \in Range(ids) |-> cell[Index(ids, a)]]
  <2>1. ASSUME NEW a \in Range(ids) PROVE cells[N][Index(ids, a)] = cell[Index(ids, a)]
    <3>1. Index(ids, a) \in 1..N
      BY DEF Range, Index
    <3> QED
      BY <1>1, <1>9, <3>1
  <2> HIDE DEF cell, Good
  <2> QED
    BY <1>2, <2>1
<1>12. Greedy(cell, ids, wanted, max)
  <2> HIDE DEF Good
  <2>1. cell \in [1..N -> Slots(max)]
    BY <1>10
  <2> HIDE DEF cell
  <2> QED
    BY <1>10, <2>1 DEF Greedy
<1> HIDE DEF cell
<1> QED
  BY <1>11, <1>12

\* There is only one way to do it.
LEMMA GreedyIsUnique ==
  ASSUME NEW max, NEW ids, Len(ids) \in Nat, NEW wanted, NEW c, NEW d,
         Greedy(c, ids, wanted, max), Greedy(d, ids, wanted, max)
  PROVE  c = d
<1> DEFINE N == Len(ids)
           Bad == {n \in 1..N : c[n] # d[n]}
<1>1. c \in [1..N -> Slots(max)] /\ d \in [1..N -> Slots(max)]
  BY DEF Greedy
<1>2. Bad = {}
  <2> SUFFICES ASSUME Bad # {} PROVE FALSE
    OBVIOUS
  <2>1. Bad \in SUBSET Nat
    OBVIOUS
  <2>2. PICK m \in Bad : \A n \in Bad : m <= n
    BY <2>1, LeastNatural
  <2>3. ASSUME NEW k \in 1..m - 1 PROVE c[k] = d[k]
    <3>1. k \in 1..N /\ ~(m <= k)
      BY <2>2
    <3> QED
      BY <2>2, <3>1
  <2>4. {c[k] : k \in 1..m - 1} = {d[k] : k \in 1..m - 1}
    BY <2>3
  <2>5. m \in 1..N /\ c[m] # d[m]
    OBVIOUS
  <2> QED
    BY <2>4, <2>5 DEF Greedy
<1> QED
  BY <1>1, <1>2

LEMMA IndexProperties ==
  ASSUME NEW S, NEW ids \in Seq(S), NEW a \in Range(ids)
  PROVE  /\ Index(ids, a) \in 1..Len(ids) /\ ids[Index(ids, a)] = a
BY DEF Range, Index

\* Every shortcut gets a cell of the grid.
LEMMA LayoutProperties ==
  ASSUME NEW max \in Size, NEW S, NEW ids \in Seq(S),
         NEW wanted, Wishes(wanted)
  PROVE  Layout(ids, wanted, max) \in [Range(ids) -> Slots(max)]
<1>1. PICK cell : /\ Greedy(cell, ids, wanted, max)
                  /\ Layout(ids, wanted, max)
                       = [a \in Range(ids) |-> cell[Index(ids, a)]]
  BY LayoutIsGreedy
<1>2. \A a \in Range(ids) : cell[Index(ids, a)] \in Slots(max)
  BY <1>1, IndexProperties DEF Greedy
<1> QED
  BY <1>1, <1>2

\* No two shortcuts get one cell if there are cells enough.
LEMMA LayoutIsInjective ==
  ASSUME NEW max \in Size, NEW S, NEW ids \in Seq(S), IsInjective(ids),
         NEW wanted, Wishes(wanted), Cardinality(Slots(max)) >= Len(ids)
  PROVE  IsInjective(Layout(ids, wanted, max))
<1> DEFINE N == Len(ids)
<1>1. PICK cell : /\ Greedy(cell, ids, wanted, max)
                  /\ Layout(ids, wanted, max)
                       = [a \in Range(ids) |-> cell[Index(ids, a)]]
  BY LayoutIsGreedy
<1>2. N \in Nat /\ cell \in [1..N -> Slots(max)]
  BY <1>1 DEF Greedy
<1>3. ASSUME NEW n \in 1..N
      PROVE  Free({cell[k] : k \in 1..n - 1}, max) # {}
  <2> DEFINE taken == {cell[k] : k \in 1..n - 1}
             before == [k \in 1..n - 1 |-> cell[k]]
  <2>1. IsFiniteSet(1..n - 1) /\ Cardinality(1..n - 1) = n - 1
    BY FS_Interval
  <2>2. before \in Surjection(1..n - 1, taken)
    BY DEF Surjection
  <2> HIDE DEF before, taken
  <2>3. IsFiniteSet(taken) /\ Cardinality(taken) <= n - 1
    BY <2>1, <2>2, FS_Surjection
  <2>4. Cardinality(taken) \in Nat
    BY <2>3, FS_CardinalityType
  <2>5. IsFiniteSet(Slots(max)) /\ Cardinality(Slots(max)) \in Nat
    BY SlotsProperties
  <2>6. ~(Slots(max) \in SUBSET taken)
    <3>1. ASSUME Slots(max) \in SUBSET taken
          PROVE  Cardinality(Slots(max)) <= Cardinality(taken)
      BY <2>3, <3>1, FS_Subset
    <3> QED
      BY <1>2, <2>3, <2>4, <2>5, <3>1
  <2> QED
    BY <2>6 DEF Free, taken
<1>4. ASSUME NEW n \in 1..N, NEW k \in 1..n - 1
      PROVE  cell[n] # cell[k]
  <2> DEFINE taken == {cell[j] : j \in 1..n - 1}
             p == Desired(ids, wanted, max, n)
  <2>1. p \in Point
    BY DesiredType
  <2>2. cell[n] = Settle(p, taken, max)
    BY <1>1 DEF Greedy
  <2>3. cell[k] \in taken /\ Free(taken, max) # {}
    BY <1>3
  <2> HIDE DEF taken, p
  <2>4. Settle(p, taken, max) \notin taken
    BY <2>1, <2>3, SettleProperties
  <2> QED
    BY <2>2, <2>3, <2>4
<1>5. ASSUME NEW m \in 1..N, NEW n \in 1..N, cell[m] = cell[n]
      PROVE  m = n
  <2>1. ~(m \in 1..n - 1) /\ ~(n \in 1..m - 1)
    BY <1>4, <1>5
  <2> QED
    BY <1>2, <2>1
<1>6. ASSUME NEW a \in Range(ids), NEW b \in Range(ids),
             cell[Index(ids, a)] = cell[Index(ids, b)]
      PROVE  a = b
  <2>1. Index(ids, a) = Index(ids, b)
    BY <1>5, <1>6, IndexProperties
  <2> QED
    BY <2>1, IndexProperties
<1> QED
  BY <1>1, <1>6 DEF IsInjective

(* A layout that is computed from its own cells is the same layout: what    *)
(* is written to the file after a change is what the next layout shows.     *)
THEOREM LayoutIsStable ==
  ASSUME NEW max \in Size, NEW S, NEW ids \in Seq(S), IsInjective(ids),
         NEW at \in [Range(ids) -> Slots(max)], IsInjective(at)
  PROVE  Layout(ids, at, max) = at
<1> DEFINE N == Len(ids)
           own == [n \in 1..N |-> at[ids[n]]]
<1>1. N \in Nat /\ DOMAIN ids = 1..N /\ DOMAIN at = Range(ids)
  OBVIOUS
<1>2. ASSUME NEW n \in 1..N
      PROVE  ids[n] \in Range(ids) /\ at[ids[n]] \in Slots(max)
  BY DEF Range
<1>3. Wishes(at)
  BY SlotsProperties DEF Wishes
<1>4. ASSUME NEW n \in 1..N
      PROVE  own[n] = Settle(Desired(ids, at, max, n),
                             {own[k] : k \in 1..n - 1}, max)
  <2> DEFINE taken == {own[k] : k \in 1..n - 1}
  <2>1. Desired(ids, at, max, n) = own[n]
    BY <1>1, <1>2 DEF Desired
  <2>2. own[n] \in Slots(max) /\ own[n] \in Point
    BY <1>2, SlotsProperties
  <2>3. ASSUME NEW k \in 1..n - 1 PROVE own[k] # own[n]
    <3>1. k \in 1..N /\ k # n
      OBVIOUS
    <3>2. ids[k] # ids[n]
      BY <1>1, <3>1 DEF IsInjective
    <3> QED
      BY <1>1, <1>2, <3>1, <3>2 DEF IsInjective
  <2>4. own[n] \in Free(taken, max)
    BY <2>2, <2>3 DEF Free
  <2> HIDE DEF own, taken
  <2>5. Settle(own[n], taken, max) = own[n]
    BY <2>2, <2>4, SettleProperties
  <2> QED
    BY <2>1, <2>5 DEF taken
<1>5. Greedy(own, ids, at, max)
  <2>1. own \in [1..N -> Slots(max)]
    BY <1>2
  <2> HIDE DEF own
  <2> QED
    BY <1>4, <2>1 DEF Greedy
<1>6. PICK cell : /\ Greedy(cell, ids, at, max)
                  /\ Layout(ids, at, max)
                       = [a \in Range(ids) |-> cell[Index(ids, a)]]
  BY <1>3, LayoutIsGreedy
<1>7. cell = own
  <2> HIDE DEF own
  <2> QED
    BY <1>1, <1>5, <1>6, GreedyIsUnique
<1>8. ASSUME NEW a \in Range(ids) PROVE cell[Index(ids, a)] = at[a]
  BY <1>7, IndexProperties
<1> QED
  BY <1>6, <1>8

-----------------------------------------------------------------------------
(* What is displayed.                                                      *)

LEMMA UpToProperties ==
  ASSUME NEW S, NEW s \in Seq(S), NEW n \in Nat
  PROVE  /\ UpTo(n, s) \in Seq(S) /\ Len(UpTo(n, s)) = Lesser(n, Len(s))
         /\ Len(UpTo(n, s)) <= n
         /\ DOMAIN UpTo(n, s) \subseteq DOMAIN s
         /\ \A k \in DOMAIN UpTo(n, s) : UpTo(n, s)[k] = s[k]
         /\ Range(UpTo(n, s)) \subseteq Range(s)
         /\ IsInjective(s) => IsInjective(UpTo(n, s))
<1> DEFINE m == Lesser(n, Len(s))
<1>1. m \in 0..Len(s) /\ m <= n
  BY DEF Lesser
<1>2. UpTo(n, s) = SubSeq(s, 1, m)
  BY DEF UpTo
<1> HIDE DEF m
<1>3. /\ SubSeq(s, 1, m) \in Seq(S) /\ Len(SubSeq(s, 1, m)) = m
      /\ \A k \in 1..m : SubSeq(s, 1, m)[k] = s[k]
  BY <1>1
<1>4. DOMAIN UpTo(n, s) = 1..m /\ DOMAIN s = 1..Len(s)
  BY <1>2, <1>3
<1>5. \A k \in 1..m : k \in DOMAIN s /\ UpTo(n, s)[k] = s[k]
  BY <1>1, <1>2, <1>3
<1>6. Range(UpTo(n, s)) \subseteq Range(s)
  BY <1>4, <1>5 DEF Range
<1>7. IsInjective(s) => IsInjective(UpTo(n, s))
  BY <1>4, <1>5 DEF IsInjective
<1> QED
  BY <1>1, <1>2, <1>3, <1>4, <1>5, <1>6, <1>7 DEF m

\* An app is displayed once, as a favorite or among the featured ones.
LEMMA DisplayedProperties ==
  ASSUME NEW favs \in Seq(Favorable), IsInjective(favs)
  PROVE  /\ Displayed(favs) \in Seq(App) /\ IsInjective(Displayed(favs))
         /\ Len(Displayed(favs)) \in Nat
         /\ Range(Displayed(favs)) \subseteq App
<1> DEFINE featured == UpTo(Limit, Featured)
           isNew == {i \in DOMAIN featured : featured[i] \notin Range(favs)}
           others == Picked(featured, isNew)
<1>1. /\ Limit \in Nat /\ Featured \in Seq(App) /\ IsInjective(Featured)
      /\ Favorable \subseteq App
  BY DesktopAssumption DEF App
<1>2. featured \in Seq(App) /\ IsInjective(featured)
  BY <1>1, UpToProperties
<1>3. favs \in Seq(App)
  BY <1>1
<1>4. Displayed(favs) = UpTo(Limit, favs \o others)
  BY DEF Displayed
<1>5. isNew \in SUBSET DOMAIN featured
  OBVIOUS
<1> HIDE DEF featured
<1>6. others \in Seq(App) /\ IsInjective(others)
  <2>1. \A i, j \in DOMAIN featured : featured[i] = featured[j] => i = j
    BY <1>2 DEF IsInjective
  <2> HIDE DEF isNew
  <2>2. others \in Seq(App)
    BY <1>2, <1>5, PickedProperties
  <2>3. \A j, k \in DOMAIN others : others[j] = others[k] => j = k
    BY <1>2, <1>5, <2>1, PickedDistinct
  <2> QED
    BY <2>2, <2>3 DEF IsInjective
<1>7. Range(favs) \cap Range(others) = {}
  <2>1. {others[k] : k \in DOMAIN others} = {featured[i] : i \in isNew}
    <3> HIDE DEF isNew
    <3> QED
      BY <1>2, <1>5, PickedRange
  <2> HIDE DEF others
  <2> QED
    BY <2>1 DEF Range
<1> HIDE DEF others, isNew
<1>8. favs \o others \in Seq(App) /\ IsInjective(favs \o others)
  BY <1>3, <1>6, <1>7, ConcatenationIsInjective
<1>9. Displayed(favs) \in Seq(App) /\ IsInjective(Displayed(favs))
  BY <1>1, <1>4, <1>8, UpToProperties
<1>10. Range(Displayed(favs)) \subseteq App
  BY <1>9 DEF Range
<1> QED
  BY <1>9, <1>10

-----------------------------------------------------------------------------
(* The invariant.                                                          *)

FavoritesInv ==
    /\ favorites \in Seq(Favorable) /\ Len(favorites) <= FavoritesKept
    /\ IsInjective(favorites)

\* What is saved is what is stored.
StoredInv ==
    /\ DOMAIN stored \subseteq App /\ Wishes(stored)
    /\ disk = stored

SelectionInv ==
    /\ selected \subseteq App /\ focus \in App \cup {Nobody}
    /\ EnterLaunchesSelected

LaneInv == lane \in Lanes /\ laidOutFor \in Lanes \cup {StartLane}

\* The model of the window is the layout of what is stored.
ShownInv == shown = Layout(Ids, stored, Bounds(laidOutFor))

DesktopInv == FavoritesInv /\ StoredInv /\ SelectionInv /\ LaneInv /\ ShownInv

LEMMA LaneIsSize ==
  ASSUME NEW max \in Lanes \cup {StartLane}
  PROVE  max \in Size /\ Bounds(max) \in Size
BY DesktopAssumption DEF Size, Bounds

\* What the invariant says of the displayed shortcuts and the model.
LEMMA DisplayedNow ==
  ASSUME FavoritesInv
  PROVE  /\ Ids \in Seq(App) /\ IsInjective(Ids) /\ Len(Ids) \in Nat
         /\ Range(Ids) \subseteq App
BY DisplayedProperties DEF FavoritesInv, Ids

\* A callback reads the layout for a size of the lane.
LEMMA LayoutNow ==
  ASSUME FavoritesInv, StoredInv, NEW max \in Size
  PROVE  /\ Layout(Ids, stored, max) \in [Range(Ids) -> Slots(max)]
         /\ \A a \in Range(Ids) : Layout(Ids, stored, max)[a] \in Point
<1>1. Layout(Ids, stored, max) \in [Range(Ids) -> Slots(max)]
  BY DisplayedNow, LayoutProperties DEF StoredInv
<1> QED
  BY <1>1, SlotsProperties

LEMMA FirstOfProperties ==
  ASSUME FavoritesInv, NEW S
  PROVE  FirstOf(S) = Nobody \/ FirstOf(S) \in S \cap Range(Ids)
<1> DEFINE hits == {n \in DOMAIN Ids : Ids[n] \in S}
<1>1. FirstOf(S) = IF hits = {} THEN Nobody ELSE Ids[Smallest(hits)]
  BY DEF FirstOf
<1>2. hits \in SUBSET Nat
  BY DisplayedNow
<1>3. hits # {} => Smallest(hits) \in hits
  <2> HIDE DEF hits
  <2> QED
    BY <1>2, SmallestProperties
<1> QED
  BY <1>1, <1>3 DEF Range

LEMMA DesktopInit == Init => DesktopInv
<1> SUFFICES ASSUME Init PROVE DesktopInv
  OBVIOUS
<1>1. FavoritesInv
  BY DesktopAssumption DEF Init, FavoritesInv, IsInjective
<1>2. StoredInv
  <2>1. PICK known \in SUBSET App : disk \in [known -> SavedPoints]
    BY DEF Init
  <2>2. \A a \in known : disk[a] \in Point
    BY <2>1, DesktopAssumption DEF Point
  <2> QED
    BY <2>1, <2>2 DEF Init, StoredInv, Wishes
<1>3. SelectionInv
  BY DEF Init, SelectionInv, EnterLaunchesSelected
<1>4. LaneInv /\ ShownInv
  BY DEF Init, LaneInv, ShownInv
<1> QED
  BY <1>1, <1>2, <1>3, <1>4 DEF DesktopInv

\* Every callback ends with Refresh.
LEMMA RefreshStep ==
  ASSUME Refresh PROVE ShownInv'
BY DEF Refresh, ShownInv, Ids

LEMMA FavoritesStep ==
  ASSUME FavoritesInv, NEW a \in Favorable, ToggleFavorite(a)
  PROVE  FavoritesInv'
<1> DEFINE kept == DOMAIN favorites \ {Index(favorites, a)}
           less == Picked(favorites, kept)
           more == <<a>> \o favorites
<1>1. favorites \in Seq(Favorable) /\ IsInjective(favorites)
      /\ FavoritesKept \in Nat
  BY DesktopAssumption DEF FavoritesInv
<1>2. less \in Seq(Favorable) /\ IsInjective(less)
  <2>1. \A i, j \in DOMAIN favorites : favorites[i] = favorites[j] => i = j
    BY <1>1 DEF IsInjective
  <2>2. kept \in SUBSET DOMAIN favorites
    OBVIOUS
  <2> HIDE DEF kept
  <2>3. less \in Seq(Favorable)
    BY <1>1, <2>2, PickedProperties
  <2>4. \A j, k \in DOMAIN less : less[j] = less[k] => j = k
    BY <1>1, <2>1, <2>2, PickedDistinct
  <2> QED
    BY <2>3, <2>4 DEF IsInjective
<1>3. ASSUME a \notin Range(favorites)
      PROVE  more \in Seq(Favorable) /\ IsInjective(more)
  <2>1. /\ <<a>> \in Seq(Favorable) /\ IsInjective(<<a>>)
        /\ Range(<<a>>) = {a}
    BY DEF IsInjective, Range
  <2> QED
    BY <1>1, <1>3, <2>1, ConcatenationIsInjective
<1>4. favorites' = UpTo(FavoritesKept,
                        IF a \in Range(favorites) THEN less ELSE more)
  BY DEF ToggleFavorite
<1> HIDE DEF less, more
<1>5. PICK s \in Seq(Favorable) :
         IsInjective(s) /\ favorites' = UpTo(FavoritesKept, s)
  BY <1>2, <1>3, <1>4
<1> QED
  BY <1>1, <1>5, UpToProperties DEF FavoritesInv

\* A shortcut that is moved by an arrow key goes to a cell.
LEMMA TargetsProperties ==
  ASSUME FavoritesInv, StoredInv, lane \in Size, NEW d \in Arrow
  PROVE  LET at == Layout(Ids, stored, lane)
             to == Targets(at, d)
         IN  /\ DOMAIN to = DOMAIN at \cap selected
             /\ \A a \in DOMAIN to : to[a] \in Slots(lane)
<1> DEFINE at == Layout(Ids, stored, lane)
<1>1. at \in [Range(Ids) -> Slots(lane)]
      /\ \A a \in Range(Ids) : at[a] \in Point
  BY LayoutNow
<1>2. d[1] \in Int /\ d[2] \in Int /\ StepX \in Int /\ StepY \in Int
  BY DesktopAssumption DEF Arrow
<1> HIDE DEF at
<1>3. ASSUME NEW a \in DOMAIN at
      PROVE  Snap(<<at[a][1] + d[1] * StepX, at[a][2] + d[2] * StepY>>, lane)
               \in Slots(lane)
  <2>1. <<at[a][1] + d[1] * StepX, at[a][2] + d[2] * StepY>> \in Point
    BY <1>1, <1>2 DEF Point
  <2> QED
    BY <2>1, SlotsProperties
<1> QED
  BY <1>3 DEF Targets, at

\* What an arrow key writes: a cell for every shortcut that is displayed,
\* and another for each if they had one each.
LEMMA ExtendedProperties ==
  ASSUME FavoritesInv, StoredInv, lane \in Size, NEW d \in Arrow
  PROVE  LET at == Layout(Ids, stored, lane)
             to == Targets(at, d)
         IN  /\ Extended(at, to) \in [Range(Ids) -> Slots(lane)]
             /\ IsInjective(at) /\ CanMove(at, to)
                  => IsInjective(Extended(at, to))
<1> DEFINE at == Layout(Ids, stored, lane)
           to == Targets(at, d)
<1>1. at \in [Range(Ids) -> Slots(lane)]
  BY LayoutNow
<1>2. DOMAIN to = DOMAIN at \cap selected
      /\ \A a \in DOMAIN to : to[a] \in Slots(lane)
  BY TargetsProperties
<1> HIDE DEF at, to
<1>3. Extended(at, to) \in [Range(Ids) -> Slots(lane)]
  BY <1>1, <1>2 DEF Extended
<1>4. ASSUME IsInjective(at), CanMove(at, to),
             NEW a \in DOMAIN at, NEW b \in DOMAIN at,
             Extended(at, to)[a] = Extended(at, to)[b]
      PROVE  a = b
  <2>1. \A c \in DOMAIN at :
           Extended(at, to)[c] = IF c \in DOMAIN to THEN to[c] ELSE at[c]
    BY DEF Extended
  <2>2. CASE a \in DOMAIN to /\ b \in DOMAIN to
    BY <1>4, <2>1, <2>2 DEF CanMove, IsInjective
  <2>3. CASE a \in DOMAIN to /\ b \notin DOMAIN to
    BY <1>2, <1>4, <2>1, <2>3 DEF CanMove
  <2>4. CASE a \notin DOMAIN to /\ b \in DOMAIN to
    BY <1>2, <1>4, <2>1, <2>4 DEF CanMove
  <2>5. CASE a \notin DOMAIN to /\ b \notin DOMAIN to
    BY <1>4, <2>1, <2>5 DEF IsInjective
  <2> QED
    BY <2>2, <2>3, <2>4, <2>5
<1>5. DOMAIN Extended(at, to) = DOMAIN at
  BY DEF Extended
<1>6. IsInjective(at) /\ CanMove(at, to) => IsInjective(Extended(at, to))
  BY <1>4, <1>5 DEF IsInjective
<1> QED
  BY <1>3, <1>6 DEF at, to

\* What a drag writes.
Dropped(at, a, p) ==
    [at EXCEPT ![a] =
        NearestOf(Free({at[b] : b \in DOMAIN at \ {a}}, lane), p, lane)]

LEMMA DroppedProperties ==
  ASSUME FavoritesInv, lane \in Size,
         NEW at \in [Range(Ids) -> Slots(lane)],
         NEW a \in Range(Ids), NEW p \in Slots(lane),
         Free({at[b] : b \in DOMAIN at \ {a}}, lane) # {}
  PROVE  /\ Dropped(at, a, p) \in [Range(Ids) -> Slots(lane)]
         /\ IsInjective(at) => IsInjective(Dropped(at, a, p))
         /\ \A b \in Range(Ids) \ {a} : Dropped(at, a, p)[b] = at[b]
<1> DEFINE others == {at[b] : b \in DOMAIN at \ {a}}
           free == Free(others, lane)
           cell == NearestOf(free, p, lane)
<1>1. p \in Point
  BY SlotsProperties
<1>2. free # {}
  OBVIOUS
<1>3. cell \in Slots(lane) /\ cell \notin others
  <2>1. free \in SUBSET Slots(lane) /\ free \cap others = {}
    BY DEF Free
  <2> HIDE DEF free, others
  <2>2. cell \in free
    BY <1>1, <1>2, <2>1, NearestOfProperties
  <2> QED
    BY <2>1, <2>2
<1>4. Dropped(at, a, p) = [at EXCEPT ![a] = cell]
  BY DEF Dropped
<1> HIDE DEF cell
<1>5. Dropped(at, a, p) \in [Range(Ids) -> Slots(lane)]
      /\ \A b \in Range(Ids) \ {a} : Dropped(at, a, p)[b] = at[b]
  BY <1>1, <1>3, <1>4
<1>6. IsInjective(at) => IsInjective(Dropped(at, a, p))
  BY <1>1, <1>3, <1>4 DEF IsInjective
<1> QED
  BY <1>5, <1>6

\* Every layout that is stored is one of points.
LEMMA StoringStep ==
  ASSUME FavoritesInv, NEW max \in Size,
         NEW at \in [Range(Ids) -> Slots(max)],
         stored' = at, disk' = at
  PROVE  StoredInv'
<1>1. DOMAIN at \subseteq App
  BY DisplayedNow
<1>2. \A a \in DOMAIN at : at[a] \in Point
  BY SlotsProperties
<1> QED
  BY <1>1, <1>2 DEF StoredInv, Wishes

LEMMA DesktopStep == DesktopInv /\ [Next]_vars => DesktopInv'
<1> SUFFICES ASSUME DesktopInv, [Next]_vars PROVE DesktopInv'
  OBVIOUS
<1>1. FavoritesInv /\ StoredInv /\ SelectionInv /\ LaneInv /\ ShownInv
  BY DEF DesktopInv
<1>2. lane \in Size /\ lane \in Lanes
  BY <1>1, LaneIsSize DEF LaneInv
<1>3. Range(Ids) \subseteq App
  BY <1>1, DisplayedNow
<1> DEFINE at == Layout(Ids, stored, lane)
<1>4. at \in [Range(Ids) -> Slots(lane)]
  BY <1>1, <1>2, LayoutNow
<1> HIDE DEF at
\* The parts that a callback leaves alone.
<1>5. UNCHANGED favorites => FavoritesInv'
  BY <1>1 DEF FavoritesInv
<1>6. KeepPositions => StoredInv'
  BY <1>1 DEF KeepPositions, StoredInv, Wishes
<1>7. KeepSelection => SelectionInv'
  BY <1>1 DEF KeepSelection, SelectionInv, EnterLaunchesSelected
<1>8. UNCHANGED lane /\ Refresh => LaneInv' /\ ShownInv'
  BY <1>1, RefreshStep DEF LaneInv, Refresh
<1>9. ASSUME NEW a \in App, ChooseOnly(a) PROVE SelectionInv'
  BY <1>9 DEF ChooseOnly, SelectionInv, EnterLaunchesSelected
\* One step per callback.
<1>10. ASSUME NEW a \in Range(Ids), Select(a) PROVE DesktopInv'
  BY <1>3, <1>5, <1>6, <1>8, <1>9, <1>10 DEF Select, DesktopInv
<1>11. CASE ClearSelection
  <2>1. SelectionInv'
    BY <1>11 DEF ClearSelection, SelectionInv, EnterLaunchesSelected
  <2> QED
    BY <1>5, <1>6, <1>8, <1>11, <2>1 DEF ClearSelection, DesktopInv
<1>12. CASE SelectAll
  <2>1. SelectionInv'
    BY <1>1, <1>3, <1>12, FirstOfProperties
    DEF SelectAll, SelectionInv, EnterLaunchesSelected
  <2> QED
    BY <1>5, <1>6, <1>8, <1>12, <2>1 DEF SelectAll, DesktopInv
<1>13. CASE AutoArrange
  <2> DEFINE some == UpTo(Cardinality(Slots(lane)), Ids)
             grid == [a \in Range(some) |-> Slot(Index(Ids, a), lane)]
  <2>1. Cardinality(Slots(lane)) \in Nat /\ Ids \in Seq(App)
    BY <1>1, <1>2, SlotsProperties, DisplayedNow
  <2>2. Range(some) \subseteq Range(Ids)
    BY <2>1, UpToProperties
  <2>3. stored' = grid /\ disk' = grid
    BY <1>13 DEF AutoArrange, Persist
  <2> HIDE DEF some
  <2>4. ASSUME NEW a \in Range(some) PROVE Slot(Index(Ids, a), lane) \in Point
    <3>1. Index(Ids, a) \in Nat \ {0}
      BY <2>1, <2>2, IndexProperties
    <3> QED
      BY <1>2, <3>1, DefaultPositionType
  <2>5. StoredInv'
    BY <1>3, <2>2, <2>3, <2>4 DEF StoredInv, Wishes
  <2> QED
    BY <1>5, <1>7, <1>8, <1>13, <2>5 DEF AutoArrange, DesktopInv
<1>14. ASSUME NEW p, NEW q, MarqueeSelect(p, q) PROVE DesktopInv'
  <2>1. Touched(p, q) \subseteq Range(Ids)
    BY <1>4 DEF Touched, at
  <2>2. SelectionInv'
    BY <1>1, <1>3, <1>14, <2>1, FirstOfProperties
    DEF MarqueeSelect, SelectionInv, EnterLaunchesSelected
  <2> QED
    BY <1>5, <1>6, <1>8, <1>14, <2>2 DEF MarqueeSelect, DesktopInv
<1>15. ASSUME NEW d \in Arrow, MoveFocus(d) PROVE DesktopInv'
  <2> DEFINE here == Layout(Ids, stored, Bounds(lane))
             from == IF focus \in DOMAIN here THEN focus ELSE Head(Ids)
  <2>1. DOMAIN here = Range(Ids)
    BY <1>1, <1>2, LaneIsSize, LayoutNow
  <2>2. Ids # <<>> /\ \E a \in NextFocus(here, from, d) : ChooseOnly(a)
    BY <1>15 DEF MoveFocus
  <2>3. Head(Ids) \in Range(Ids)
    <3>1. Ids \in Seq(App) /\ Ids # <<>>
      BY <1>1, <2>2, DisplayedNow
    <3>2. 1 \in DOMAIN Ids /\ Head(Ids) = Ids[1]
      BY <3>1
    <3> QED
      BY <3>2 DEF Range
  <2>4. from \in Range(Ids)
    BY <2>1, <2>3
  <2> HIDE DEF here, from
  <2>5. NextFocus(here, from, d) \subseteq Range(Ids)
    BY <2>1, <2>4 DEF NextFocus, Ahead
  <2>6. SelectionInv'
    BY <1>3, <1>9, <2>2, <2>5
  <2> QED
    BY <1>5, <1>6, <1>8, <1>15, <2>6 DEF MoveFocus, DesktopInv
<1>16. ASSUME NEW d \in Arrow, Nudge(d) PROVE DesktopInv'
  <2> DEFINE to == Targets(at, d)
  <2>1. Extended(at, to) \in [Range(Ids) -> Slots(lane)]
    BY <1>1, <1>2, <1>16, ExtendedProperties DEF at
  <2>2. KeepPositions \/ (stored' = Extended(at, to) /\ disk' = Extended(at, to))
    BY <1>16 DEF Nudge, Persist, at
  <2> HIDE DEF to
  <2>3. StoredInv'
    BY <1>1, <1>2, <1>6, <2>1, <2>2, StoringStep
  <2> QED
    BY <1>5, <1>7, <1>8, <1>16, <2>3 DEF Nudge, DesktopInv
<1>17. ASSUME NEW a \in Range(Ids), NEW p \in Slots(lane), Drop(a, p)
       PROVE  DesktopInv'
  <2> DEFINE free == Free({at[b] : b \in DOMAIN at \ {a}}, lane)
  <2>1. free # {} => Dropped(at, a, p) \in [Range(Ids) -> Slots(lane)]
    BY <1>1, <1>2, <1>4, DroppedProperties
  <2>2. IF free # {}
        THEN stored' = Dropped(at, a, p) /\ disk' = Dropped(at, a, p)
        ELSE KeepPositions
    BY <1>17 DEF Drop, Dropped, Persist, at
  <2> HIDE DEF free
  <2>3. StoredInv'
    BY <1>1, <1>2, <1>6, <2>1, <2>2, StoringStep
  <2> QED
    BY <1>3, <1>5, <1>8, <1>9, <1>17, <2>3 DEF Drop, DesktopInv
<1>18. ASSUME NEW a \in Favorable, ToggleFavorite(a) PROVE DesktopInv'
  <2>1. FavoritesInv'
    BY <1>1, <1>18, FavoritesStep
  <2> QED
    BY <1>6, <1>7, <1>8, <1>18, <2>1 DEF ToggleFavorite, DesktopInv
<1>19. CASE OtherCallback
  BY <1>5, <1>6, <1>7, <1>8, <1>19 DEF OtherCallback, DesktopInv
<1>20. CASE Resize
  <2>1. LaneInv' /\ ShownInv'
    BY <1>1, <1>20 DEF Resize, LaneInv, ShownInv, Ids
  <2> QED
    BY <1>5, <1>6, <1>7, <1>20, <2>1
    DEF Resize, KeepPositions, KeepSelection, DesktopInv
<1>21. CASE Restart
  <2>1. StoredInv'
    BY <1>1, <1>21 DEF Restart, StoredInv, Wishes
  <2>2. SelectionInv'
    BY <1>21 DEF Restart, SelectionInv, EnterLaunchesSelected
  <2>3. LaneInv' /\ ShownInv'
    BY <1>21 DEF Restart, LaneInv, ShownInv, Ids
  <2> QED
    BY <1>5, <1>21, <2>1, <2>2, <2>3 DEF Restart, DesktopInv
<1>22. CASE UNCHANGED vars
  <2>1. LaneInv' /\ ShownInv'
    BY <1>1, <1>22 DEF vars, LaneInv, ShownInv, Ids
  <2> QED
    BY <1>5, <1>6, <1>7, <1>22, <2>1
    DEF vars, KeepPositions, KeepSelection, DesktopInv
<1> QED
  BY <1>10, <1>11, <1>12, <1>13, <1>14, <1>15, <1>16, <1>17, <1>18, <1>19,
     <1>20, <1>21, <1>22 DEF Next

(* The invariant the theorems below rest on: what is shown is the layout of *)
(* what is stored, and what is stored is what the file holds.               *)
THEOREM DesktopInvariant == Spec => []DesktopInv
<1> QED
  BY DesktopInit, DesktopStep, PTL DEF Spec

(* The positions that are shown are cells of the grid for the size they    *)
(* were computed for, one for every shortcut that is displayed, and what   *)
(* is stored and saved are points, whatever an earlier session saved.      *)
THEOREM DesktopTypeCorrect == Spec => []TypeOK
<1>1. DesktopInv => TypeOK
  <2> SUFFICES ASSUME DesktopInv PROVE TypeOK
    OBVIOUS
  <2>1. FavoritesInv /\ StoredInv /\ SelectionInv /\ LaneInv /\ ShownInv
    BY DEF DesktopInv
  <2>2. shown \in [Range(Ids) -> Slots(Bounds(laidOutFor))]
    BY <2>1, LaneIsSize, LayoutNow DEF LaneInv, ShownInv
  <2>3. DOMAIN shown = Range(Ids) /\ Range(shown) \subseteq Slots(Bounds(laidOutFor))
    BY <2>2 DEF Range
  <2>4. /\ DOMAIN stored \subseteq App /\ Range(stored) \subseteq Int \X Int
        /\ DOMAIN disk \subseteq App /\ Range(disk) \subseteq Int \X Int
    BY <2>1 DEF StoredInv, Wishes, Range, Point
  <2> QED
    BY <2>1, <2>3, <2>4 DEF FavoritesInv, SelectionInv, LaneInv, TypeOK
<1> QED
  BY <1>1, DesktopInvariant, PTL

(* No two shortcuts are shown in one cell while there are cells enough,    *)
(* for every grid and whatever positions were saved.                       *)
THEOREM ShortcutsHaveTheirOwnCells == Spec => []CellsAreApart
<1>1. DesktopInv => CellsAreApart
  <2> SUFFICES ASSUME DesktopInv, Roomy PROVE IsInjective(shown)
    BY DEF CellsAreApart
  <2>1. FavoritesInv /\ StoredInv /\ LaneInv /\ ShownInv
    BY DEF DesktopInv
  <2>2. Bounds(laidOutFor) \in Size
    BY <2>1, LaneIsSize DEF LaneInv
  <2> QED
    BY <2>1, <2>2, DisplayedNow, LayoutIsInjective
    DEF Roomy, ShownInv, StoredInv
<1> QED
  BY <1>1, DesktopInvariant, PTL

(* Enter launches one of the shortcuts that are highlighted.               *)
THEOREM EnterLaunchesAHighlighted == Spec => []EnterLaunchesSelected
<1>1. DesktopInv => EnterLaunchesSelected
  BY DEF DesktopInv, SelectionInv
<1> QED
  BY <1>1, DesktopInvariant, PTL

-----------------------------------------------------------------------------
(* What a step may move.                                                   *)

\* A callback that keeps the positions shows every shortcut where it was.
LEMMA KeptPositionsAreShown ==
  ASSUME ShownInv, laidOutFor = lane, UNCHANGED <<lane, favorites, stored>>,
         Refresh
  PROVE  shown' = shown
BY DEF ShownInv, Refresh, Ids

\* A layout that is stored with a cell for every shortcut is shown as it is.
LEMMA StoredIsShown ==
  ASSUME FavoritesInv, lane \in Size, Bounds(lane) = lane,
         UNCHANGED <<lane, favorites>>, Refresh,
         NEW at \in [Range(Ids) -> Slots(lane)], IsInjective(at), stored' = at
  PROVE  shown' = at
<1>1. shown' = Layout(Ids, at, lane)
  BY DEF Refresh, Ids
<1> QED
  BY <1>1, DisplayedNow, LayoutIsStable

\* In a steady lane the layout a callback reads is the one that is shown.
LEMMA SteadyLayout ==
  ASSUME DesktopInv, Steady
  PROVE  /\ FavoritesInv /\ StoredInv /\ ShownInv
         /\ lane \in Size /\ Bounds(lane) = lane /\ laidOutFor = lane
         /\ UNCHANGED <<lane, favorites>>
         /\ Layout(Ids, stored, lane) = shown
         /\ shown \in [Range(Ids) -> Slots(lane)] /\ IsInjective(shown)
<1>1. /\ FavoritesInv /\ StoredInv /\ LaneInv /\ ShownInv
      /\ Bounds(lane) = lane /\ laidOutFor = lane /\ Roomy
      /\ UNCHANGED <<lane, favorites>>
  BY DEF DesktopInv, Steady
<1>2. lane \in Size
  BY <1>1, LaneIsSize DEF LaneInv
<1>3. Layout(Ids, stored, lane) = shown
  BY <1>1 DEF ShownInv
<1>4. shown \in [Range(Ids) -> Slots(lane)]
  BY <1>1, <1>2, <1>3, LayoutNow
<1>5. Cardinality(Slots(lane)) >= Len(Ids)
  BY <1>1 DEF Roomy
<1>6. IsInjective(shown)
  BY <1>1, <1>2, <1>3, <1>5, DisplayedNow, LayoutIsInjective DEF StoredInv
<1> QED
  BY <1>1, <1>2, <1>3, <1>4, <1>6

\* An arrow key shows what it wrote, or changes nothing.
LEMMA NudgeShows ==
  ASSUME DesktopInv, Steady, NEW d \in Arrow, Nudge(d)
  PROVE  \/ shown' = shown
         \/ /\ CanMove(shown, Targets(shown, d))
            /\ shown' = Extended(shown, Targets(shown, d))
<1>1. /\ FavoritesInv /\ StoredInv /\ ShownInv
      /\ lane \in Size /\ Bounds(lane) = lane /\ laidOutFor = lane
      /\ UNCHANGED <<lane, favorites>>
      /\ Layout(Ids, stored, lane) = shown /\ IsInjective(shown)
  BY SteadyLayout
<1> DEFINE to == Targets(shown, d)
<1>2. CASE CanMove(shown, to)
  <2>1. stored' = Extended(shown, to) /\ Refresh
    BY <1>1, <1>2 DEF Nudge
  <2>2. /\ Extended(shown, to) \in [Range(Ids) -> Slots(lane)]
        /\ IsInjective(Extended(shown, to))
    BY <1>1, <1>2, ExtendedProperties
  <2> HIDE DEF to
  <2>3. shown' = Extended(shown, to)
    BY <1>1, <2>1, <2>2, StoredIsShown
  <2> QED
    BY <1>2, <2>3 DEF to
<1>3. CASE ~CanMove(shown, to)
  <2>1. UNCHANGED stored /\ Refresh
    BY <1>1, <1>3 DEF Nudge, KeepPositions
  <2> QED
    BY <1>1, <2>1, KeptPositionsAreShown
<1> QED
  BY <1>2, <1>3

LEMMA NudgeLeavesOthers ==
  ASSUME DesktopInv, Steady, NEW d \in Arrow, Nudge(d),
         NEW a \in DOMAIN shown \ selected'
  PROVE  shown'[a] = shown[a]
<1>1. a \notin DOMAIN Targets(shown, d)
  BY DEF Nudge, KeepSelection, Targets
<1> QED
  BY <1>1, NudgeShows DEF Extended

LEMMA DropLeavesOthers ==
  ASSUME DesktopInv, Steady, NEW a \in Range(Ids), NEW p \in Slots(lane),
         Drop(a, p), NEW b \in DOMAIN shown \ selected'
  PROVE  shown'[b] = shown[b]
<1>1. /\ FavoritesInv /\ StoredInv /\ ShownInv
      /\ lane \in Size /\ Bounds(lane) = lane /\ laidOutFor = lane
      /\ UNCHANGED <<lane, favorites>>
      /\ Layout(Ids, stored, lane) = shown
      /\ shown \in [Range(Ids) -> Slots(lane)] /\ IsInjective(shown)
  BY SteadyLayout
<1> DEFINE free == Free({shown[c] : c \in DOMAIN shown \ {a}}, lane)
<1>2. b \in Range(Ids) \ {a}
  BY <1>1 DEF Drop, ChooseOnly
<1>3. CASE free # {}
  <2>1. stored' = Dropped(shown, a, p) /\ Refresh
    BY <1>1, <1>3 DEF Drop, Dropped
  <2>2. /\ Dropped(shown, a, p) \in [Range(Ids) -> Slots(lane)]
        /\ IsInjective(Dropped(shown, a, p))
        /\ Dropped(shown, a, p)[b] = shown[b]
    <3>1. /\ FavoritesInv /\ lane \in Size
          /\ shown \in [Range(Ids) -> Slots(lane)] /\ IsInjective(shown)
      BY <1>1
    <3>2. Free({shown[c] : c \in DOMAIN shown \ {a}}, lane) # {}
      BY <1>3
    <3> QED
      BY ONLY <1>2, <3>1, <3>2, a \in Range(Ids), p \in Slots(lane),
              DroppedProperties
  <2>3. shown' = Dropped(shown, a, p)
    BY <1>1, <2>1, <2>2, StoredIsShown
  <2> QED
    BY <2>2, <2>3
<1>4. CASE free = {}
  <2>1. UNCHANGED stored /\ Refresh
    BY <1>1, <1>4 DEF Drop, KeepPositions
  <2> QED
    BY <1>1, <2>1, KeptPositionsAreShown
<1> QED
  BY <1>3, <1>4

(* Nothing but an arrangement moves a shortcut that was neither dragged    *)
(* nor selected.                                                           *)
THEOREM OthersStayWhereTheyAre == Spec => OthersStay
<1>1. ASSUME DesktopInv, [Next]_vars, Steady, NEW a \in DOMAIN shown \ selected',
             shown'[a] # shown[a]
      PROVE  AutoArrange
  <2>1. /\ ShownInv /\ StoredInv /\ laidOutFor = lane
        /\ UNCHANGED <<lane, laidOutFor, favorites>>
    BY <1>1, SteadyLayout DEF Steady
  <2>2. ~(UNCHANGED stored /\ Refresh)
    BY <1>1, <2>1, KeptPositionsAreShown
  <2>3. ~KeepPositions \/ ~Refresh
    BY <2>2 DEF KeepPositions
  <2>4. ASSUME NEW b, Select(b) PROVE FALSE
    BY <2>3, <2>4 DEF Select
  <2>5. ~ClearSelection /\ ~SelectAll /\ ~OtherCallback
    BY <2>3 DEF ClearSelection, SelectAll, OtherCallback
  <2>6. ASSUME NEW p, NEW q, MarqueeSelect(p, q) PROVE FALSE
    BY <2>3, <2>6 DEF MarqueeSelect
  <2>7. ASSUME NEW d, MoveFocus(d) PROVE FALSE
    BY <2>3, <2>7 DEF MoveFocus
  <2>8. ASSUME NEW d \in Arrow, Nudge(d) PROVE FALSE
    BY <1>1, <2>8, NudgeLeavesOthers
  <2>9. ASSUME NEW b \in Range(Ids), NEW p \in Slots(lane), Drop(b, p)
        PROVE  FALSE
    BY <1>1, <2>9, DropLeavesOthers
  <2>10. ASSUME NEW b, ToggleFavorite(b) PROVE FALSE
    BY <2>3, <2>10 DEF ToggleFavorite
  <2>11. ~Resize
    BY <2>1 DEF Resize
  <2>12. ~Restart
    <3>1. Restart => shown' = shown
      BY <2>1 DEF Restart, StoredInv, ShownInv
    <3> QED
      BY <1>1, <3>1
  <2>13. ~UNCHANGED vars
    BY <1>1 DEF vars
  <2> QED
    BY <1>1, <2>4, <2>5, <2>6, <2>7, <2>8, <2>9, <2>10, <2>11, <2>12, <2>13
    DEF Next
<1>2. DesktopInv /\ [Next]_vars =>
        [Steady /\ (\E a \in DOMAIN shown \ selected' : shown'[a] # shown[a])
            => AutoArrange]_vars
  BY <1>1
<1> QED
  BY <1>2, DesktopInvariant, PTL DEF Spec, OthersStay

(* The selected shortcuts move together or not at all.                     *)
THEOREM SelectedMoveTogether == Spec => MoveTogether
<1>1. ASSUME DesktopInv, Steady, shown' # shown, NEW d \in Arrow, Nudge(d),
             NEW a \in DOMAIN shown \cap selected
      PROVE  shown'[a] # shown[a]
  <2>1. /\ CanMove(shown, Targets(shown, d))
        /\ shown' = Extended(shown, Targets(shown, d))
    BY <1>1, NudgeShows
  <2>2. a \in DOMAIN Targets(shown, d)
    BY DEF Targets
  <2> QED
    BY <2>1, <2>2 DEF Extended, CanMove
<1>2. DesktopInv =>
        [Steady /\ shown' # shown /\ (\E d \in Arrow : Nudge(d)) =>
            \A a \in DOMAIN shown \cap selected : shown'[a] # shown[a]]_vars
  BY <1>1
<1> QED
  BY <1>2, DesktopInvariant, PTL DEF Spec, MoveTogether

(* What a shell that is started again has read is the layout that was on    *)
(* the screen: for a window of the same size it is laid out as before.      *)
THEOREM LayoutSurvivesRestart == Spec => LayoutSurvives
<1>1. ASSUME DesktopInv, Restart, laidOutFor = lane
      PROVE  Layout(Displayed(favorites'), stored', Bounds(lane)) = shown
  <2>1. shown = Layout(Ids, stored, Bounds(lane)) /\ disk = stored
    BY <1>1 DEF DesktopInv, ShownInv, StoredInv
  <2> QED
    BY <1>1, <2>1 DEF Restart, Ids
<1>2. DesktopInv =>
        [Restart /\ laidOutFor = lane =>
            Layout(Displayed(favorites'), stored', Bounds(lane)) = shown]_vars
  BY <1>1
<1> QED
  BY <1>2, DesktopInvariant, PTL DEF Spec, LayoutSurvives
=============================================================================
