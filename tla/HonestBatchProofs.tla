--------------------------- MODULE HonestBatchProofs ---------------------------
(***************************************************************************)
(* The relation is complete: whatever plan a host has that adds up, for    *)
(* every profile the relation knows, every number of cells and every value,*)
(* the batch made of it passes every check.                                *)
(*                                                                         *)
(* The proof goes through the batch the way the relation does: what the    *)
(* statement of a plan is, place by place, what every party supplies, and  *)
(* then one lemma per group of checks.  At the end, what is accepted for   *)
(* the statement of such a plan is that batch and no other.                *)
(***************************************************************************)
EXTENDS TransitionBatchProofs

(***************************************************************************)
(* A filter whose places are known, and the total of a joined list.        *)
(***************************************************************************)

\* place lists the picked ones of n places, in their order.
PicksPlaces(place, m, picked, n) ==
    /\ n \in Nat /\ m \in Nat /\ picked \in SUBSET (1..n)
    /\ \A j \in 1..m : place[j] \in picked
    /\ \A i, j \in 1..m : i < j => place[i] < place[j]
    /\ \A k \in picked : \E j \in 1..m : place[j] = k

\* When the picked places are known in their order, so is what is kept.
LEMMA KeptAtPlaces ==
  ASSUME NEW place, NEW m, NEW picked, NEW n, PicksPlaces(place, m, picked, n), NEW s
  PROVE  /\ IsList(Kept(s, picked)) /\ Len(Kept(s, picked)) = m /\ DOMAIN Kept(s, picked) = 1..m
         /\ \A j \in 1..m : Kept(s, picked)[j] = s[place[j]]
         /\ Kept(s, picked) = [j \in 1..m |-> Kept(s, picked)[j]]
<1>0. /\ n \in Nat /\ m \in Nat /\ picked \in SUBSET (1..n)
      /\ \A j \in 1..m : place[j] \in picked
      /\ \A i, j \in 1..m : i < j => place[i] < place[j]
      /\ \A k \in picked : \E j \in 1..m : place[j] = k
  BY DEF PicksPlaces
<1> DEFINE rank == RankAmong(picked)
<1>1. \A j \in 1..m : place[j] \in Nat
  <2> SUFFICES ASSUME NEW j \in 1..m PROVE place[j] \in Nat OBVIOUS
  <2>1. place[j] \in picked BY <1>0
  <2>2. \A k \in picked : k \in Nat BY <1>0
  <2> QED BY <2>1, <2>2
<1>2. NoneTwice(place, m)
  <2> SUFFICES ASSUME NEW i \in 1..m, NEW j \in 1..m, place[i] = place[j] PROVE i = j BY DEF NoneTwice
  <2>1. ~(i < j) /\ ~(j < i) BY <1>0, <1>1
  <2> QED BY <2>1
<1>3. Cardinality(picked) = m
  <2>1. picked = FirstItems(place, m) BY <1>0 DEF FirstItems
  <2> QED BY <1>0, <1>2, <2>1, DistinctCount
<1>4. ASSUME NEW j \in 1..m PROVE rank[place[j]] = j
  <2>1. rank[place[j]] = Cardinality({i \in picked : i <= place[j]}) BY <1>0 DEF RankAmong
  <2>2. {i \in picked : i <= place[j]} = FirstItems(place, j)
    <3>1. ASSUME NEW i \in picked, i <= place[j] PROVE i \in FirstItems(place, j)
      <4>1. PICK k \in 1..m : place[k] = i BY <1>0, <3>1
      <4>2. ~(j < k) BY <1>0, <1>1, <3>1, <4>1
      <4>3. k \in 1..j BY <1>0, <4>2
      <4> QED BY <4>1, <4>3 DEF FirstItems
    <3>2. ASSUME NEW k \in 1..j PROVE place[k] \in picked /\ place[k] <= place[j]
      <4>1. k \in 1..m BY <1>0
      <4>2. k = j \/ place[k] < place[j] BY <1>0, <4>1
      <4> QED BY <1>0, <1>1, <4>1, <4>2
    <3> QED BY <3>1, <3>2 DEF FirstItems
  <2>3. j \in Nat /\ NoneTwice(place, j) BY <1>0, <1>2 DEF NoneTwice
  <2>4. Cardinality(FirstItems(place, j)) = j BY <2>3, DistinctCount
  <2> QED BY <2>1, <2>2, <2>4
<1>5. \A i, j \in picked : rank[i] = rank[j] => i = j
  <2> SUFFICES ASSUME NEW i \in picked, NEW j \in picked, rank[i] = rank[j] PROVE i = j OBVIOUS
  <2>1. PICK k \in 1..m : place[k] = i BY <1>0
  <2>2. PICK l \in 1..m : place[l] = j BY <1>0
  <2>3. k = l BY <1>4, <2>1, <2>2
  <2> QED BY <2>1, <2>2, <2>3
<1>6. ASSUME NEW j \in 1..m PROVE (CHOOSE k \in picked : rank[k] = j) = place[j]
  <2>1. place[j] \in picked /\ rank[place[j]] = j BY <1>0, <1>4
  <2> HIDE DEF rank
  <2> QED BY <1>5, <2>1
<1>7. Kept(s, picked) = [j \in 1..Cardinality(picked) |-> s[CHOOSE k \in picked : rank[k] = j]]
  BY DEF Kept
<1> HIDE DEF rank
<1>8. Kept(s, picked) = [j \in 1..m |-> s[CHOOSE k \in picked : rank[k] = j]] BY <1>3, <1>7
<1>9. \A j \in 1..m : s[CHOOSE k \in picked : rank[k] = j] = s[place[j]] BY <1>6
<1> DEFINE kept == Kept(s, picked)
<1> HIDE DEF kept
<1>10. kept = [j \in 1..m |-> s[place[j]]] BY <1>8, <1>9 DEF kept
<1>11. kept = [j \in 1..m |-> kept[j]] /\ \A j \in 1..m : kept[j] = s[place[j]] BY <1>10
<1>12. IsList(kept) /\ Len(kept) = m /\ DOMAIN kept = 1..m BY <1>0, <1>11, IntervalIsList
<1> QED BY <1>11, <1>12 DEF kept

\* The total of a joined list, and of a list cut in two.
LEMMA JoinedTotal ==
  ASSUME NEW s \in Seq(Int), NEW t \in Seq(Int)
  PROVE  TotalOf(s \o t) = TotalOf(s) + TotalOf(t)
<1> DEFINE j == s \o t
           m == Len(s)
           n == Len(t)
           S == {k \in Nat : k <= m => RunningTotals(j)[k] = RunningTotals(s)[k]}
           T == {k \in Nat : k <= n => RunningTotals(j)[m + k] = RunningTotals(s)[m] + RunningTotals(t)[k]}
<1>1. /\ j \in Seq(Int) /\ Len(j) = m + n /\ m \in Nat /\ n \in Nat
      /\ \A k \in 1..(m + n) : j[k] = IF k <= m THEN s[k] ELSE t[k - m]
  BY ConcatShape
<1>2. RunningTotals(s)[m] \in Int
  <2>1. m \in 0..m BY <1>1
  <2> QED BY <2>1, RunningTotalsType
<1>3. RunningTotals(j)[0] = 0 /\ RunningTotals(s)[0] = 0 /\ RunningTotals(t)[0] = 0
  <2>1. Len(j) \in Nat BY <1>1
  <2> HIDE DEF j
  <2> QED BY <1>1, <2>1, RunningTotalsStep
<1> HIDE DEF j, m, n
<1>4. 0 \in S BY <1>3
<1>5. ASSUME NEW k \in Nat, k \in S PROVE k + 1 \in S
  <2> SUFFICES ASSUME k + 1 <= m PROVE RunningTotals(j)[k + 1] = RunningTotals(s)[k + 1] OBVIOUS
  <2>1. RunningTotals(s)[k + 1] = RunningTotals(s)[k] + s[k + 1] BY RunningTotalsNext DEF m
  <2>2. k + 1 <= Len(j) BY <1>1
  <2>3. RunningTotals(j)[k + 1] = RunningTotals(j)[k] + j[k + 1] BY <1>1, <2>2, RunningTotalsNext
  <2>4. j[k + 1] = s[k + 1]
    <3>1. k + 1 \in 1..(m + n) BY <1>1
    <3> QED BY <1>1, <3>1
  <2>5. RunningTotals(j)[k] = RunningTotals(s)[k] BY <1>1, <1>5
  <2> QED BY <2>1, <2>3, <2>4, <2>5
<1>6. m \in S
  <2> HIDE DEF S
  <2>1. \A k \in Nat : k \in S BY <1>4, <1>5, Induction
  <2> QED BY <1>1, <2>1
<1>7. RunningTotals(j)[m] = RunningTotals(s)[m] BY <1>1, <1>6
<1>8. 0 \in T BY <1>1, <1>2, <1>3, <1>7
<1>9. ASSUME NEW k \in Nat, k \in T PROVE k + 1 \in T
  <2> SUFFICES ASSUME k + 1 <= n
               PROVE  RunningTotals(j)[m + (k + 1)] = RunningTotals(s)[m] + RunningTotals(t)[k + 1]
    OBVIOUS
  <2>1. /\ RunningTotals(t)[k] \in Int /\ t[k + 1] \in Int
        /\ RunningTotals(t)[k + 1] = RunningTotals(t)[k] + t[k + 1]
    BY RunningTotalsNext DEF n
  <2>2. m + k \in Nat /\ (m + k) + 1 <= Len(j) /\ (m + k) + 1 = m + (k + 1) BY <1>1
  <2>3. RunningTotals(j)[(m + k) + 1] = RunningTotals(j)[m + k] + j[(m + k) + 1]
    BY <1>1, <2>2, RunningTotalsNext
  <2>4. j[m + (k + 1)] = t[k + 1]
    <3>1. m + (k + 1) \in 1..(m + n) /\ ~(m + (k + 1) <= m) /\ (m + (k + 1)) - m = k + 1 BY <1>1
    <3> QED BY <1>1, <3>1
  <2>5. RunningTotals(j)[m + k] = RunningTotals(s)[m] + RunningTotals(t)[k] BY <1>1, <1>9
  <2> QED BY <1>2, <2>1, <2>2, <2>3, <2>4, <2>5
<1>10. n \in T
  <2> HIDE DEF T
  <2>1. \A k \in Nat : k \in T BY <1>8, <1>9, Induction
  <2> QED BY <1>1, <2>1
<1>11. RunningTotals(j)[m + n] = RunningTotals(s)[m] + RunningTotals(t)[n] BY <1>1, <1>10
<1>12. TotalOf(s) = RunningTotals(s)[m] /\ TotalOf(t) = RunningTotals(t)[n] BY TotalIsLast DEF m, n
<1>13. TotalOf(j) = RunningTotals(j)[m + n] BY <1>1, TotalIsLast
<1> QED BY <1>11, <1>12, <1>13 DEF j

(***************************************************************************)
(* The transaction of a plan, place by place.                              *)
(***************************************************************************)

LEMMA SplitTotal ==
  ASSUME NEW a \in Nat, NEW b \in Nat, NEW values \in [1..(a + b) -> Int]
  PROVE  TotalOf(values) = TotalOf([k \in 1..a |-> values[k]]) + TotalOf([k \in 1..b |-> values[a + k]])
<1> DEFINE s == [k \in 1..a |-> values[k]]
           t == [k \in 1..b |-> values[a + k]]
           j == s \o t
<1>1. s \in Seq(Int) /\ Len(s) = a
  <2>1. s \in [1..a -> Int]
    <3>1. \A k \in 1..a : k \in 1..(a + b) OBVIOUS
    <3> QED BY <3>1
  <2> HIDE DEF s
  <2> QED BY <2>1, FunctionIsListOf
<1>2. t \in Seq(Int) /\ Len(t) = b
  <2>1. t \in [1..b -> Int]
    <3>1. \A k \in 1..b : a + k \in 1..(a + b) OBVIOUS
    <3> QED BY <3>1
  <2> HIDE DEF t
  <2> QED BY <2>1, FunctionIsListOf
<1>3. /\ j \in Seq(Int) /\ Len(j) = a + b
      /\ \A k \in 1..(a + b) : j[k] = IF k <= a THEN s[k] ELSE t[k - a]
  <2> HIDE DEF s, t
  <2>1. /\ s \o t \in Seq(Int) /\ Len(s \o t) = Len(s) + Len(t)
        /\ \A k \in 1..(Len(s) + Len(t)) : (s \o t)[k] = IF k <= Len(s) THEN s[k] ELSE t[k - Len(s)]
    BY <1>1, <1>2, ConcatShape
  <2>2. /\ j \in Seq(Int) /\ Len(j) = Len(s) + Len(t)
        /\ \A k \in 1..(Len(s) + Len(t)) : j[k] = IF k <= Len(s) THEN s[k] ELSE t[k - Len(s)]
    BY <2>1
  <2> HIDE DEF j
  <2> QED BY <1>1, <1>2, <2>2
<1>4. \A k \in 1..(a + b) : (IF k <= a THEN s[k] ELSE t[k - a]) = values[k]
  <2> SUFFICES ASSUME NEW k \in 1..(a + b) PROVE (IF k <= a THEN s[k] ELSE t[k - a]) = values[k] OBVIOUS
  <2>1. CASE k <= a
    <3>1. k \in 1..a BY <2>1
    <3> QED BY <2>1, <3>1
  <2>2. CASE ~(k <= a)
    <3>1. k - a \in 1..b /\ a + (k - a) = k BY <2>2
    <3> QED BY <2>2, <3>1
  <2> QED BY <2>1, <2>2
<1>5. j = [k \in 1..(a + b) |-> j[k]]
  <2> HIDE DEF j
  <2> QED BY <1>3, ListShape
<1>6. j = values
  <2> HIDE DEF j, s, t
  <2> QED BY <1>3, <1>4, <1>5
<1>7. TotalOf(j) = TotalOf(s) + TotalOf(t)
  <2> HIDE DEF s, t
  <2> QED BY <1>1, <1>2, JoinedTotal
<1> QED BY <1>6, <1>7

\* Of a list all of whose values are the same.
LEMMA TotalOfSame ==
  ASSUME NEW n \in Nat, NEW c \in Int
  PROVE  TotalOf([k \in 1..n |-> c]) = n * c
<1> DEFINE values == [k \in 1..n |-> c]
<1>1. values = [k \in 1..n |-> values[k]] /\ \A k \in 1..n : values[k] = c OBVIOUS
<1> HIDE DEF values
<1>2. TotalOf(values) = n * c BY <1>1, SumOfEqual
<1> QED BY <1>2 DEF values

\* Two stretches of equal values.
TwoRuns(values, a, u, b, v) ==
    /\ a \in Nat /\ b \in Nat /\ u \in Int /\ v \in Int
    /\ values \in [1..(a + b) -> Int]
    /\ \A k \in 1..(a + b) : values[k] = IF k <= a THEN u ELSE v

\* The total of a run of equal values followed by another.
LEMMA TotalOfTwoRuns ==
  ASSUME NEW values, NEW a, NEW u, NEW b, NEW v, TwoRuns(values, a, u, b, v)
  PROVE  TotalOf(values) = a * u + b * v
<1>0. /\ a \in Nat /\ b \in Nat /\ u \in Int /\ v \in Int
      /\ \A k \in 1..(a + b) : values[k] = IF k <= a THEN u ELSE v
  BY DEF TwoRuns
<1>1. values \in [1..(a + b) -> Int] BY DEF TwoRuns
<1>2. TotalOf(values) = TotalOf([k \in 1..a |-> values[k]]) + TotalOf([k \in 1..b |-> values[a + k]])
  BY <1>0, <1>1, SplitTotal
<1>3. [k \in 1..a |-> values[k]] = [k \in 1..a |-> u]
  <2>1. \A k \in 1..a : k \in 1..(a + b) /\ k <= a BY <1>0
  <2>2. \A k \in 1..a : values[k] = u BY <1>0, <2>1
  <2> QED BY <2>2
<1>4. [k \in 1..b |-> values[a + k]] = [k \in 1..b |-> v]
  <2>1. \A k \in 1..b : a + k \in 1..(a + b) /\ ~(a + k <= a) BY <1>0
  <2>2. \A k \in 1..b : values[a + k] = v BY <1>0, <2>1
  <2> QED BY <2>2
<1>5. TotalOf([k \in 1..a |-> u]) = a * u /\ TotalOf([k \in 1..b |-> v]) = b * v BY <1>0, TotalOfSame
<1> QED BY <1>2, <1>3, <1>4, <1>5

\* The inputs of a plan's transaction, one definition per kind, and which is at a place.
InCell(pl, k) ==
    [outpoint |-> <<pl.tag, k>>, value |-> pl.cells[k].sats, role |-> "private-backing",
     lock |-> Seal(pl.profile, Hash("sha256", pl.tag + 40 + k))]
InVerifier(pl, k, value) ==
    [outpoint |-> <<pl.tag, Len(pl.cells) + 1 + k>>, value |-> value, role |-> "verifier-only", lock |-> <<"other">>]
Collateral(pl) == pl.profile.carrierCount * CarrierValue + BoundaryValue
InputCount(pl) == Len(pl.cells) + pl.padding + 1

\* The input at a place: the cells but the last, the padding, the last cell and the
\* verifier input that pays for the carriers.
InputAt(pl, k) ==
    IF k < Len(pl.cells) THEN InCell(pl, k)
    ELSE IF k < Len(pl.cells) + pl.padding THEN InVerifier(pl, k - Len(pl.cells) + 1, 0)
    ELSE IF k = Len(pl.cells) + pl.padding THEN InCell(pl, Len(pl.cells))
    ELSE InVerifier(pl, 0, Collateral(pl))

\* The definition of Inputs joins lists; this says what is at each place.
LEMMA InputsByPlace ==
  ASSUME NEW pl, Len(pl.cells) \in Nat, Len(pl.cells) >= 1, pl.padding \in Nat
  PROVE  /\ Inputs(pl) = [k \in 1..InputCount(pl) |-> InputAt(pl, k)]
         /\ IsList(Inputs(pl)) /\ Len(Inputs(pl)) = InputCount(pl) /\ DOMAIN Inputs(pl) = 1..InputCount(pl)
<1> DEFINE m == Len(pl.cells)
           d == pl.padding
           A == [k \in 1 .. m - 1 |-> InCell(pl, k)]
           B == [k \in 1 .. d |-> InVerifier(pl, k, 0)]
           C == << InCell(pl, m), InVerifier(pl, 0, Collateral(pl)) >>
           AB == A \o B
           ABC == AB \o C
           l == (m - 1) + d
<1>1. Inputs(pl) = ABC BY DEF Inputs, InCell, InVerifier, Collateral
<1>2. m \in Nat /\ m >= 1 /\ d \in Nat /\ m - 1 \in Nat OBVIOUS
<1>3. /\ IsList(A) /\ Len(A) = m - 1
      /\ IsList(B) /\ Len(B) = d
      /\ IsList(C) /\ Len(C) = 2
  <2>1. IsList(A) /\ Len(A) = m - 1
    <3>1. A = [k \in 1..(m - 1) |-> A[k]] OBVIOUS
    <3> HIDE DEF A, m
    <3> QED BY <1>2, <3>1, IntervalIsList
  <2>2. IsList(B) /\ Len(B) = d
    <3>1. B = [k \in 1..d |-> B[k]] OBVIOUS
    <3> HIDE DEF B, d
    <3> QED BY <1>2, <3>1, IntervalIsList
  <2>3. IsList(C) /\ Len(C) = 2
    <3>1. C = [k \in 1..2 |-> C[k]] OBVIOUS
    <3> HIDE DEF C
    <3> QED BY <3>1, IntervalIsList
  <2> QED BY <2>1, <2>2, <2>3
<1>4. \A k \in 1..(m - 1) : A[k] = InCell(pl, k) OBVIOUS
<1>5. \A k \in 1..d : B[k] = InVerifier(pl, k, 0) OBVIOUS
<1>6. C[1] = InCell(pl, m) /\ C[2] = InVerifier(pl, 0, Collateral(pl)) OBVIOUS
<1> HIDE DEF A, B, C, m, d
<1>7. /\ IsList(AB) /\ Len(AB) = (m - 1) + d
      /\ \A k \in 1..((m - 1) + d) : AB[k] = IF k <= m - 1 THEN A[k] ELSE B[k - (m - 1)]
  BY <1>3, JoinedLists
<1> HIDE DEF AB
<1>8. /\ IsList(ABC) /\ Len(ABC) = (m - 1) + d + 2 /\ DOMAIN ABC = 1..((m - 1) + d + 2)
      /\ \A k \in 1..((m - 1) + d + 2) : ABC[k] = IF k <= (m - 1) + d THEN AB[k] ELSE C[k - ((m - 1) + d)]
  <2>1. IsList(AB) /\ Len(AB) = l /\ IsList(C) /\ Len(C) = 2 BY <1>3, <1>7
  <2> HIDE DEF l
  <2>2. /\ IsList(AB \o C) /\ Len(AB \o C) = Len(AB) + Len(C) /\ DOMAIN (AB \o C) = 1..(Len(AB) + Len(C))
        /\ \A k \in 1..(Len(AB) + Len(C)) : (AB \o C)[k] = IF k <= Len(AB) THEN AB[k] ELSE C[k - Len(AB)]
    BY <2>1, JoinedLists
  <2>3. /\ IsList(ABC) /\ Len(ABC) = l + 2 /\ DOMAIN ABC = 1..(l + 2)
        /\ \A k \in 1..(l + 2) : ABC[k] = IF k <= l THEN AB[k] ELSE C[k - l]
    BY <2>1, <2>2
  <2> QED BY <2>3 DEF l
<1> HIDE DEF ABC
<1>9. InputCount(pl) = (m - 1) + d + 2 BY <1>2 DEF InputCount, m, d
<1>10. ASSUME NEW k \in 1..InputCount(pl) PROVE ABC[k] = InputAt(pl, k)
  <2>1. CASE k < m
    <3>1. k \in 1..((m - 1) + d) /\ k <= m - 1 /\ k \in 1..(m - 1) /\ k <= (m - 1) + d
      BY <1>2, <1>9, <2>1
    <3>2. ABC[k] = InCell(pl, k) BY <1>4, <1>7, <1>8, <1>9, <3>1
    <3> QED BY <2>1, <3>2 DEF InputAt, m
  <2>2. CASE ~(k < m) /\ k < m + d
    <3>1. /\ k \in 1..((m - 1) + d) /\ ~(k <= m - 1) /\ k - (m - 1) \in 1..d /\ k <= (m - 1) + d
          /\ k - (m - 1) = k - m + 1
      BY <1>2, <1>9, <2>2
    <3>2. ABC[k] = InVerifier(pl, k - m + 1, 0) BY <1>5, <1>7, <1>8, <1>9, <3>1
    <3> QED BY <2>2, <3>2 DEF InputAt, m, d
  <2>3. CASE k = m + d
    <3>1. ~(k <= (m - 1) + d) /\ k - ((m - 1) + d) = 1 /\ ~(k < m) /\ ~(k < m + d) BY <1>2, <2>3
    <3>2. ABC[k] = InCell(pl, m) BY <1>6, <1>8, <1>9, <3>1
    <3> QED BY <2>3, <3>1, <3>2 DEF InputAt, m, d
  <2>4. CASE k > m + d
    <3>1. /\ ~(k <= (m - 1) + d) /\ k - ((m - 1) + d) = 2
          /\ ~(k < m) /\ ~(k < m + d) /\ k # m + d
      BY <1>2, <1>9, <2>4
    <3>2. ABC[k] = InVerifier(pl, 0, Collateral(pl)) BY <1>6, <1>8, <1>9, <3>1
    <3> QED BY <3>1, <3>2 DEF InputAt, m, d
  <2> QED BY <1>2, <1>9, <2>1, <2>2, <2>3, <2>4
<1>11. ABC = [k \in 1..InputCount(pl) |-> ABC[k]]
  <2>1. ABC = [k \in 1..Len(ABC) |-> ABC[k]] BY <1>8, IsListShape
  <2> QED BY <1>8, <1>9, <2>1
<1>12. ABC = [k \in 1..InputCount(pl) |-> InputAt(pl, k)] BY <1>10, <1>11
<1> QED BY <1>1, <1>8, <1>9, <1>12

LEMMA PairTotal ==
  ASSUME NEW values \in [1..2 -> Int]
  PROVE  TotalOf(values) = values[1] + values[2]
<1> DEFINE u == values[1]
           v == values[2]
<1>1. u \in Int /\ v \in Int OBVIOUS
<1>2. TwoRuns(values, 1, u, 1, v) BY DEF TwoRuns
<1> HIDE DEF u, v
<1>4. TotalOf(values) = 1 * u + 1 * v BY <1>2, TotalOfTwoRuns
<1>5. TotalOf(values) = u + v BY <1>1, <1>4
<1> QED BY <1>5 DEF u, v

\* What the inputs bring in: the cells and the collateral of the last input.
LEMMA InputsTotal ==
  ASSUME NEW pl, IsList(pl.cells), Len(pl.cells) >= 1, pl.padding \in Nat, pl.profile.carrierCount = 15,
         NEW c \in Int, \A k \in DOMAIN pl.cells : pl.cells[k].sats = c
  PROVE  /\ Sum(Inputs(pl), LAMBDA x : x.value) = Len(pl.cells) * c + 17
         /\ [k \in DOMAIN Inputs(pl) |-> Inputs(pl)[k].value] \in [1..InputCount(pl) -> Int]
<1> DEFINE values == [k \in DOMAIN Inputs(pl) |-> Inputs(pl)[k].value]
<1>0. PICK m \in Nat : m = Len(pl.cells) BY IsListShape
<1>1. PICK d \in Nat : d = pl.padding OBVIOUS
<1>2. m >= 1 /\ DOMAIN pl.cells = 1..m BY <1>0, IsListShape
<1>3. PICK a \in Nat : a = m - 1 BY <1>2
<1>4. InputCount(pl) = a + (d + 2) BY <1>0, <1>1, <1>3 DEF InputCount
<1>5. /\ Inputs(pl) = [k \in 1..InputCount(pl) |-> InputAt(pl, k)]
      /\ DOMAIN Inputs(pl) = 1..InputCount(pl)
  BY <1>0, <1>2, InputsByPlace
<1>6. Collateral(pl) = 17 BY DEF Collateral, CarrierValue, BoundaryValue
<1>7. \A k \in 1..(a + (d + 2)) :
         values[k] = IF k <= a THEN c ELSE IF k <= a + d THEN 0 ELSE IF k = a + d + 1 THEN c ELSE 17
  <2> SUFFICES ASSUME NEW k \in 1..(a + (d + 2))
               PROVE  values[k] = IF k <= a THEN c ELSE IF k <= a + d THEN 0 ELSE IF k = a + d + 1 THEN c ELSE 17
    OBVIOUS
  <2>1. values[k] = InputAt(pl, k).value BY <1>4, <1>5
  <2>2. CASE k <= a
    <3>1. k < m /\ k \in DOMAIN pl.cells BY <1>2, <1>3, <2>2
    <3>2. InputAt(pl, k).value = pl.cells[k].sats BY <1>0, <3>1 DEF InputAt, InCell
    <3> QED BY <2>1, <2>2, <3>1, <3>2
  <2>3. CASE ~(k <= a) /\ k <= a + d
    <3>1. ~(k < m) /\ k < m + d BY <1>3, <2>3
    <3>2. InputAt(pl, k).value = 0 BY <1>0, <1>1, <3>1 DEF InputAt, InVerifier
    <3> QED BY <2>1, <2>3, <3>2
  <2>4. CASE k = a + d + 1
    <3>1. ~(k < m) /\ ~(k < m + d) /\ k = m + d /\ m \in DOMAIN pl.cells BY <1>2, <1>3, <2>4
    <3>2. InputAt(pl, k).value = pl.cells[m].sats BY <1>0, <1>1, <3>1 DEF InputAt, InCell
    <3>3. ~(k <= a) /\ ~(k <= a + d) BY <2>4
    <3> QED BY <2>1, <2>4, <3>1, <3>2, <3>3
  <2>5. CASE k > a + d + 1
    <3>1. ~(k < m) /\ ~(k < m + d) /\ k # m + d BY <1>2, <1>3, <2>5
    <3>2. InputAt(pl, k).value = 17 BY <1>0, <1>1, <1>6, <3>1 DEF InputAt, InVerifier
    <3>3. ~(k <= a) /\ ~(k <= a + d) /\ k # a + d + 1 BY <2>5
    <3> QED BY <2>1, <3>2, <3>3
  <2> QED BY <2>2, <2>3, <2>4, <2>5
<1>8. values = [k \in 1..(a + (d + 2)) |-> values[k]] BY <1>4, <1>5
<1> HIDE DEF values
<1>9. \A k \in 1..(a + (d + 2)) : values[k] \in Int BY <1>7
<1>10. values \in [1..(a + (d + 2)) -> Int] BY <1>8, <1>9
<1>11. d + 2 \in Nat OBVIOUS
<1> DEFINE second == [k \in 1..(d + 2) |-> values[a + k]]
<1>12. TotalOf(values) = TotalOf([k \in 1..a |-> values[k]]) + TotalOf(second)
  BY <1>10, <1>11, SplitTotal
<1>13. TotalOf([k \in 1..a |-> values[k]]) = a * c
  <2>1. \A k \in 1..a : values[k] = c
    <3>1. \A k \in 1..a : k \in 1..(a + (d + 2)) /\ k <= a OBVIOUS
    <3> QED BY <1>7, <3>1
  <2>2. [k \in 1..a |-> values[k]] = [k \in 1..a |-> c] BY <2>1
  <2> QED BY <2>2, TotalOfSame
<1>14. /\ second \in [1..(d + 2) -> Int]
       /\ \A k \in 1..(d + 2) : second[k] = IF k <= d THEN 0 ELSE IF k = d + 1 THEN c ELSE 17
  <2>1. ASSUME NEW k \in 1..(d + 2) PROVE second[k] = IF k <= d THEN 0 ELSE IF k = d + 1 THEN c ELSE 17
    <3>1. a + k \in 1..(a + (d + 2)) /\ ~(a + k <= a) OBVIOUS
    <3>2. (a + k <= a + d) = (k <= d) /\ (a + k = a + d + 1) = (k = d + 1) OBVIOUS
    <3> QED BY <1>7, <3>1, <3>2
  <2> HIDE DEF second
  <2>2. \A k \in 1..(d + 2) : second[k] \in Int BY <2>1
  <2>3. second = [k \in 1..(d + 2) |-> second[k]] BY DEF second
  <2> QED BY <2>1, <2>2, <2>3
<1> HIDE DEF second
<1> DEFINE third == [k \in 1..2 |-> second[d + k]]
<1>15. 2 \in Nat OBVIOUS
<1>16. TotalOf(second) = TotalOf([k \in 1..d |-> second[k]]) + TotalOf(third) BY <1>14, <1>15, SplitTotal
<1>17. TotalOf([k \in 1..d |-> second[k]]) = 0
  <2>1. \A k \in 1..d : second[k] = 0
    <3>1. \A k \in 1..d : k \in 1..(d + 2) /\ k <= d OBVIOUS
    <3> QED BY <1>14, <3>1
  <2>2. [k \in 1..d |-> second[k]] = [k \in 1..d |-> 0] BY <2>1
  <2>3. 0 \in Int /\ d * 0 = 0 OBVIOUS
  <2>4. TotalOf([k \in 1..d |-> 0]) = d * 0 BY <2>3, TotalOfSame
  <2> QED BY <2>2, <2>3, <2>4
<1>18. TotalOf(third) = c + 17
  <2>1. second[d + 1] = c /\ second[d + 2] = 17
    <3>1. d + 1 \in 1..(d + 2) /\ ~(d + 1 <= d) /\ d + 2 \in 1..(d + 2) /\ ~(d + 2 <= d) /\ d + 2 # d + 1 OBVIOUS
    <3> QED BY <1>14, <3>1
  <2>2. third[1] = c /\ third[2] = 17 BY <2>1
  <2>3. third = [k \in 1..2 |-> third[k]] OBVIOUS
  <2> HIDE DEF third
  <2>4. \A k \in 1..2 : third[k] \in Int
    <3>1. \A k \in 1..2 : k = 1 \/ k = 2 OBVIOUS
    <3> QED BY <2>2, <3>1
  <2>5. third \in [1..2 -> Int] BY <2>3, <2>4
  <2>6. TotalOf(third) = third[1] + third[2] BY <2>5, PairTotal
  <2> QED BY <2>2, <2>6
<1>19. TotalOf(values) = a * c + (0 + (c + 17)) BY <1>12, <1>13, <1>16, <1>17, <1>18
<1>20. a * c + (0 + (c + 17)) = m * c + 17
  <2>1. m = a + 1 BY <1>3
  <2>2. (a + 1) * c = a * c + c OBVIOUS
  <2> QED BY <2>1, <2>2
<1>21. Sum(Inputs(pl), LAMBDA x : x.value) = TotalOf(values) BY DEF Sum, values
<1> QED BY <1>0, <1>4, <1>10, <1>19, <1>20, <1>21 DEF values

(***************************************************************************)
(* The outputs of a plan.                                                  *)
(***************************************************************************)

\* The outputs, in the same way.
OutCell(pl, k) ==
    [value |-> pl.newCells[k].sats, role |-> "private-backing",
     lock |-> Seal(pl.profile, Hash("sha256", pl.newCells[k].exit)), slot |-> FALSE]
OutCarrier(bin, n) == [value |-> CarrierValue, role |-> "carrier", lock |-> CarrierLock(bin, n), slot |-> FALSE]
OutFee(pl) == [value |-> pl.serviceFee, role |-> "aggregator-fee", lock |-> <<"other">>, slot |-> FALSE]
OutBoundary == [value |-> BoundaryValue, role |-> "boundary", lock |-> <<"other">>, slot |-> TRUE]
FeeOutputs(pl) == IF pl.serviceFee > 0 THEN 1 ELSE 0
OutputCount(pl) == Len(pl.newCells) + 15 + FeeOutputs(pl) + 1

OutputAt(pl, bin, k) ==
    IF k <= Len(pl.newCells) THEN OutCell(pl, k)
    ELSE IF k <= Len(pl.newCells) + 15 THEN OutCarrier(bin, k - Len(pl.newCells))
    ELSE IF k <= Len(pl.newCells) + 15 + FeeOutputs(pl) THEN OutFee(pl)
    ELSE OutBoundary

\* What Outputs joins, place by place.
LEMMA OutputsByPlace ==
  ASSUME NEW pl, IsList(pl.newCells), pl.profile.carrierCount = 15, NEW bin
  PROVE  /\ Outputs(pl, bin) = [k \in 1..OutputCount(pl) |-> OutputAt(pl, bin, k)]
         /\ IsList(Outputs(pl, bin)) /\ Len(Outputs(pl, bin)) = OutputCount(pl)
         /\ DOMAIN Outputs(pl, bin) = 1..OutputCount(pl)
<1>0. PICK n \in Nat : n = Len(pl.newCells) /\ DOMAIN pl.newCells = 1..n BY IsListShape
<1>1. PICK f \in Nat : f = FeeOutputs(pl) /\ f \in {0, 1} BY DEF FeeOutputs
<1> DEFINE A == [k \in 1..n |-> OutCell(pl, k)]
           B == [k \in 1..15 |-> OutCarrier(bin, k)]
           C == IF pl.serviceFee > 0 THEN << OutFee(pl) >> ELSE <<>>
           D == << OutBoundary >>
           AB == A \o B
           ABC == AB \o C
           E == ABC \o D
<1>2. Outputs(pl, bin) = E BY <1>0 DEF Outputs, OutCell, OutCarrier, OutFee, OutBoundary
<1>3. IsList(A) /\ Len(A) = n
  <2>1. A = [k \in 1..n |-> A[k]] OBVIOUS
  <2> HIDE DEF A
  <2> QED BY <2>1, IntervalIsList
<1>4. IsList(B) /\ Len(B) = 15
  <2>1. B = [k \in 1..15 |-> B[k]] /\ 15 \in Nat OBVIOUS
  <2> HIDE DEF B
  <2> QED BY <2>1, IntervalIsList
<1>5. IsList(C) /\ Len(C) = f /\ \A k \in 1..f : C[k] = OutFee(pl)
  <2>1. CASE pl.serviceFee > 0
    <3>1. f = 1 BY <1>1, <2>1 DEF FeeOutputs
    <3>2. C = [k \in 1..1 |-> C[k]] /\ C[1] = OutFee(pl) BY <2>1
    <3> HIDE DEF C
    <3>3. IsList(C) /\ Len(C) = 1 BY <3>2, IntervalIsList
    <3>4. \A k \in 1..1 : k = 1 OBVIOUS
    <3> QED BY <3>1, <3>2, <3>3, <3>4
  <2>2. CASE ~(pl.serviceFee > 0)
    <3>1. f = 0 BY <1>1, <2>2 DEF FeeOutputs
    <3>2. C = <<>> BY <2>2
    <3>3. \A k \in 1..0 : FALSE OBVIOUS
    <3> HIDE DEF C
    <3> QED BY <3>1, <3>2, <3>3, NoItemsIsList
  <2> QED BY <2>1, <2>2
<1>6. IsList(D) /\ Len(D) = 1 /\ D[1] = OutBoundary
  <2>1. D = [k \in 1..1 |-> D[k]] /\ D[1] = OutBoundary OBVIOUS
  <2> HIDE DEF D
  <2> QED BY <2>1, IntervalIsList
<1>7. (\A k \in 1..n : A[k] = OutCell(pl, k)) /\ (\A k \in 1..15 : B[k] = OutCarrier(bin, k)) OBVIOUS
<1> HIDE DEF A, B, C, D
<1>8. /\ IsList(AB) /\ Len(AB) = n + 15
      /\ \A k \in 1..(n + 15) : AB[k] = IF k <= n THEN A[k] ELSE B[k - n]
  <2>1. /\ IsList(A \o B) /\ Len(A \o B) = Len(A) + Len(B)
        /\ \A k \in 1..(Len(A) + Len(B)) : (A \o B)[k] = IF k <= Len(A) THEN A[k] ELSE B[k - Len(A)]
    BY <1>3, <1>4, JoinedLists
  <2> QED BY <1>3, <1>4, <2>1
<1> HIDE DEF AB
<1>9. /\ IsList(ABC) /\ Len(ABC) = n + 15 + f
      /\ \A k \in 1..(n + 15 + f) : ABC[k] = IF k <= n + 15 THEN AB[k] ELSE C[k - (n + 15)]
  <2> DEFINE l == n + 15
  <2>1. IsList(AB) /\ Len(AB) = l BY <1>8
  <2> HIDE DEF l
  <2>2. /\ IsList(ABC) /\ Len(ABC) = l + f
        /\ \A k \in 1..(l + f) : ABC[k] = IF k <= l THEN AB[k] ELSE C[k - l]
    BY <1>5, <2>1, JoinedLists
  <2> QED BY <2>2 DEF l
<1> HIDE DEF ABC
<1>10. /\ IsList(E) /\ Len(E) = n + 15 + f + 1 /\ DOMAIN E = 1..(n + 15 + f + 1)
       /\ \A k \in 1..(n + 15 + f + 1) : E[k] = IF k <= n + 15 + f THEN ABC[k] ELSE D[k - (n + 15 + f)]
  <2> DEFINE l == n + 15 + f
  <2>1. IsList(ABC) /\ Len(ABC) = l BY <1>9
  <2> HIDE DEF l
  <2>2. /\ IsList(E) /\ Len(E) = l + 1 /\ DOMAIN E = 1..(l + 1)
        /\ \A k \in 1..(l + 1) : E[k] = IF k <= l THEN ABC[k] ELSE D[k - l]
    <3>1. /\ IsList(ABC \o D) /\ Len(ABC \o D) = Len(ABC) + Len(D)
          /\ DOMAIN (ABC \o D) = 1..(Len(ABC) + Len(D))
          /\ \A k \in 1..(Len(ABC) + Len(D)) :
                (ABC \o D)[k] = IF k <= Len(ABC) THEN ABC[k] ELSE D[k - Len(ABC)]
      BY <1>6, <2>1, JoinedLists
    <3> QED BY <1>6, <2>1, <3>1
  <2> QED BY <2>2 DEF l
<1> HIDE DEF E
<1>11. OutputCount(pl) = n + 15 + f + 1 BY <1>0, <1>1 DEF OutputCount
<1>12. ASSUME NEW k \in 1..(n + 15 + f + 1) PROVE E[k] = OutputAt(pl, bin, k)
  <2>1. CASE k <= n
    <3>1. k \in 1..n /\ k <= n + 15 /\ k \in 1..(n + 15) /\ k <= n + 15 + f /\ k \in 1..(n + 15 + f) BY <2>1
    <3>2. E[k] = OutCell(pl, k) BY <1>7, <1>8, <1>9, <1>10, <2>1, <3>1
    <3> QED BY <1>0, <2>1, <3>2 DEF OutputAt
  <2>2. CASE ~(k <= n) /\ k <= n + 15
    <3>1. k - n \in 1..15 /\ k \in 1..(n + 15) /\ k <= n + 15 + f /\ k \in 1..(n + 15 + f) BY <2>2
    <3>2. E[k] = OutCarrier(bin, k - n) BY <1>7, <1>8, <1>9, <1>10, <2>2, <3>1
    <3> QED BY <1>0, <2>2, <3>2 DEF OutputAt
  <2>3. CASE ~(k <= n + 15) /\ k <= n + 15 + f
    <3>1. k - (n + 15) \in 1..f /\ ~(k <= n) /\ k \in 1..(n + 15 + f) BY <2>3
    <3>2. E[k] = OutFee(pl) BY <1>5, <1>9, <1>10, <2>3, <3>1
    <3> QED BY <1>0, <1>1, <2>3, <3>1, <3>2 DEF OutputAt
  <2>4. CASE ~(k <= n + 15 + f)
    <3>1. k - (n + 15 + f) = 1 /\ ~(k <= n) /\ ~(k <= n + 15) BY <2>4
    <3>2. E[k] = OutBoundary BY <1>6, <1>10, <2>4, <3>1
    <3> QED BY <1>0, <1>1, <2>4, <3>1, <3>2 DEF OutputAt
  <2> QED BY <2>1, <2>2, <2>3, <2>4
<1>13. E = [k \in 1..(n + 15 + f + 1) |-> E[k]]
  <2>1. E = [k \in 1..Len(E) |-> E[k]] BY <1>10, IsListShape
  <2> QED BY <1>10, <2>1
<1>14. E = [k \in 1..OutputCount(pl) |-> OutputAt(pl, bin, k)] BY <1>11, <1>12, <1>13
<1> QED BY <1>2, <1>10, <1>11, <1>14

\* What the outputs take out: the new cells, the carriers and the boundary, and the service fee.
LEMMA OutputsTotal ==
  ASSUME NEW pl, IsList(pl.newCells), pl.profile.carrierCount = 15, NEW bin, pl.serviceFee \in Nat,
         NEW c \in Int, \A k \in DOMAIN pl.newCells : pl.newCells[k].sats = c
  PROVE  /\ Sum(Outputs(pl, bin), LAMBDA x : x.value) = Len(pl.newCells) * c + 17 + pl.serviceFee
         /\ [k \in DOMAIN Outputs(pl, bin) |-> Outputs(pl, bin)[k].value] \in [1..OutputCount(pl) -> Int]
<1> DEFINE values == [k \in DOMAIN Outputs(pl, bin) |-> Outputs(pl, bin)[k].value]
<1>0. PICK n \in Nat : n = Len(pl.newCells) /\ DOMAIN pl.newCells = 1..n BY IsListShape
<1>1. PICK s \in Nat : s = pl.serviceFee OBVIOUS
<1>2. PICK f \in Nat : f = FeeOutputs(pl) /\ f = IF s > 0 THEN 1 ELSE 0 BY <1>1 DEF FeeOutputs
<1>3. /\ Outputs(pl, bin) = [k \in 1..OutputCount(pl) |-> OutputAt(pl, bin, k)]
      /\ DOMAIN Outputs(pl, bin) = 1..OutputCount(pl)
  BY OutputsByPlace
<1>4. OutputCount(pl) = n + (15 + (f + 1))
  <2>1. OutputCount(pl) = n + 15 + f + 1 BY <1>0, <1>2 DEF OutputCount
  <2> QED BY <2>1
<1>5. \A k \in 1..(n + (15 + (f + 1))) :
         values[k] = IF k <= n THEN c ELSE IF k <= n + 15 THEN 1 ELSE IF k <= n + 15 + f THEN s ELSE 2
  <2> SUFFICES ASSUME NEW k \in 1..(n + (15 + (f + 1)))
               PROVE  values[k] = IF k <= n THEN c ELSE IF k <= n + 15 THEN 1
                                  ELSE IF k <= n + 15 + f THEN s ELSE 2
    OBVIOUS
  <2>1. values[k] = OutputAt(pl, bin, k).value BY <1>3, <1>4
  <2>2. k <= n => k \in 1..n OBVIOUS
  <2>3. OutputAt(pl, bin, k).value = IF k <= n THEN pl.newCells[k].sats ELSE IF k <= n + 15 THEN 1
                                     ELSE IF k <= n + 15 + f THEN s ELSE 2
    BY <1>0, <1>1, <1>2 DEF OutputAt, OutCell, OutCarrier, OutFee, OutBoundary, CarrierValue, BoundaryValue
  <2> QED BY <1>0, <2>1, <2>2, <2>3
<1>6. values = [k \in 1..(n + (15 + (f + 1))) |-> values[k]] BY <1>3, <1>4
<1> HIDE DEF values
<1>7. values \in [1..(n + (15 + (f + 1))) -> Int]
  <2>1. \A k \in 1..(n + (15 + (f + 1))) : values[k] \in Int BY <1>5
  <2> QED BY <1>6, <2>1
<1>8. 15 + (f + 1) \in Nat /\ f + 1 \in Nat /\ 15 \in Nat /\ 1 \in Nat OBVIOUS
<1> DEFINE second == [k \in 1..(15 + (f + 1)) |-> values[n + k]]
<1>9. TotalOf(values) = TotalOf([k \in 1..n |-> values[k]]) + TotalOf(second) BY <1>7, <1>8, SplitTotal
<1>10. TotalOf([k \in 1..n |-> values[k]]) = n * c
  <2>1. \A k \in 1..n : values[k] = c
    <3>1. \A k \in 1..n : k \in 1..(n + (15 + (f + 1))) /\ k <= n OBVIOUS
    <3> QED BY <1>5, <3>1
  <2>2. [k \in 1..n |-> values[k]] = [k \in 1..n |-> c] BY <2>1
  <2> QED BY <2>2, TotalOfSame
<1>11. /\ second \in [1..(15 + (f + 1)) -> Int]
       /\ \A k \in 1..(15 + (f + 1)) : second[k] = IF k <= 15 THEN 1 ELSE IF k <= 15 + f THEN s ELSE 2
  <2>1. ASSUME NEW k \in 1..(15 + (f + 1))
        PROVE  second[k] = IF k <= 15 THEN 1 ELSE IF k <= 15 + f THEN s ELSE 2
    <3>1. n + k \in 1..(n + (15 + (f + 1))) /\ ~(n + k <= n) OBVIOUS
    <3>2. (n + k <= n + 15) = (k <= 15) /\ (n + k <= n + 15 + f) = (k <= 15 + f) OBVIOUS
    <3> QED BY <1>5, <3>1, <3>2
  <2>2. second = [k \in 1..(15 + (f + 1)) |-> second[k]] OBVIOUS
  <2> HIDE DEF second
  <2>3. \A k \in 1..(15 + (f + 1)) : second[k] \in Int BY <2>1
  <2> QED BY <2>1, <2>2, <2>3
<1> HIDE DEF second
<1> DEFINE third == [k \in 1..(f + 1) |-> second[15 + k]]
<1>12. TotalOf(second) = TotalOf([k \in 1..15 |-> second[k]]) + TotalOf(third) BY <1>8, <1>11, SplitTotal
<1>13. TotalOf([k \in 1..15 |-> second[k]]) = 15
  <2>1. \A k \in 1..15 : second[k] = 1
    <3>1. \A k \in 1..15 : k \in 1..(15 + (f + 1)) /\ k <= 15 OBVIOUS
    <3> QED BY <1>11, <3>1
  <2>2. [k \in 1..15 |-> second[k]] = [k \in 1..15 |-> 1] BY <2>1
  <2>3. 15 \in Nat /\ 1 \in Int /\ 15 * 1 = 15 OBVIOUS
  <2>4. TotalOf([k \in 1..15 |-> 1]) = 15 * 1 BY <2>3, TotalOfSame
  <2> QED BY <2>2, <2>3, <2>4
<1>14. /\ third \in [1..(f + 1) -> Int]
       /\ \A k \in 1..(f + 1) : third[k] = IF k <= f THEN s ELSE 2
  <2>1. ASSUME NEW k \in 1..(f + 1) PROVE third[k] = IF k <= f THEN s ELSE 2
    <3>1. 15 + k \in 1..(15 + (f + 1)) /\ ~(15 + k <= 15) /\ (15 + k <= 15 + f) = (k <= f) OBVIOUS
    <3> QED BY <1>11, <3>1
  <2>2. third = [k \in 1..(f + 1) |-> third[k]] OBVIOUS
  <2> HIDE DEF third
  <2>3. \A k \in 1..(f + 1) : third[k] \in Int BY <2>1
  <2> QED BY <2>1, <2>2, <2>3
<1> HIDE DEF third
<1>15. TotalOf(third) = f * s + 1 * 2
  <2>1. TwoRuns(third, f, s, 1, 2) BY <1>14 DEF TwoRuns
  <2> QED BY <2>1, TotalOfTwoRuns
<1>16. f * s = s
  <2>1. CASE s > 0 BY <1>2, <2>1
  <2>2. CASE ~(s > 0)
    <3>1. s = 0 /\ f = 0 BY <1>2, <2>2
    <3> QED BY <3>1
  <2> QED BY <2>1, <2>2
<1>17. TotalOf(values) = n * c + (15 + (s + 2)) BY <1>9, <1>10, <1>12, <1>13, <1>15, <1>16
<1>18. n * c + (15 + (s + 2)) = n * c + 17 + s
  <2>1. n * c \in Int OBVIOUS
  <2> QED BY <2>1
<1>19. Sum(Outputs(pl, bin), LAMBDA x : x.value) = TotalOf(values) BY DEF Sum, values
<1> QED BY <1>0, <1>1, <1>4, <1>7, <1>17, <1>18, <1>19 DEF values

(***************************************************************************)
(* Honest plans.                                                           *)
(***************************************************************************)

\* Every cell of a list is the profile's and belongs to one of two notes.
UniformCells(cells, c) ==
    /\ IsList(cells)
    /\ \A k \in DOMAIN cells : cells[k].note \in 1..2 /\ cells[k].sats = c /\ cells[k].value = c
\* Every note is worth the cells it owns.
NotesBacked(notes, cells, c) ==
    \A n \in 1..2 : CellsOfNote(cells, n) # <<>> /\ notes[n].value = Len(CellsOfNote(cells, n)) * c

\* What PlanHonest and the shape of a plan come to.
HonestPlan(pl) ==
    LET p == pl.profile
    IN  /\ ProfileParses(p) /\ p.minConsumedNotes = 2
        /\ pl.padding \in Nat
        /\ UniformCells(pl.cells, p.cellValue) /\ UniformCells(pl.newCells, p.cellValue)
        /\ Len(pl.cells) >= p.minConsumedCells
        /\ Len(pl.newCells) \in p.minCreatedCells..p.maxCreatedCells
        /\ NotesBacked(pl.notes, pl.cells, p.cellValue) /\ NotesBacked(pl.newNotes, pl.newCells, p.cellValue)
        /\ pl.networkFee \in Int /\ pl.networkFee > 0
        /\ pl.serviceFee = 2 * p.flatFee
        /\ pl.notes[1].value + pl.notes[2].value
             = pl.newNotes[1].value + pl.newNotes[2].value + pl.networkFee + pl.serviceFee
        /\ ~Overflows(Worth(Inputs(pl)))
        /\ \A n \in 1..2 : KeyParses(pl.notes[n].key)
        /\ \A k \in DOMAIN pl.newCells : KeyParses(pl.newCells[k].exit)
        /\ Distinct([k \in DOMAIN pl.newCells |-> pl.newCells[k].exit])
        /\ pl.newNotes[1].kem # pl.newNotes[2].kem
        /\ InputIndex(pl, Len(pl.cells)) < 256

\* The first n numbers, and a filter of them: the picked ones, ascending.
Numbers(n) == [k \in 1..n |-> k]
Ascending(kept, picked) ==
    /\ kept \in Seq(picked) /\ Len(kept) = Cardinality(picked)
    /\ \A k \in picked : \E j \in 1..Len(kept) : kept[j] = k
    /\ \A i, j \in 1..Len(kept) : i < j => kept[i] < kept[j]

\* A filter of ascending numbers is ascending.
LEMMA KeptNumbersAscend ==
  ASSUME NEW n \in Nat, NEW picked \in SUBSET (1..n)
  PROVE  Ascending(Kept(Numbers(n), picked), picked)
<1>1. ASSUME NEW numbers, numbers = [k \in 1..n |-> k]
      PROVE  Ascending(Kept(numbers, picked), picked)
  BY <1>1, KeptNumbers DEF Ascending
<1>2. Numbers(n) = [k \in 1..n |-> k] BY DEF Numbers
<1> QED BY <1>1, <1>2

\* The cells of a note, by their places.
LEMMA OwnCells ==
  ASSUME NEW cells, IsList(cells), NEW n
  PROVE  LET own == CellsOfNote(cells, n)
         IN  /\ IsList(own) /\ Len(own) \in Nat /\ DOMAIN own = 1..Len(own)
             /\ Len(own) = Cardinality({k \in 1..Len(cells) : cells[k].note = n})
             /\ \A j \in 1..Len(own) : own[j] \in 1..Len(cells) /\ cells[own[j]].note = n
             /\ \A i, j \in 1..Len(own) : i < j => own[i] < own[j]
             /\ \A k \in 1..Len(cells) : cells[k].note = n => \E j \in 1..Len(own) : own[j] = k
<1> DEFINE own == CellsOfNote(cells, n)
           numbers == [k \in DOMAIN cells |-> k]
           picked == {k \in DOMAIN cells : cells[k].note = n}
<1>1. PICK m \in Nat : m = Len(cells) /\ DOMAIN cells = 1..m BY IsListShape
<1>2. own = Kept(numbers, picked) BY DEF CellsOfNote
<1>3. numbers = [k \in 1..m |-> k] /\ picked \in SUBSET (1..m) BY <1>1
<1>4. picked = {k \in 1..m : cells[k].note = n} BY <1>1
<1>5. own = Kept(Numbers(m), picked) BY <1>2, <1>3 DEF Numbers
<1> HIDE DEF numbers, picked, own
<1>6. /\ own \in Seq(picked) /\ Len(own) = Cardinality(picked)
      /\ \A k \in picked : \E j \in 1..Len(own) : own[j] = k
      /\ \A i, j \in 1..Len(own) : i < j => own[i] < own[j]
  <2>1. Ascending(own, picked) BY <1>3, <1>5, KeptNumbersAscend
  <2> QED BY <2>1 DEF Ascending
<1>7. /\ Len(own) \in Nat /\ DOMAIN own = 1..Len(own) /\ \A j \in 1..Len(own) : own[j] \in picked
  BY <1>6, ListShape
<1>8. IsList(own) BY <1>6, ListOfListIsList
<1>9. \A j \in 1..Len(own) : own[j] \in 1..m /\ cells[own[j]].note = n BY <1>4, <1>7
<1>10. \A k \in 1..m : cells[k].note = n => \E j \in 1..Len(own) : own[j] = k BY <1>4, <1>6
<1> QED BY <1>1, <1>4, <1>6, <1>7, <1>8, <1>9, <1>10 DEF own

\* Notes worth their cells share out the cells of their side.
LEMMA NotesTotal ==
  ASSUME NEW cells, NEW notes, NEW c \in Nat, UniformCells(cells, c), NotesBacked(notes, cells, c)
  PROVE  /\ notes[1].value \in Nat /\ notes[2].value \in Nat
         /\ notes[1].value + notes[2].value = Len(cells) * c
<1> DEFINE values == [n \in 1..2 |-> notes[n].value]
           owner == [k \in 1..Len(cells) |-> cells[k].note]
<1>1. PICK m \in Nat : m = Len(cells) /\ DOMAIN cells = 1..m BY IsListShape DEF UniformCells
<1>2. ASSUME NEW n \in 1..2
      PROVE  /\ values[n] = Cardinality({k \in 1..m : owner[k] = n}) * c
             /\ values[n] \in Nat
  <2>1. {k \in 1..m : owner[k] = n} = {k \in 1..m : cells[k].note = n} BY <1>1
  <2>2. Len(CellsOfNote(cells, n)) \in Nat
        /\ Len(CellsOfNote(cells, n)) = Cardinality({k \in 1..m : cells[k].note = n})
    BY <1>1, OwnCells DEF UniformCells
  <2>3. notes[n].value = Len(CellsOfNote(cells, n)) * c BY DEF NotesBacked
  <2>4. Len(CellsOfNote(cells, n)) * c \in Nat BY <2>2
  <2> QED BY <2>1, <2>2, <2>3, <2>4
<1>3. values = [n \in 1..2 |-> values[n]] OBVIOUS
<1>4. owner \in [1..m -> 1..2]
  <2>1. \A k \in 1..m : cells[k].note \in 1..2 BY <1>1 DEF UniformCells
  <2> QED BY <1>1, <2>1
<1>5. values[1] = notes[1].value /\ values[2] = notes[2].value OBVIOUS
<1> HIDE DEF values, owner
<1>6. values \in [1..2 -> Int] BY <1>2, <1>3
<1>7. values \in Seq(Int) /\ Len(values) = 2
  <2>1. 2 \in Nat OBVIOUS
  <2> QED BY <1>6, <2>1, FunctionIsListOf
<1>8. TotalOf(values) = m * c
  <2>1. owner \in [1..m -> 1..Len(values)] BY <1>4, <1>7
  <2>2. \A j \in 1..Len(values) : values[j] = Cardinality({k \in 1..m : owner[k] = j}) * c BY <1>2, <1>7
  <2>3. ASSUME NEW vs \in Seq(Int), NEW o \in [1..m -> 1..Len(vs)],
               \A j \in 1..Len(vs) : vs[j] = Cardinality({k \in 1..m : o[k] = j}) * c
        PROVE  TotalOf(vs) = m * c
    <3>1. c \in Int OBVIOUS
    <3> QED BY <2>3, <3>1, SharedTotal
  <2> QED BY <1>7, <2>1, <2>2, <2>3
<1>9. TotalOf(values) = values[1] + values[2] BY <1>6, PairTotal
<1> QED BY <1>1, <1>2, <1>5, <1>8, <1>9

\* The numbers of an honest plan.
LEMMA HonestNumbers ==
  ASSUME NEW pl, HonestPlan(pl)
  PROVE  LET m == Len(pl.cells)
             n == Len(pl.newCells)
             c == pl.profile.cellValue
         IN  /\ m \in Nat /\ DOMAIN pl.cells = 1..m /\ n \in Nat /\ DOMAIN pl.newCells = 1..n
             /\ IsList(pl.cells) /\ IsList(pl.newCells)
             /\ m >= 5 /\ n \in 5..8 /\ c \in 1..MaxMoney /\ c \in Nat
             /\ pl.networkFee \in Nat /\ pl.networkFee > 0
             /\ pl.serviceFee \in Nat
             /\ IF pl.profile.flat THEN pl.serviceFee > 0 ELSE pl.serviceFee = 0
             /\ m * c = n * c + pl.networkFee + pl.serviceFee
             /\ m * c + 17 <= MaxMoney
             /\ m * c \in Nat /\ n * c \in Nat
<1> DEFINE p == pl.profile
           m == Len(pl.cells)
           n == Len(pl.newCells)
           c == p.cellValue
<1>1. ProfileParses(p) /\ p.minConsumedNotes = 2 BY DEF HonestPlan
<1>2. MaxMoney \in Nat BY MaxMoneyAssumption
<1>3. c \in 1..MaxMoney /\ c \in Nat /\ p.flatFee \in Nat /\ p.carrierCount = 15 BY <1>1, <1>2 DEF ProfileParses
<1>4. IF p.flat THEN p.flatFee > 0 ELSE p.flatFee = 0 BY <1>1 DEF ProfileParses
<1>5. p.minConsumedCells \in Nat /\ p.minConsumedCells >= 5 /\ p.minCreatedCells \in Nat /\ p.minCreatedCells >= 5
      /\ p.maxCreatedCells = 8
  BY <1>1 DEF ProfileParses, ConsumedFloor, CreatedFloor
<1>6. /\ IsList(pl.cells) /\ IsList(pl.newCells)
      /\ m \in Nat /\ DOMAIN pl.cells = 1..m /\ n \in Nat /\ DOMAIN pl.newCells = 1..n
  BY IsListShape DEF HonestPlan, UniformCells
<1>7. m >= 5 /\ n \in 5..8
  <2>1. m >= p.minConsumedCells /\ n \in p.minCreatedCells..p.maxCreatedCells BY DEF HonestPlan
  <2>2. PICK low \in Nat : low = p.minCreatedCells /\ low >= 5 BY <1>5
  <2>3. PICK k \in Nat : k = n BY <1>6
  <2>4. k \in low..8 BY <1>5, <2>1, <2>2, <2>3
  <2>5. k \in 5..8 BY <2>2, <2>4
  <2>6. m >= 5
    <3>1. PICK a \in Nat : a = p.minConsumedCells /\ a >= 5 BY <1>5
    <3> QED BY <1>6, <2>1, <3>1
  <2> QED BY <2>3, <2>5, <2>6
<1>8. pl.networkFee \in Nat /\ pl.networkFee > 0 /\ pl.serviceFee = 2 * p.flatFee
  BY DEF HonestPlan
<1>9. pl.serviceFee \in Nat /\ IF p.flat THEN pl.serviceFee > 0 ELSE pl.serviceFee = 0
  BY <1>3, <1>4, <1>8
<1>10. UniformCells(pl.cells, c) /\ UniformCells(pl.newCells, c)
       /\ NotesBacked(pl.notes, pl.cells, c) /\ NotesBacked(pl.newNotes, pl.newCells, c)
  BY DEF HonestPlan
<1>11. /\ pl.notes[1].value + pl.notes[2].value = m * c
       /\ pl.newNotes[1].value \in Nat /\ pl.newNotes[2].value \in Nat
       /\ pl.newNotes[1].value + pl.newNotes[2].value = n * c
  BY <1>3, <1>10, NotesTotal
<1>12. pl.notes[1].value + pl.notes[2].value
         = pl.newNotes[1].value + pl.newNotes[2].value + pl.networkFee + pl.serviceFee
  BY DEF HonestPlan
<1>13. m * c = n * c + pl.networkFee + pl.serviceFee BY <1>11, <1>12
<1>14. m * c \in Nat /\ n * c \in Nat BY <1>3, <1>6
<1>15. Worth(Inputs(pl)) = m * c + 17
  <2>1. \A k \in DOMAIN pl.cells : pl.cells[k].sats = c BY <1>10 DEF UniformCells
  <2>2. m >= 1 /\ pl.padding \in Nat /\ c \in Int BY <1>3, <1>6, <1>7 DEF HonestPlan
  <2>3. Sum(Inputs(pl), LAMBDA x : x.value) = m * c + 17 BY <1>3, <1>6, <2>1, <2>2, InputsTotal
  <2> QED BY <2>3 DEF Worth
<1>16. m * c + 17 <= MaxMoney
  <2>1. ~(m * c + 17 > MaxMoney) BY <1>15 DEF HonestPlan, Overflows
  <2> QED BY <1>2, <1>14, <2>1
<1> QED BY <1>3, <1>6, <1>7, <1>8, <1>9, <1>13, <1>14, <1>16

(***************************************************************************)
(* The honest batch of a plan, field by field.                             *)
(***************************************************************************)

\* Names for what Parts makes of a plan, note by note.
Scope(pl) == CreationScope(Skeleton(pl))
NewOnes(pl) == NewOpenings(pl, Scope(pl))
OldBundle(pl, n) == MakeBundle(PriorScope(pl, n), Own(pl.cells, OldOpenings(pl), n))
NewBundle(pl, n) == MakeBundle(Scope(pl), Own(pl.newCells, NewOnes(pl), n))
OldNote(pl, n) == MakeNote(pl.notes[n].value, pl.notes[n].key, OldBundle(pl, n), <<pl.tag, n>>)
NewNote(pl, n) == MakeNote(pl.newNotes[n].value, pl.newNotes[n].key, NewBundle(pl, n), <<pl.tag, 10 + n>>)
OldId(pl, n) == NoteCommitment(OldNote(pl, n))
NewId(pl, n) == NoteCommitment(NewNote(pl, n))
Seed(pl, n) == <<pl.tag, 20 + n>>
PlanPacket(pl, n) ==
    Packet(Plaintext(n - 1, NewId(pl, n), Scope(pl), NewNote(pl, n), NewBundle(pl, n)),
           Descriptor(pl, n), Seed(pl, n))
PlanNullifier(pl, n) == Nullifier(pl.notes[n].key, OldId(pl, n), OldNote(pl, n).bundle)
Packets(pl) == <<PlanPacket(pl, 1), PlanPacket(pl, 2)>>
Bin(pl) == PacketBin(Packets(pl))

\* Parts is made of them.
LEMMA PartsOfPlan ==
  ASSUME NEW pl
  PROVE  LET parts == Parts(pl)
         IN  /\ parts.skeleton = Skeleton(pl) /\ parts.scope = Scope(pl)
             /\ parts.old = OldOpenings(pl) /\ parts.new = NewOnes(pl)
             /\ parts.bundles = <<OldBundle(pl, 1), OldBundle(pl, 2)>>
             /\ parts.newBundles = <<NewBundle(pl, 1), NewBundle(pl, 2)>>
             /\ parts.notes = <<OldNote(pl, 1), OldNote(pl, 2)>>
             /\ parts.newNotes = <<NewNote(pl, 1), NewNote(pl, 2)>>
             /\ parts.ids = <<OldId(pl, 1), OldId(pl, 2)>>
             /\ parts.newIds = <<NewId(pl, 1), NewId(pl, 2)>>
             /\ parts.descriptors = <<Descriptor(pl, 1), Descriptor(pl, 2)>>
             /\ parts.seeds = <<Seed(pl, 1), Seed(pl, 2)>>
             /\ parts.packets = Packets(pl)
             /\ parts.nullifiers = <<PlanNullifier(pl, 1), PlanNullifier(pl, 2)>>
<1> USE DEF Parts, Both, Scope, NewOnes
<1>1. LET parts == Parts(pl)
      IN  /\ parts.skeleton = Skeleton(pl) /\ parts.scope = Scope(pl)
          /\ parts.old = OldOpenings(pl) /\ parts.new = NewOnes(pl)
  OBVIOUS
<1>2. LET parts == Parts(pl)
      IN  /\ parts.bundles = <<OldBundle(pl, 1), OldBundle(pl, 2)>>
          /\ parts.newBundles = <<NewBundle(pl, 1), NewBundle(pl, 2)>>
  BY DEF OldBundle, NewBundle
<1>3. LET parts == Parts(pl)
      IN  /\ parts.notes = <<OldNote(pl, 1), OldNote(pl, 2)>>
          /\ parts.newNotes = <<NewNote(pl, 1), NewNote(pl, 2)>>
  BY DEF OldBundle, NewBundle, OldNote, NewNote
<1>4. LET parts == Parts(pl)
      IN  /\ parts.ids = <<OldId(pl, 1), OldId(pl, 2)>>
          /\ parts.newIds = <<NewId(pl, 1), NewId(pl, 2)>>
  BY DEF OldBundle, NewBundle, OldNote, NewNote, OldId, NewId
<1>5. LET parts == Parts(pl)
      IN  /\ parts.descriptors = <<Descriptor(pl, 1), Descriptor(pl, 2)>>
          /\ parts.seeds = <<Seed(pl, 1), Seed(pl, 2)>>
  BY DEF Seed
<1>6. Parts(pl).packets = Packets(pl)
  BY DEF OldBundle, NewBundle, OldNote, NewNote, OldId, NewId, Seed, PlanPacket, Packets
<1>7. Parts(pl).nullifiers = <<PlanNullifier(pl, 1), PlanNullifier(pl, 2)>>
  BY DEF OldBundle, NewBundle, OldNote, NewNote, OldId, NewId, PlanNullifier
<1> HIDE DEF Parts, Both, Scope, NewOnes
<1> QED BY <1>1, <1>2, <1>3, <1>4, <1>5, <1>6, <1>7

(***************************************************************************)
(* The statement and the material of the plan's batch.                     *)
(***************************************************************************)

\* The statement of a plan, and the commitment to it.
Public(pl) == Statement(pl, Parts(pl), Outputs(pl, Bin(pl)))
Com(pl) == StatementCommitment(Public(pl))

LEMMA PairIsList ==
  ASSUME NEW a, NEW b
  PROVE  /\ IsList(<<a, b>>) /\ Len(<<a, b>>) = 2 /\ DOMAIN <<a, b>> = 1..2
         /\ <<a, b>>[1] = a /\ <<a, b>>[2] = b
<1> DEFINE t == <<a, b>>
<1>1. t = [k \in 1..2 |-> t[k]] /\ t[1] = a /\ t[2] = b OBVIOUS
<1> HIDE DEF t
<1>2. 2 \in Nat OBVIOUS
<1>3. IsList(t) /\ Len(t) = 2 /\ DOMAIN t = 1..2 BY <1>1, <1>2, IntervalIsList
<1> QED BY <1>1, <1>3 DEF t

\* A list of two items, told by an operator of the item's number.
LEMMA SkeletonOfPlan ==
  ASSUME NEW pl
  PROVE  LET sk == Skeleton(pl)
         IN  /\ sk.network = "regtest" /\ sk.mode = "private-transition" /\ sk.profile = ProfileId(pl.profile)
             /\ sk.relation = pl.profile.relation /\ sk.program = "program"
             /\ sk.verifier = Len(pl.cells) + pl.padding
             /\ sk.inputs = Inputs(pl) /\ sk.outputs = Outputs(pl, Absent)
             /\ sk.createdCells = [k \in DOMAIN pl.newCells |->
                                      [index |-> k - 1, profile |-> LockingProfile(pl.profile)]]
             /\ sk.nonce = BatchNonce(sk)
<1> DEFINE bare == [network |-> "regtest", mode |-> "private-transition", profile |-> ProfileId(pl.profile),
                    relation |-> pl.profile.relation, program |-> "program",
                    verifier |-> Len(pl.cells) + pl.padding, inputs |-> Inputs(pl), outputs |-> Outputs(pl, Absent),
                    createdCells |-> [k \in DOMAIN pl.newCells |->
                                         [index |-> k - 1, profile |-> LockingProfile(pl.profile)]],
                    nonce |-> Absent]
           sk == Skeleton(pl)
<1>1. sk = [bare EXCEPT !.nonce = BatchNonce(bare)] BY DEF Skeleton
<1>2. /\ sk.network = bare.network /\ sk.mode = bare.mode /\ sk.profile = bare.profile
      /\ sk.relation = bare.relation /\ sk.program = bare.program /\ sk.verifier = bare.verifier
      /\ sk.inputs = bare.inputs /\ sk.outputs = bare.outputs /\ sk.createdCells = bare.createdCells
      /\ sk.nonce = BatchNonce(bare)
  BY <1>1
<1>3. BatchNonce(bare) = BatchNonce(sk)
  <2> HIDE DEF bare, sk
  <2> QED BY <1>2 DEF BatchNonce
<1> QED BY <1>2, <1>3

\* The fields of the statement.
LEMMA PublicOfPlan ==
  ASSUME NEW pl
  PROVE  LET st == Public(pl)
         IN  /\ st.network = "regtest" /\ st.mode = "private-transition" /\ st.profile = ProfileId(pl.profile)
             /\ st.relation = pl.profile.relation /\ st.program = "program"
             /\ st.verifier = Len(pl.cells) + pl.padding
             /\ st.nonce = Skeleton(pl).nonce /\ st.scope = Scope(pl)
             /\ st.inputs = Inputs(pl) /\ st.outputs = Outputs(pl, Bin(pl))
             /\ st.consumed = << [note |-> OldId(pl, 1), nullifier |-> PlanNullifier(pl, 1)],
                                 [note |-> OldId(pl, 2), nullifier |-> PlanNullifier(pl, 2)] >>
             /\ st.created =
                  << [note |-> NewId(pl, 1), packet |-> 0, hash |-> PacketHash(PlanPacket(pl, 1))],
                     [note |-> NewId(pl, 2), packet |-> 1, hash |-> PacketHash(PlanPacket(pl, 2))] >>
             /\ st.consumedCells = [k \in DOMAIN pl.cells |->
                  [index |-> InputIndex(pl, k), cell |-> CellCommitment(OldOpenings(pl)[k]),
                   profile |-> LockingProfile(pl.profile)]]
             /\ st.createdCells = [k \in DOMAIN pl.newCells |->
                  [index |-> k - 1, cell |-> CellCommitment(NewOnes(pl)[k]),
                   profile |-> LockingProfile(pl.profile), exit |-> ExitCommitment(pl.newCells[k].exit)]]
             /\ st.root = BinRoot(Bin(pl)) /\ st.networkFee = pl.networkFee /\ st.serviceFee = pl.serviceFee
             /\ st.feeOutput = IF pl.serviceFee > 0 THEN Len(pl.newCells) + pl.profile.carrierCount ELSE NoOutput
             /\ st.totalIn = Sum(Inputs(pl), LAMBDA x : x.value)
             /\ st.totalOut = Sum(Outputs(pl, Bin(pl)), LAMBDA x : x.value)
<1> DEFINE parts == Parts(pl)
           st == Public(pl)
<1>1. /\ st.network = "regtest" /\ st.mode = "private-transition" /\ st.profile = ProfileId(pl.profile)
      /\ st.relation = pl.profile.relation /\ st.program = "program"
      /\ st.verifier = parts.skeleton.verifier /\ st.nonce = parts.skeleton.nonce /\ st.scope = parts.scope
      /\ st.inputs = parts.skeleton.inputs /\ st.outputs = Outputs(pl, Bin(pl))
  <2> HIDE DEF parts
  <2> QED BY DEF Public, Statement, parts
<1>2. /\ st.consumed = << [note |-> parts.ids[1], nullifier |-> parts.nullifiers[1]],
                          [note |-> parts.ids[2], nullifier |-> parts.nullifiers[2]] >>
      /\ st.created = << [note |-> parts.newIds[1], packet |-> 1 - 1, hash |-> PacketHash(parts.packets[1])],
                         [note |-> parts.newIds[2], packet |-> 2 - 1, hash |-> PacketHash(parts.packets[2])] >>
  BY DEF Public, Statement, Both
<1>3. /\ st.consumedCells = [k \in DOMAIN pl.cells |->
                  [index |-> InputIndex(pl, k), cell |-> CellCommitment(parts.old[k]),
                   profile |-> LockingProfile(pl.profile)]]
      /\ st.createdCells = [k \in DOMAIN pl.newCells |->
                  [index |-> k - 1, cell |-> CellCommitment(parts.new[k]),
                   profile |-> LockingProfile(pl.profile), exit |-> ExitCommitment(pl.newCells[k].exit)]]
      /\ st.root = BinRoot(PacketBin(parts.packets)) /\ st.networkFee = pl.networkFee /\ st.serviceFee = pl.serviceFee
      /\ st.feeOutput = IF pl.serviceFee > 0 THEN Len(pl.newCells) + pl.profile.carrierCount ELSE NoOutput
  BY DEF Public, Statement
<1>4. /\ st.totalIn = Sum(parts.skeleton.inputs, LAMBDA x : x.value)
      /\ st.totalOut = Sum(Outputs(pl, Bin(pl)), LAMBDA x : x.value)
  BY DEF Public, Statement
<1>5. /\ parts.skeleton = Skeleton(pl) /\ parts.scope = Scope(pl)
      /\ parts.old = OldOpenings(pl) /\ parts.new = NewOnes(pl)
      /\ parts.ids[1] = OldId(pl, 1) /\ parts.ids[2] = OldId(pl, 2)
      /\ parts.newIds[1] = NewId(pl, 1) /\ parts.newIds[2] = NewId(pl, 2)
      /\ parts.nullifiers[1] = PlanNullifier(pl, 1) /\ parts.nullifiers[2] = PlanNullifier(pl, 2)
      /\ parts.packets = Packets(pl)
      /\ parts.packets[1] = PlanPacket(pl, 1) /\ parts.packets[2] = PlanPacket(pl, 2)
  BY PartsOfPlan DEF Packets
<1> HIDE DEF parts, st
<1>6. parts.skeleton.inputs = Inputs(pl) /\ parts.skeleton.verifier = Len(pl.cells) + pl.padding
  BY <1>5, SkeletonOfPlan
<1>7. 1 - 1 = 0 /\ 2 - 1 = 1 OBVIOUS
<1>8. st.consumedCells = [k \in DOMAIN pl.cells |->
                  [index |-> InputIndex(pl, k), cell |-> CellCommitment(OldOpenings(pl)[k]),
                   profile |-> LockingProfile(pl.profile)]]
  BY <1>3, <1>5
<1>9. st.createdCells = [k \in DOMAIN pl.newCells |->
                  [index |-> k - 1, cell |-> CellCommitment(NewOnes(pl)[k]),
                   profile |-> LockingProfile(pl.profile), exit |-> ExitCommitment(pl.newCells[k].exit)]]
  BY <1>3, <1>5
<1>10. st.totalIn = Sum(Inputs(pl), LAMBDA x : x.value)
  BY <1>4, <1>6
<1>11. st.root = BinRoot(Bin(pl)) BY <1>3, <1>5 DEF Bin
<1> QED BY <1>1, <1>2, <1>3, <1>4, <1>5, <1>6, <1>7, <1>8, <1>9, <1>10, <1>11 DEF st

\* What each party supplies, item by item.
OldWitness(pl, n) ==
    [statement |-> Com(pl), id |-> OldId(pl, n), note |-> OldNote(pl, n), bundle |-> OldBundle(pl, n)]
NewWitness(pl, n) ==
    [statement |-> Com(pl), id |-> NewId(pl, n), note |-> NewNote(pl, n), bundle |-> NewBundle(pl, n)]
OldCell(pl, k) ==
    [statement |-> Com(pl), id |-> OldId(pl, pl.cells[k].note), source |-> <<pl.tag, k>>, index |-> InputIndex(pl, k),
     cell |-> CellCommitment(OldOpenings(pl)[k]), opening |-> OldOpenings(pl)[k]]
NewCell(pl, k) ==
    [statement |-> Com(pl), id |-> NewId(pl, pl.newCells[k].note), index |-> k - 1,
     cell |-> CellCommitment(NewOnes(pl)[k]), opening |-> NewOnes(pl)[k]]
ExitKey(pl, k) == [statement |-> Com(pl), index |-> k - 1, key |-> pl.newCells[k].exit]
Authority(pl, n) ==
    [statement |-> Com(pl), id |-> OldId(pl, n), note |-> OldId(pl, n), bundle |-> OldNote(pl, n).bundle,
     key |-> pl.notes[n].key,
     signature |-> Signature(pl.notes[n].key, SpendMessage(Com(pl), OldId(pl, n), OldNote(pl, n).bundle))]
Spent(pl, n) ==
    [statement |-> Com(pl), id |-> OldId(pl, n), note |-> OldId(pl, n), bundle |-> OldNote(pl, n).bundle,
     key |-> pl.notes[n].key, nullifier |-> PlanNullifier(pl, n)]
Evidence(pl, n) ==
    [statement |-> Com(pl), id |-> NewId(pl, n), note |-> NewId(pl, n), scope |-> Scope(pl), packet |-> n - 1,
     descriptor |-> Descriptor(pl, n), seed |-> Seed(pl, n)]

\* An honest batch is the material for the statement of the plan.
LEMMA HonestIsMaterial ==
  ASSUME NEW pl
  PROVE  HonestBatch(pl) = Material(pl, Parts(pl), Public(pl), Com(pl))
<1>1. Parts(pl).packets = Packets(pl) BY PartsOfPlan
<1> QED BY <1>1 DEF HonestBatch, Batch, Written, Committed, Public, Com, Bin

\* The collections of the batch, item by item.
LEMMA MaterialOfPlan ==
  ASSUME NEW pl, UniformCells(pl.cells, pl.profile.cellValue), UniformCells(pl.newCells, pl.profile.cellValue)
  PROVE  LET i == HonestBatch(pl)
         IN  /\ i.profile = pl.profile /\ i.expected = Com(pl) /\ i.statement = Public(pl)
             /\ i.consumed = <<OldWitness(pl, 1), OldWitness(pl, 2)>>
             /\ i.created = <<NewWitness(pl, 1), NewWitness(pl, 2)>>
             /\ i.consumedCells = [k \in 1..Len(pl.cells) |-> OldCell(pl, k)]
             /\ i.createdCells = [k \in 1..Len(pl.newCells) |-> NewCell(pl, k)]
             /\ i.exits = [k \in 1..Len(pl.newCells) |-> ExitKey(pl, k)]
             /\ i.authorities = <<Authority(pl, 1), Authority(pl, 2)>>
             /\ i.nullifiers = <<Spent(pl, 1), Spent(pl, 2)>>
             /\ i.recovery = <<Evidence(pl, 1), Evidence(pl, 2)>>
             /\ i.table.statement = Com(pl) /\ i.table.packets = Packets(pl)
             /\ i.table.hashes = <<PacketHash(PlanPacket(pl, 1)), PacketHash(PlanPacket(pl, 2))>>
             /\ i.table.bin = Bin(pl) /\ i.table.root = BinRoot(Bin(pl))
<1> DEFINE parts == Parts(pl)
           st == Public(pl)
           com == Com(pl)
           i == HonestBatch(pl)
<1>1. i = Material(pl, parts, st, com) BY HonestIsMaterial
<1>2. /\ parts.scope = Scope(pl) /\ parts.old = OldOpenings(pl) /\ parts.new = NewOnes(pl)
      /\ parts.packets = Packets(pl)
      /\ parts.packets[1] = PlanPacket(pl, 1) /\ parts.packets[2] = PlanPacket(pl, 2)
      /\ \A n \in 1..2 :
            /\ parts.bundles[n] = OldBundle(pl, n) /\ parts.newBundles[n] = NewBundle(pl, n)
            /\ parts.notes[n] = OldNote(pl, n) /\ parts.newNotes[n] = NewNote(pl, n)
            /\ parts.ids[n] = OldId(pl, n) /\ parts.newIds[n] = NewId(pl, n)
            /\ parts.descriptors[n] = Descriptor(pl, n) /\ parts.seeds[n] = Seed(pl, n)
            /\ parts.nullifiers[n] = PlanNullifier(pl, n)
  <2>1. /\ parts.scope = Scope(pl) /\ parts.old = OldOpenings(pl) /\ parts.new = NewOnes(pl)
        /\ parts.packets = Packets(pl)
    BY PartsOfPlan
  <2>2. /\ parts.bundles[1] = OldBundle(pl, 1) /\ parts.newBundles[1] = NewBundle(pl, 1)
        /\ parts.notes[1] = OldNote(pl, 1) /\ parts.newNotes[1] = NewNote(pl, 1)
        /\ parts.ids[1] = OldId(pl, 1) /\ parts.newIds[1] = NewId(pl, 1)
        /\ parts.descriptors[1] = Descriptor(pl, 1) /\ parts.seeds[1] = Seed(pl, 1)
        /\ parts.nullifiers[1] = PlanNullifier(pl, 1)
    BY PartsOfPlan
  <2>3. /\ parts.bundles[2] = OldBundle(pl, 2) /\ parts.newBundles[2] = NewBundle(pl, 2)
        /\ parts.notes[2] = OldNote(pl, 2) /\ parts.newNotes[2] = NewNote(pl, 2)
        /\ parts.ids[2] = OldId(pl, 2) /\ parts.newIds[2] = NewId(pl, 2)
        /\ parts.descriptors[2] = Descriptor(pl, 2) /\ parts.seeds[2] = Seed(pl, 2)
        /\ parts.nullifiers[2] = PlanNullifier(pl, 2)
    BY PartsOfPlan
  <2>4. parts.packets[1] = PlanPacket(pl, 1) /\ parts.packets[2] = PlanPacket(pl, 2) BY <2>1 DEF Packets
  <2>5. \A n \in 1..2 : n = 1 \/ n = 2 OBVIOUS
  <2> HIDE DEF parts
  <2> QED BY <2>1, <2>2, <2>3, <2>4, <2>5
<1>3. 1 \in 1..2 /\ 2 \in 1..2 /\ 1 - 1 = 0 /\ 2 - 1 = 1 OBVIOUS
<1>4. /\ DOMAIN pl.cells = 1..Len(pl.cells) /\ DOMAIN pl.newCells = 1..Len(pl.newCells)
      /\ \A k \in DOMAIN pl.cells : pl.cells[k].note \in 1..2
      /\ \A k \in DOMAIN pl.newCells : pl.newCells[k].note \in 1..2
  BY IsListShape DEF UniformCells
<1> HIDE DEF parts, st, com, i
<1>5. i.profile = pl.profile /\ i.expected = com /\ i.statement = st BY <1>1 DEF Material
<1>6. i.consumed = <<OldWitness(pl, 1), OldWitness(pl, 2)>>
  BY <1>1, <1>2, <1>3 DEF Material, Both, OldWitness, com
<1>7. i.created = <<NewWitness(pl, 1), NewWitness(pl, 2)>>
  BY <1>1, <1>2, <1>3 DEF Material, Both, NewWitness, com
<1>8. i.consumedCells = [k \in 1..Len(pl.cells) |-> OldCell(pl, k)]
  BY <1>1, <1>2, <1>4 DEF Material, OldCell, com
<1>9. i.createdCells = [k \in 1..Len(pl.newCells) |-> NewCell(pl, k)]
  BY <1>1, <1>2, <1>4 DEF Material, NewCell, com
<1>10. i.exits = [k \in 1..Len(pl.newCells) |-> ExitKey(pl, k)]
  BY <1>1, <1>4 DEF Material, ExitKey, com
<1>11. i.authorities = <<Authority(pl, 1), Authority(pl, 2)>>
  BY <1>1, <1>2, <1>3 DEF Material, Both, Authority, com
<1>12. i.nullifiers = <<Spent(pl, 1), Spent(pl, 2)>>
  BY <1>1, <1>2, <1>3 DEF Material, Both, Spent, com
<1>13. i.recovery = <<Evidence(pl, 1), Evidence(pl, 2)>>
  BY <1>1, <1>2, <1>3 DEF Material, Both, Evidence, com
<1>14. /\ i.table.statement = com /\ i.table.packets = parts.packets
       /\ i.table.hashes = <<PacketHash(parts.packets[1]), PacketHash(parts.packets[2])>>
       /\ i.table.bin = PacketBin(parts.packets) /\ i.table.root = BinRoot(PacketBin(parts.packets))
  BY <1>1 DEF Material, Both
<1>15. /\ i.table.statement = com /\ i.table.packets = Packets(pl)
       /\ i.table.hashes = <<PacketHash(PlanPacket(pl, 1)), PacketHash(PlanPacket(pl, 2))>>
       /\ i.table.bin = Bin(pl) /\ i.table.root = BinRoot(Bin(pl))
  BY <1>2, <1>14 DEF Bin
<1> QED BY <1>5, <1>6, <1>7, <1>8, <1>9, <1>10, <1>11, <1>12, <1>13, <1>15 DEF i, st, com

(***************************************************************************)
(* The transaction of an honest plan, field by field.                      *)
(***************************************************************************)

\* The number in the outpoint of the input at a place.
OutpointAt(m, d, k) == IF k < m THEN k ELSE IF k < m + d THEN k + 2 ELSE IF k = m + d THEN m ELSE m + 1

\* What is said of the input at a place of m cells and d padding inputs.
InputIs(pl, m, d, x, k) ==
    /\ x.outpoint = <<pl.tag, OutpointAt(m, d, k)>>
    /\ x.role = IF k < m \/ k = m + d THEN "private-backing" ELSE "verifier-only"
    /\ x.value = IF k < m \/ k = m + d THEN pl.profile.cellValue ELSE IF k < m + d THEN 0 ELSE 17
    /\ (k < m \/ k = m + d) => IsSeal(pl.profile, x.lock)

\* Every input is as it has to be at its place.
LEMMA InputFields ==
  ASSUME NEW pl, HonestPlan(pl)
  PROVE  /\ IsList(Inputs(pl)) /\ Len(Inputs(pl)) = Len(pl.cells) + pl.padding + 1
         /\ DOMAIN Inputs(pl) = 1..(Len(pl.cells) + pl.padding + 1)
         /\ \A k \in DOMAIN Inputs(pl) : InputIs(pl, Len(pl.cells), pl.padding, Inputs(pl)[k], k)
<1>0. PICK m \in Nat : m = Len(pl.cells) BY HonestNumbers
<1>1. PICK d \in Nat : d = pl.padding BY DEF HonestPlan
<1>2. m >= 5 /\ DOMAIN pl.cells = 1..m /\ pl.profile.carrierCount = 15
  BY <1>0, HonestNumbers DEF HonestPlan, ProfileParses
<1>3. \A k \in 1..m : pl.cells[k].sats = pl.profile.cellValue BY <1>2 DEF HonestPlan, UniformCells
<1>4. /\ Inputs(pl) = [k \in 1..InputCount(pl) |-> InputAt(pl, k)]
      /\ IsList(Inputs(pl)) /\ Len(Inputs(pl)) = InputCount(pl) /\ DOMAIN Inputs(pl) = 1..InputCount(pl)
  BY <1>0, <1>1, <1>2, InputsByPlace
<1>5. InputCount(pl) = m + d + 1 BY <1>0, <1>1 DEF InputCount
<1>6. ASSUME NEW k \in 1..(m + d + 1) PROVE InputIs(pl, m, d, InputAt(pl, k), k)
  <2> DEFINE x == InputAt(pl, k)
  <2>1. CASE k < m
    <3>1. x = InCell(pl, k) BY <1>0, <2>1 DEF InputAt
    <3>2. k \in 1..m BY <2>1
    <3>3. OutpointAt(m, d, k) = k BY <2>1 DEF OutpointAt
    <3> HIDE DEF x
    <3>4. x.outpoint = <<pl.tag, OutpointAt(m, d, k)>> /\ x.role = "private-backing" BY <3>1, <3>3 DEF InCell
    <3>5. x.value = pl.profile.cellValue BY <1>3, <3>1, <3>2 DEF InCell
    <3>6. IsSeal(pl.profile, x.lock) BY <3>1 DEF InCell, Seal, IsSeal
    <3> QED BY <2>1, <3>4, <3>5, <3>6 DEF InputIs, x
  <2>2. CASE ~(k < m) /\ k < m + d
    <3>1. x = InVerifier(pl, k - m + 1, 0) BY <1>0, <1>1, <2>2 DEF InputAt
    <3>2. OutpointAt(m, d, k) = m + 1 + (k - m + 1) BY <2>2 DEF OutpointAt
    <3>3. k # m + d BY <2>2
    <3> HIDE DEF x
    <3>4. x.outpoint = <<pl.tag, m + 1 + (k - m + 1)>> BY <1>0, <3>1 DEF InVerifier
    <3>5. x.outpoint = <<pl.tag, OutpointAt(m, d, k)>> BY <3>2, <3>4
    <3>6. x.role = "verifier-only" /\ x.value = 0 BY <3>1 DEF InVerifier
    <3> QED BY <2>2, <3>3, <3>5, <3>6 DEF InputIs, x
  <2>3. CASE k = m + d
    <3>1. ~(k < m) /\ ~(k < m + d) /\ m \in 1..m BY <1>2, <2>3
    <3>2. x = InCell(pl, m) BY <1>0, <1>1, <2>3, <3>1 DEF InputAt
    <3>3. OutpointAt(m, d, k) = m BY <2>3, <3>1 DEF OutpointAt
    <3> HIDE DEF x
    <3>4. x.outpoint = <<pl.tag, OutpointAt(m, d, k)>> /\ x.role = "private-backing" BY <3>2, <3>3 DEF InCell
    <3>5. x.value = pl.profile.cellValue BY <1>3, <3>1, <3>2 DEF InCell
    <3>6. IsSeal(pl.profile, x.lock) BY <3>2 DEF InCell, Seal, IsSeal
    <3> QED BY <2>3, <3>1, <3>4, <3>5, <3>6 DEF InputIs, x
  <2>4. CASE k > m + d
    <3>1. ~(k < m) /\ ~(k < m + d) /\ k # m + d BY <2>4
    <3>2. x = InVerifier(pl, 0, Collateral(pl)) BY <1>0, <1>1, <3>1 DEF InputAt
    <3>3. OutpointAt(m, d, k) = m + 1 + 0 BY <3>1 DEF OutpointAt
    <3>4. Collateral(pl) = 17 BY <1>2 DEF Collateral, CarrierValue, BoundaryValue
    <3> HIDE DEF x
    <3> QED BY <1>0, <1>1, <3>1, <3>2, <3>3, <3>4 DEF InVerifier, InputIs, x
  <2> QED BY <2>1, <2>2, <2>3, <2>4
<1>7. \A k \in DOMAIN Inputs(pl) : InputIs(pl, m, d, Inputs(pl)[k], k) BY <1>4, <1>5, <1>6
<1> QED BY <1>0, <1>1, <1>4, <1>5, <1>7

\* No two inputs spend one outpoint.
LEMMA OutpointsDistinct ==
  ASSUME NEW m \in Nat, NEW d \in Nat, m >= 1, NEW j \in 1..(m + d + 1), NEW k \in 1..(m + d + 1),
         OutpointAt(m, d, j) = OutpointAt(m, d, k)
  PROVE  j = k
BY DEF OutpointAt

\* What is said of the output at a place behind n cells.
OutputIs(pl, n, bin, x, k) ==
    /\ x.role = IF k <= n THEN "private-backing" ELSE IF k <= n + 15 THEN "carrier"
                ELSE IF k = n + 16 /\ pl.serviceFee > 0 THEN "aggregator-fee" ELSE "boundary"
    /\ x.value = IF k <= n THEN pl.profile.cellValue ELSE IF k <= n + 15 THEN 1
                 ELSE IF k = n + 16 /\ pl.serviceFee > 0 THEN pl.serviceFee ELSE 2
    /\ k <= n => x.lock = Seal(pl.profile, Hash("sha256", pl.newCells[k].exit))
    /\ (n < k /\ k <= n + 15) => x.lock = CarrierLock(bin, k - n) /\ ~x.slot
    /\ x.slot => x.lock[1] # "seal"

\* Every output is as it has to be at its place.
LEMMA OutputFields ==
  ASSUME NEW pl, HonestPlan(pl), NEW bin
  PROVE  LET n == Len(pl.newCells)
             count == n + 16 + FeeOutputs(pl)
         IN  /\ IsList(Outputs(pl, bin)) /\ Len(Outputs(pl, bin)) = count
             /\ DOMAIN Outputs(pl, bin) = 1..count
             /\ FeeOutputs(pl) = IF pl.serviceFee > 0 THEN 1 ELSE 0
             /\ \A k \in DOMAIN Outputs(pl, bin) : OutputIs(pl, n, bin, Outputs(pl, bin)[k], k)
<1>0. PICK n \in Nat : n = Len(pl.newCells) /\ DOMAIN pl.newCells = 1..n BY HonestNumbers
<1>1. PICK f \in Nat : f = FeeOutputs(pl) /\ f = IF pl.serviceFee > 0 THEN 1 ELSE 0 BY DEF FeeOutputs
<1>2. pl.profile.carrierCount = 15 /\ IsList(pl.newCells) BY HonestNumbers DEF HonestPlan, ProfileParses
<1>3. \A k \in 1..n : pl.newCells[k].sats = pl.profile.cellValue BY <1>0 DEF HonestPlan, UniformCells
<1>4. /\ Outputs(pl, bin) = [k \in 1..OutputCount(pl) |-> OutputAt(pl, bin, k)]
      /\ IsList(Outputs(pl, bin)) /\ Len(Outputs(pl, bin)) = OutputCount(pl)
      /\ DOMAIN Outputs(pl, bin) = 1..OutputCount(pl)
  BY <1>2, OutputsByPlace
<1>5. OutputCount(pl) = n + 16 + f
  <2>1. OutputCount(pl) = n + 15 + f + 1 BY <1>0, <1>1 DEF OutputCount
  <2> QED BY <2>1
<1>6. ASSUME NEW k \in 1..(n + 16 + f) PROVE OutputIs(pl, n, bin, OutputAt(pl, bin, k), k)
  <2> DEFINE x == OutputAt(pl, bin, k)
  <2>1. CASE k <= n
    <3>1. x = OutCell(pl, k) /\ k \in 1..n BY <1>0, <2>1 DEF OutputAt
    <3>2. ~(n < k) BY <2>1
    <3> HIDE DEF x
    <3> QED BY <1>0, <1>3, <2>1, <3>1, <3>2 DEF OutCell, OutputIs, x
  <2>2. CASE ~(k <= n) /\ k <= n + 15
    <3>1. x = OutCarrier(bin, k - n) BY <1>0, <2>2 DEF OutputAt
    <3> HIDE DEF x
    <3> QED BY <1>0, <2>2, <3>1 DEF OutCarrier, CarrierValue, OutputIs, x
  <2>3. CASE ~(k <= n + 15) /\ k <= n + 15 + f
    <3>1. k = n + 16 /\ pl.serviceFee > 0 /\ ~(k <= n) BY <1>1, <2>3
    <3>2. x = OutFee(pl) BY <1>0, <1>1, <2>3, <3>1 DEF OutputAt
    <3> HIDE DEF x
    <3> QED BY <1>0, <2>3, <3>1, <3>2 DEF OutFee, OutputIs, x
  <2>4. CASE ~(k <= n + 15 + f)
    <3>1. ~(k <= n) /\ ~(k <= n + 15) /\ ~(k = n + 16 /\ pl.serviceFee > 0) BY <1>1, <2>4
    <3>2. x = OutBoundary BY <1>0, <1>1, <2>4, <3>1 DEF OutputAt
    <3>3. <<"other">>[1] # "seal" OBVIOUS
    <3> HIDE DEF x
    <3> QED BY <1>0, <3>1, <3>2, <3>3 DEF OutBoundary, BoundaryValue, OutputIs, x
  <2> QED BY <2>1, <2>2, <2>3, <2>4
<1>7. \A k \in DOMAIN Outputs(pl, bin) : OutputIs(pl, n, bin, Outputs(pl, bin)[k], k) BY <1>4, <1>5, <1>6
<1> QED BY <1>0, <1>1, <1>4, <1>5, <1>7

\* The positions of a role, and the items that have it, when its places are known.
LEMMA PositionsAtPlaces ==
  ASSUME NEW s, IsList(s), NEW role, NEW place, NEW m,
         PicksPlaces(place, m, {k \in DOMAIN s : s[k].role = role}, Len(s))
  PROVE  /\ IsList(Positions(s, role)) /\ Len(Positions(s, role)) = m /\ DOMAIN Positions(s, role) = 1..m
         /\ \A j \in 1..m : Positions(s, role)[j] = place[j] - 1
<1> DEFINE picked == {k \in DOMAIN s : s[k].role = role}
           index == [k \in DOMAIN s |-> k - 1]
           n == Len(s)
<1>1. PicksPlaces(place, m, picked, n) OBVIOUS
<1>2. Positions(s, role) = Kept(index, picked) BY DEF Positions
<1>3. \A k \in DOMAIN s : index[k] = k - 1 OBVIOUS
<1>4. \A k \in picked : k \in DOMAIN s OBVIOUS
<1> HIDE DEF picked, index, n
<1>5. \A j \in 1..m : place[j] \in picked BY <1>1 DEF PicksPlaces
<1>6. /\ IsList(Kept(index, picked)) /\ Len(Kept(index, picked)) = m /\ DOMAIN Kept(index, picked) = 1..m
      /\ \A j \in 1..m : Kept(index, picked)[j] = index[place[j]]
  BY <1>1, KeptAtPlaces
<1>7. \A j \in 1..m : index[place[j]] = place[j] - 1 BY <1>3, <1>4, <1>5
<1> QED BY <1>2, <1>6, <1>7

LEMMA RoleAtPlaces ==
  ASSUME NEW s, IsList(s), NEW role, NEW place, NEW m,
         PicksPlaces(place, m, {k \in DOMAIN s : s[k].role = role}, Len(s))
  PROVE  /\ IsList(OfRole(s, role)) /\ Len(OfRole(s, role)) = m /\ DOMAIN OfRole(s, role) = 1..m
         /\ \A j \in 1..m : OfRole(s, role)[j] = s[place[j]]
<1>1. OfRole(s, role) = Kept(s, {k \in DOMAIN s : s[k].role = role}) BY DEF OfRole
<1> DEFINE picked == {k \in DOMAIN s : s[k].role = role}
           n == Len(s)
<1>2. PicksPlaces(place, m, picked, n) /\ OfRole(s, role) = Kept(s, picked) BY <1>1
<1> HIDE DEF picked, n
<1> QED BY <1>2, KeptAtPlaces

\* The input index of a cell, from the numbers of cells and of the padding before the last.
IndexAt(m, d, k) == IF k = m THEN k - 1 + d ELSE k - 1

\* The sizes that decide where the inputs are.
HasInputs(pl, m, d) == m = Len(pl.cells) /\ d = pl.padding

\* What the roles of the inputs select.
InputRolesAre(inputs, m, d) ==
    LET backing == Positions(inputs, "private-backing")
        others == OfRole(inputs, "verifier-only")
    IN  /\ IsList(backing) /\ Len(backing) = m /\ DOMAIN backing = 1..m
        /\ \A j \in 1..m : backing[j] = IndexAt(m, d, j)
        /\ IsList(others) /\ Len(others) = d + 1 /\ DOMAIN others = 1..(d + 1)
        /\ \A j \in 1..(d + 1) : others[j].value = IF j <= d THEN 0 ELSE 17

\* The roles of the inputs of a plan are where the statement says.
LEMMA RolesOfInputs ==
  ASSUME NEW pl, HonestPlan(pl), NEW m \in Nat, NEW d \in Nat, HasInputs(pl, m, d)
  PROVE  InputRolesAre(Inputs(pl), m, d)
<1> DEFINE inputs == Inputs(pl)
<1>0. m >= 5 BY HonestNumbers DEF HasInputs
<1>2. /\ IsList(inputs) /\ Len(inputs) = m + d + 1 /\ DOMAIN inputs = 1..(m + d + 1)
      /\ \A k \in 1..(m + d + 1) : InputIs(pl, m, d, inputs[k], k)
  BY InputFields DEF HasInputs
<1>3. \A k \in 1..(m + d + 1) :
         /\ inputs[k].role = IF k < m \/ k = m + d THEN "private-backing" ELSE "verifier-only"
         /\ inputs[k].value = IF k < m \/ k = m + d THEN pl.profile.cellValue ELSE IF k < m + d THEN 0 ELSE 17
  BY <1>2 DEF InputIs
<1>4. "private-backing" # "verifier-only" OBVIOUS
<1> HIDE DEF inputs
<1> DEFINE place == [j \in 1..m |-> IF j = m THEN m + d ELSE j]
           picked == {k \in DOMAIN inputs : inputs[k].role = "private-backing"}
<1>5. PicksPlaces(place, m, picked, Len(inputs))
  <2>1. picked = {k \in 1..(m + d + 1) : k < m \/ k = m + d} BY <1>2, <1>3, <1>4
  <2>2. \A j \in 1..m : place[j] = IF j = m THEN m + d ELSE j OBVIOUS
  <2> HIDE DEF picked, place
  <2>3. m + d + 1 \in Nat /\ picked \in SUBSET (1..(m + d + 1)) BY <2>1
  <2>4. ASSUME NEW j \in 1..m PROVE place[j] \in picked
    <3>1. CASE j = m
      <4>1. m + d \in 1..(m + d + 1) BY <1>0
      <4> QED BY <2>1, <2>2, <3>1, <4>1
    <3>2. CASE j # m
      <4>1. j \in 1..(m + d + 1) /\ j < m BY <3>2
      <4> QED BY <2>1, <2>2, <3>2, <4>1
    <3> QED BY <3>1, <3>2
  <2>5. \A i, j \in 1..m : i < j => place[i] < place[j] BY <2>2
  <2>6. ASSUME NEW k \in picked PROVE \E j \in 1..m : place[j] = k
    <3>1. k \in 1..(m + d + 1) /\ (k < m \/ k = m + d) BY <2>1
    <3>2. CASE k < m
      <4>1. k \in 1..m /\ k # m BY <3>1, <3>2
      <4> QED BY <2>2, <4>1
    <3>3. CASE k = m + d
      <4>1. m \in 1..m BY <1>0
      <4> QED BY <2>2, <3>3, <4>1
    <3> QED BY <3>1, <3>2, <3>3
  <2> QED BY <1>2, <2>3, <2>4, <2>5, <2>6 DEF PicksPlaces
<1>6. \A j \in 1..m : place[j] - 1 = IndexAt(m, d, j)
  <2> SUFFICES ASSUME NEW j \in 1..m PROVE place[j] - 1 = IndexAt(m, d, j) OBVIOUS
  <2>1. place[j] = IF j = m THEN m + d ELSE j OBVIOUS
  <2> HIDE DEF place
  <2>2. (m + d) - 1 = m - 1 + d OBVIOUS
  <2> QED BY <2>1, <2>2 DEF IndexAt
<1> DEFINE place2 == [j \in 1..(d + 1) |-> IF j = d + 1 THEN m + d + 1 ELSE (m - 1) + j]
           picked2 == {k \in DOMAIN inputs : inputs[k].role = "verifier-only"}
<1>7. PicksPlaces(place2, d + 1, picked2, Len(inputs))
  <2>1. picked2 = {k \in 1..(m + d + 1) : ~(k < m \/ k = m + d)} BY <1>2, <1>3, <1>4
  <2>2. \A j \in 1..(d + 1) : place2[j] = IF j = d + 1 THEN m + d + 1 ELSE (m - 1) + j OBVIOUS
  <2> HIDE DEF picked2, place2
  <2>3. m + d + 1 \in Nat /\ d + 1 \in Nat /\ picked2 \in SUBSET (1..(m + d + 1)) BY <2>1
  <2>4. ASSUME NEW j \in 1..(d + 1) PROVE place2[j] \in picked2
    <3>1. CASE j = d + 1
      <4>1. m + d + 1 \in 1..(m + d + 1) /\ ~(m + d + 1 < m \/ m + d + 1 = m + d) BY <1>0
      <4> QED BY <2>1, <2>2, <3>1, <4>1
    <3>2. CASE j # d + 1
      <4>1. (m - 1) + j \in 1..(m + d + 1) /\ ~((m - 1) + j < m \/ (m - 1) + j = m + d) BY <1>0, <3>2
      <4> QED BY <2>1, <2>2, <3>2, <4>1
    <3> QED BY <3>1, <3>2
  <2>5. \A i, j \in 1..(d + 1) : i < j => place2[i] < place2[j] BY <2>2
  <2>6. ASSUME NEW k \in picked2 PROVE \E j \in 1..(d + 1) : place2[j] = k
    <3>1. k \in 1..(m + d + 1) /\ ~(k < m \/ k = m + d) BY <2>1
    <3>2. CASE k = m + d + 1
      <4>1. d + 1 \in 1..(d + 1) BY <1>0
      <4> QED BY <2>2, <3>2, <4>1
    <3>3. CASE k # m + d + 1
      <4>1. k \in Nat /\ k >= m /\ k <= m + d BY <3>1, <3>3
      <4>2. k - (m - 1) \in 1..(d + 1) /\ k - (m - 1) # d + 1 BY <3>1, <4>1
      <4>3. (m - 1) + (k - (m - 1)) = k BY <4>1
      <4> QED BY <2>2, <4>2, <4>3
    <3> QED BY <3>2, <3>3
  <2> QED BY <1>2, <2>3, <2>4, <2>5, <2>6 DEF PicksPlaces
<1>8. \A j \in 1..(d + 1) : inputs[place2[j]].value = IF j <= d THEN 0 ELSE 17
  <2> SUFFICES ASSUME NEW j \in 1..(d + 1) PROVE inputs[place2[j]].value = IF j <= d THEN 0 ELSE 17 OBVIOUS
  <2>1. place2[j] = IF j = d + 1 THEN m + d + 1 ELSE (m - 1) + j OBVIOUS
  <2> HIDE DEF place2
  <2>2. CASE j = d + 1
    <3>1. m + d + 1 \in 1..(m + d + 1) /\ ~(m + d + 1 < m) /\ m + d + 1 # m + d /\ ~(m + d + 1 < m + d) /\ ~(j <= d)
      BY <1>0, <2>2
    <3> QED BY <1>3, <2>1, <2>2, <3>1
  <2>3. CASE j # d + 1
    <3>1. (m - 1) + j \in 1..(m + d + 1) /\ ~((m - 1) + j < m) /\ (m - 1) + j # m + d /\ (m - 1) + j < m + d /\ j <= d
      BY <1>0, <2>3
    <3> QED BY <1>3, <2>1, <2>3, <3>1
  <2> QED BY <2>2, <2>3
<1> HIDE DEF place, place2
<1>9. LET backing == Positions(inputs, "private-backing")
      IN  /\ IsList(backing) /\ Len(backing) = m /\ DOMAIN backing = 1..m
          /\ \A j \in 1..m : backing[j] = place[j] - 1
  BY <1>2, <1>5, PositionsAtPlaces
<1>10. LET others == OfRole(inputs, "verifier-only")
       IN  /\ IsList(others) /\ Len(others) = d + 1 /\ DOMAIN others = 1..(d + 1)
           /\ \A j \in 1..(d + 1) : others[j] = inputs[place2[j]]
  <2>1. PICK e \in Nat : e = d + 1 OBVIOUS
  <2>2. PicksPlaces(place2, e, {k \in DOMAIN inputs : inputs[k].role = "verifier-only"}, Len(inputs)) BY <1>7, <2>1
  <2>3. LET others == OfRole(inputs, "verifier-only")
        IN  /\ IsList(others) /\ Len(others) = e /\ DOMAIN others = 1..e
            /\ \A j \in 1..e : others[j] = inputs[place2[j]]
    <3> HIDE DEF picked, picked2
    <3>1. ASSUME NEW s, IsList(s), NEW role, NEW p,
                 PicksPlaces(p, e, {k \in DOMAIN s : s[k].role = role}, Len(s))
          PROVE  /\ IsList(OfRole(s, role)) /\ Len(OfRole(s, role)) = e /\ DOMAIN OfRole(s, role) = 1..e
                 /\ \A j \in 1..e : OfRole(s, role)[j] = s[p[j]]
      BY <3>1, RoleAtPlaces
    <3>2. IsList(inputs) BY <1>2
    <3> QED BY <2>2, <3>1, <3>2
  <2> QED BY <2>1, <2>3
<1> HIDE DEF picked, picked2
<1>11. LET backing == Positions(inputs, "private-backing")
       IN  /\ IsList(backing) /\ Len(backing) = m /\ DOMAIN backing = 1..m
           /\ \A j \in 1..m : backing[j] = IndexAt(m, d, j)
  BY <1>6, <1>9
<1>12. LET others == OfRole(inputs, "verifier-only")
       IN  /\ IsList(others) /\ Len(others) = d + 1 /\ DOMAIN others = 1..(d + 1)
           /\ \A j \in 1..(d + 1) : others[j].value = IF j <= d THEN 0 ELSE 17
  BY <1>8, <1>10
<1>13. InputRolesAre(inputs, m, d) BY <1>11, <1>12 DEF InputRolesAre
<1>14. inputs = Inputs(pl) BY DEF inputs
<1> QED BY <1>13, <1>14

\* The items of a role come one after another, b of them after the first a items.
RunOfRole(s, role, a, b) ==
    /\ IsList(s) /\ a \in Nat /\ b \in Nat /\ a + b <= Len(s)
    /\ \A k \in DOMAIN s : s[k].role = role <=> (a < k /\ k <= a + b)

\* A role taken by a run of neighbours: its places, positions and items.
RunPlaces(a, b) == [j \in 1..b |-> a + j]

LEMMA PlacesOfRun ==
  ASSUME NEW s, NEW role, NEW a \in Nat, NEW b \in Nat, RunOfRole(s, role, a, b)
  PROVE  PicksPlaces(RunPlaces(a, b), b, {k \in DOMAIN s : s[k].role = role}, Len(s))
<1> DEFINE picked == {k \in DOMAIN s : s[k].role = role}
           place == RunPlaces(a, b)
<1>1. IsList(s) BY DEF RunOfRole
<1>2. PICK n \in Nat : n = Len(s) /\ DOMAIN s = 1..n BY <1>1, IsListShape
<1>3. a + b <= n BY <1>2 DEF RunOfRole
<1>4. \A k \in 1..n : s[k].role = role <=> (a < k /\ k <= a + b) BY <1>2 DEF RunOfRole
<1>5. picked = {k \in 1..n : a < k /\ k <= a + b} BY <1>2, <1>4
<1>6. \A j \in 1..b : place[j] = a + j BY DEF RunPlaces
<1> HIDE DEF picked, place
<1>7. PicksPlaces(place, b, picked, n)
  <2>1. picked \in SUBSET (1..n) BY <1>5
  <2>2. \A j \in 1..b : place[j] \in picked BY <1>3, <1>5, <1>6
  <2>3. \A i, j \in 1..b : i < j => place[i] < place[j] BY <1>6
  <2>4. ASSUME NEW k \in picked PROVE \E j \in 1..b : place[j] = k
    <3>1. k \in 1..n /\ a < k /\ k <= a + b BY <1>5
    <3>2. k - a \in 1..b /\ a + (k - a) = k BY <3>1
    <3> QED BY <1>6, <3>2
  <2> QED BY <2>1, <2>2, <2>3, <2>4 DEF PicksPlaces
<1> QED BY <1>2, <1>7 DEF picked, place

LEMMA PositionsOfRun ==
  ASSUME NEW s, NEW role, NEW a \in Nat, NEW b \in Nat, RunOfRole(s, role, a, b)
  PROVE  LET kept == Positions(s, role)
         IN  kept = [j \in 1..b |-> a + j - 1]
<1> DEFINE kept == Positions(s, role)
           place == RunPlaces(a, b)
<1>1. IsList(s) BY DEF RunOfRole
<1>2. PicksPlaces(place, b, {k \in DOMAIN s : s[k].role = role}, Len(s)) BY PlacesOfRun
<1>3. \A j \in 1..b : place[j] = a + j BY DEF RunPlaces
<1> HIDE DEF place
<1>4. ASSUME NEW m, PicksPlaces(place, m, {k \in DOMAIN s : s[k].role = role}, Len(s))
      PROVE  IsList(kept) /\ Len(kept) = m /\ \A j \in 1..m : kept[j] = place[j] - 1
  BY <1>1, <1>4, PositionsAtPlaces
<1>5. IsList(kept) /\ Len(kept) = b /\ \A j \in 1..b : kept[j] = place[j] - 1 BY <1>2, <1>4
<1> HIDE DEF kept
<1>6. kept = [j \in 1..b |-> kept[j]] BY <1>5, IsListShape
<1>7. ASSUME NEW j \in 1..b PROVE kept[j] = a + j - 1
  <2>1. kept[j] = place[j] - 1 /\ place[j] = a + j BY <1>3, <1>5
  <2> QED BY <2>1
<1> QED BY <1>6, <1>7 DEF kept

LEMMA RoleOfRun ==
  ASSUME NEW s, NEW role, NEW a \in Nat, NEW b \in Nat, RunOfRole(s, role, a, b)
  PROVE  LET kept == OfRole(s, role)
         IN  IsList(kept) /\ Len(kept) = b /\ DOMAIN kept = 1..b /\ \A j \in 1..b : kept[j] = s[a + j]
<1> DEFINE place == RunPlaces(a, b)
<1>1. IsList(s) BY DEF RunOfRole
<1>2. PicksPlaces(place, b, {k \in DOMAIN s : s[k].role = role}, Len(s)) BY PlacesOfRun
<1>3. \A j \in 1..b : place[j] = a + j BY DEF RunPlaces
<1> HIDE DEF place
<1>4. ASSUME NEW t, IsList(t), NEW r, NEW p,
             PicksPlaces(p, b, {k \in DOMAIN t : t[k].role = r}, Len(t))
      PROVE  /\ IsList(OfRole(t, r)) /\ Len(OfRole(t, r)) = b /\ DOMAIN OfRole(t, r) = 1..b
             /\ \A j \in 1..b : OfRole(t, r)[j] = t[p[j]]
  BY <1>4, RoleAtPlaces
<1>5. /\ IsList(OfRole(s, role)) /\ Len(OfRole(s, role)) = b /\ DOMAIN OfRole(s, role) = 1..b
      /\ \A j \in 1..b : OfRole(s, role)[j] = s[place[j]]
  BY <1>1, <1>2, <1>4
<1> DEFINE kept == OfRole(s, role)
<1>6. \A j \in 1..b : kept[j] = s[a + j] BY <1>3, <1>5
<1> QED BY <1>5, <1>6

\* The sizes that decide where the outputs are.
HasOutputs(pl, n, f) == n = Len(pl.newCells) /\ f = FeeOutputs(pl)

\* What the roles of the outputs select.
OutputRolesAre(outputs, bin, n, f) ==
    /\ Positions(outputs, "private-backing") = [j \in 1..n |-> j - 1]
    /\ Positions(outputs, "aggregator-fee") = [j \in 1..f |-> n + 15]
    /\ LET carriers == OfRole(outputs, "carrier")
       IN  /\ IsList(carriers) /\ Len(carriers) = 15 /\ DOMAIN carriers = 1..15
           /\ \A j \in 1..15 : carriers[j].value = 1 /\ carriers[j].lock = CarrierLock(bin, j) /\ ~carriers[j].slot
    /\ LET boundary == OfRole(outputs, "boundary")
       IN  /\ IsList(boundary) /\ Len(boundary) = 1 /\ DOMAIN boundary = 1..1
           /\ boundary[1].value = 2

\* The roles of the outputs of a plan are where the statement says.
LEMMA RolesOfOutputs ==
  ASSUME NEW pl, HonestPlan(pl), NEW bin, NEW n \in Nat, NEW f \in Nat, HasOutputs(pl, n, f)
  PROVE  OutputRolesAre(Outputs(pl, bin), bin, n, f)
<1> DEFINE outputs == Outputs(pl, bin)
           s == pl.serviceFee
<1>1. /\ IsList(outputs) /\ Len(outputs) = n + 16 + f /\ DOMAIN outputs = 1..(n + 16 + f)
      /\ f = IF s > 0 THEN 1 ELSE 0
      /\ \A k \in 1..(n + 16 + f) : OutputIs(pl, n, bin, outputs[k], k)
  BY OutputFields DEF HasOutputs
<1>2. f = 0 \/ f = 1 BY <1>1
<1> HIDE DEF outputs, s
<1>3. ASSUME NEW k \in 1..(n + 16 + f)
      PROVE  LET x == outputs[k]
             IN  /\ x.role = IF k <= n THEN "private-backing" ELSE IF k <= n + 15 THEN "carrier"
                             ELSE IF k <= n + 15 + f THEN "aggregator-fee" ELSE "boundary"
                 /\ (n < k /\ k <= n + 15) => x.value = 1 /\ x.lock = CarrierLock(bin, k - n) /\ ~x.slot
                 /\ k > n + 15 + f => x.value = 2
  <2>1. OutputIs(pl, n, bin, outputs[k], k) BY <1>1
  <2>2. (~(k <= n + 15)) => ((k = n + 16 /\ s > 0) <=> (k <= n + 15 + f)) BY <1>1
  <2>3. LET x == outputs[k]
        IN  /\ x.role = IF k <= n THEN "private-backing" ELSE IF k <= n + 15 THEN "carrier"
                        ELSE IF k = n + 16 /\ s > 0 THEN "aggregator-fee" ELSE "boundary"
            /\ x.value = IF k <= n THEN pl.profile.cellValue ELSE IF k <= n + 15 THEN 1
                         ELSE IF k = n + 16 /\ s > 0 THEN s ELSE 2
            /\ (n < k /\ k <= n + 15) => x.lock = CarrierLock(bin, k - n) /\ ~x.slot
    BY <2>1 DEF OutputIs, s
  <2>4. (n < k /\ k <= n + 15) => ~(k <= n) BY <1>2
  <2>5. k > n + 15 + f => ~(k <= n) /\ ~(k <= n + 15) /\ ~(k <= n + 15 + f) BY <1>2
  <2> QED BY <2>2, <2>3, <2>4, <2>5
<1>4. /\ "private-backing" # "carrier" /\ "private-backing" # "aggregator-fee" /\ "private-backing" # "boundary"
      /\ "carrier" # "aggregator-fee" /\ "carrier" # "boundary" /\ "aggregator-fee" # "boundary"
  OBVIOUS
<1>5. \A k \in 1..(n + 16 + f) :
         outputs[k].role = IF k <= n THEN "private-backing" ELSE IF k <= n + 15 THEN "carrier"
                           ELSE IF k <= n + 15 + f THEN "aggregator-fee" ELSE "boundary"
  BY <1>3
<1>6. RunOfRole(outputs, "private-backing", 0, n)
  <2>1. \A k \in DOMAIN outputs : outputs[k].role = "private-backing" <=> (0 < k /\ k <= 0 + n) BY <1>1, <1>4, <1>5
  <2>2. 0 + n <= Len(outputs) /\ 0 \in Nat BY <1>1
  <2> QED BY <1>1, <2>1, <2>2 DEF RunOfRole
<1>7. RunOfRole(outputs, "carrier", n, 15)
  <2>1. \A k \in DOMAIN outputs : outputs[k].role = "carrier" <=> (n < k /\ k <= n + 15) BY <1>1, <1>4, <1>5
  <2>2. n + 15 <= Len(outputs) /\ 15 \in Nat BY <1>1
  <2> QED BY <1>1, <2>1, <2>2 DEF RunOfRole
<1>8. RunOfRole(outputs, "aggregator-fee", n + 15, f)
  <2>1. \A k \in DOMAIN outputs : outputs[k].role = "aggregator-fee" <=> (n + 15 < k /\ k <= n + 15 + f)
    BY <1>1, <1>4, <1>5
  <2>2. n + 15 + f <= Len(outputs) /\ n + 15 \in Nat BY <1>1
  <2> QED BY <1>1, <2>1, <2>2 DEF RunOfRole
<1>9. RunOfRole(outputs, "boundary", n + 15 + f, 1)
  <2>1. \A k \in DOMAIN outputs : outputs[k].role = "boundary" <=> (n + 15 + f < k /\ k <= n + 15 + f + 1)
    <3>1. SUFFICES ASSUME NEW k \in 1..(n + 16 + f)
          PROVE  outputs[k].role = "boundary" <=> (n + 15 + f < k /\ k <= n + 15 + f + 1)
      BY <1>1
    <3>2. k <= n + 15 + f + 1 OBVIOUS
    <3>3. (n + 15 + f < k) <=> (~(k <= n) /\ ~(k <= n + 15) /\ ~(k <= n + 15 + f)) BY <1>2
    <3> QED BY <1>4, <1>5, <3>2, <3>3
  <2>2. n + 15 + f + 1 <= Len(outputs) /\ n + 15 + f \in Nat /\ 1 \in Nat BY <1>1
  <2> QED BY <1>1, <2>1, <2>2 DEF RunOfRole
<1>10. Positions(outputs, "private-backing") = [j \in 1..n |-> j - 1]
  <2>1. PICK a \in Nat : a = 0 OBVIOUS
  <2>2. RunOfRole(outputs, "private-backing", a, n) BY <1>6, <2>1
  <2>3. Positions(outputs, "private-backing") = [j \in 1..n |-> a + j - 1] BY <2>2, PositionsOfRun
  <2>4. \A j \in 1..n : a + j - 1 = j - 1 BY <2>1
  <2> QED BY <2>3, <2>4
<1>11. Positions(outputs, "aggregator-fee") = [j \in 1..f |-> n + 15]
  <2>1. PICK a \in Nat : a = n + 15 OBVIOUS
  <2>2. RunOfRole(outputs, "aggregator-fee", a, f) BY <1>8, <2>1
  <2>3. Positions(outputs, "aggregator-fee") = [j \in 1..f |-> a + j - 1] BY <2>2, PositionsOfRun
  <2>4. \A j \in 1..f : a + j - 1 = n + 15 BY <1>2, <2>1
  <2> QED BY <2>3, <2>4
<1>12. LET carriers == OfRole(outputs, "carrier")
       IN  /\ IsList(carriers) /\ Len(carriers) = 15 /\ DOMAIN carriers = 1..15
           /\ \A j \in 1..15 : carriers[j].value = 1 /\ carriers[j].lock = CarrierLock(bin, j) /\ ~carriers[j].slot
  <2> DEFINE r == OfRole(outputs, "carrier")
  <2>1. PICK b \in Nat : b = 15 OBVIOUS
  <2>2. RunOfRole(outputs, "carrier", n, b) BY <1>7, <2>1
  <2>3. IsList(r) /\ Len(r) = b /\ DOMAIN r = 1..b /\ \A j \in 1..b : r[j] = outputs[n + j] BY <2>2, RoleOfRun
  <2> HIDE DEF r
  <2>4. ASSUME NEW j \in 1..15 PROVE r[j].value = 1 /\ r[j].lock = CarrierLock(bin, j) /\ ~r[j].slot
    <3>1. n + j \in 1..(n + 16 + f) /\ n < n + j /\ n + j <= n + 15 /\ (n + j) - n = j BY <1>2
    <3>2. r[j] = outputs[n + j] BY <2>1, <2>3
    <3> QED BY <1>3, <3>1, <3>2
  <2> QED BY <2>1, <2>3, <2>4 DEF r
<1>13. LET boundary == OfRole(outputs, "boundary")
       IN  /\ IsList(boundary) /\ Len(boundary) = 1 /\ DOMAIN boundary = 1..1
           /\ boundary[1].value = 2
  <2> DEFINE r == OfRole(outputs, "boundary")
  <2>1. PICK a \in Nat, b \in Nat : a = n + 15 + f /\ b = 1 OBVIOUS
  <2>2. RunOfRole(outputs, "boundary", a, b) BY <1>9, <2>1
  <2>3. IsList(r) /\ Len(r) = b /\ DOMAIN r = 1..b /\ \A j \in 1..b : r[j] = outputs[a + j] BY <2>2, RoleOfRun
  <2> HIDE DEF r
  <2>4. a + 1 \in 1..(n + 16 + f) /\ a + 1 > n + 15 + f /\ 1 \in 1..1 BY <2>1
  <2>5. outputs[a + 1].value = 2 BY <1>3, <2>4
  <2> QED BY <2>1, <2>3, <2>4, <2>5 DEF r
<1>14. OutputRolesAre(outputs, bin, n, f) BY <1>10, <1>11, <1>12, <1>13 DEF OutputRolesAre
<1> QED BY <1>14 DEF outputs

(***************************************************************************)
(* The boundary: an honest plan's statement parses and its checks pass.    *)
(***************************************************************************)

\* The sizes of a plan.
Sizes(pl, m, d, n) == m = Len(pl.cells) /\ d = pl.padding /\ n = Len(pl.newCells)

LEMMA PlanHasSizes ==
  ASSUME NEW pl, HonestPlan(pl)
  PROVE  \E m, d, n \in Nat : Sizes(pl, m, d, n)
<1>1. Len(pl.cells) \in Nat /\ Len(pl.newCells) \in Nat BY HonestNumbers
<1>2. pl.padding \in Nat BY DEF HonestPlan
<1> QED BY <1>1, <1>2 DEF Sizes

\* The tuples of the statement, by the sizes of the plan.
PublicNotesAre(pl, st) ==
    /\ IsList(st.consumed) /\ Len(st.consumed) = 2 /\ DOMAIN st.consumed = 1..2
    /\ \A j \in 1..2 : st.consumed[j].note = OldId(pl, j) /\ st.consumed[j].nullifier = PlanNullifier(pl, j)
    /\ IsList(st.created) /\ Len(st.created) = 2 /\ DOMAIN st.created = 1..2
    /\ \A j \in 1..2 : /\ st.created[j].note = NewId(pl, j) /\ st.created[j].packet = j - 1
                       /\ st.created[j].hash = PacketHash(PlanPacket(pl, j))

PublicCellsAre(pl, st, m, d, n) ==
    /\ IsList(st.consumedCells) /\ Len(st.consumedCells) = m /\ DOMAIN st.consumedCells = 1..m
    /\ \A k \in 1..m : /\ st.consumedCells[k].index = IndexAt(m, d, k)
                       /\ st.consumedCells[k].cell = CellCommitment(OldOpenings(pl)[k])
                       /\ st.consumedCells[k].profile = LockingProfile(pl.profile)
    /\ IsList(st.createdCells) /\ Len(st.createdCells) = n /\ DOMAIN st.createdCells = 1..n
    /\ \A k \in 1..n : /\ st.createdCells[k].index = k - 1
                       /\ st.createdCells[k].cell = CellCommitment(NewOnes(pl)[k])
                       /\ st.createdCells[k].profile = LockingProfile(pl.profile)
                       /\ st.createdCells[k].exit = ExitCommitment(pl.newCells[k].exit)

\* The statement of a plan has these tuples.
LEMMA PublicItems ==
  ASSUME NEW pl, HonestPlan(pl), NEW m \in Nat, NEW d \in Nat, NEW n \in Nat, Sizes(pl, m, d, n)
  PROVE  PublicNotesAre(pl, Public(pl)) /\ PublicCellsAre(pl, Public(pl), m, d, n)
<1> DEFINE st == Public(pl)
<1>1. /\ st.consumed = << [note |-> OldId(pl, 1), nullifier |-> PlanNullifier(pl, 1)],
                          [note |-> OldId(pl, 2), nullifier |-> PlanNullifier(pl, 2)] >>
      /\ st.created = << [note |-> NewId(pl, 1), packet |-> 0, hash |-> PacketHash(PlanPacket(pl, 1))],
                         [note |-> NewId(pl, 2), packet |-> 1, hash |-> PacketHash(PlanPacket(pl, 2))] >>
      /\ st.consumedCells = [k \in DOMAIN pl.cells |->
                  [index |-> InputIndex(pl, k), cell |-> CellCommitment(OldOpenings(pl)[k]),
                   profile |-> LockingProfile(pl.profile)]]
      /\ st.createdCells = [k \in DOMAIN pl.newCells |->
                  [index |-> k - 1, cell |-> CellCommitment(NewOnes(pl)[k]),
                   profile |-> LockingProfile(pl.profile), exit |-> ExitCommitment(pl.newCells[k].exit)]]
  BY PublicOfPlan
<1>2. DOMAIN pl.cells = 1..m /\ DOMAIN pl.newCells = 1..n BY HonestNumbers DEF Sizes
<1>3. \A k : InputIndex(pl, k) = IndexAt(m, d, k) BY DEF Sizes, InputIndex, IndexAt
<1> HIDE DEF st
<1>4. /\ IsList(st.consumed) /\ Len(st.consumed) = 2 /\ DOMAIN st.consumed = 1..2
      /\ IsList(st.created) /\ Len(st.created) = 2 /\ DOMAIN st.created = 1..2
  BY <1>1, PairIsList
<1>5. \A j \in 1..2 : j = 1 \/ j = 2 OBVIOUS
<1>6. \A j \in 1..2 : st.consumed[j].note = OldId(pl, j) /\ st.consumed[j].nullifier = PlanNullifier(pl, j)
  <2>1. st.consumed[1].note = OldId(pl, 1) /\ st.consumed[1].nullifier = PlanNullifier(pl, 1) BY <1>1
  <2>2. st.consumed[2].note = OldId(pl, 2) /\ st.consumed[2].nullifier = PlanNullifier(pl, 2) BY <1>1
  <2> QED BY <1>5, <2>1, <2>2
<1>7. \A j \in 1..2 : /\ st.created[j].note = NewId(pl, j) /\ st.created[j].packet = j - 1
                      /\ st.created[j].hash = PacketHash(PlanPacket(pl, j))
  <2>1. /\ st.created[1].note = NewId(pl, 1) /\ st.created[1].packet = 1 - 1
        /\ st.created[1].hash = PacketHash(PlanPacket(pl, 1))
    BY <1>1
  <2>2. /\ st.created[2].note = NewId(pl, 2) /\ st.created[2].packet = 2 - 1
        /\ st.created[2].hash = PacketHash(PlanPacket(pl, 2))
    BY <1>1
  <2> QED BY <1>5, <2>1, <2>2
<1>8. /\ \A k \in 1..m : /\ st.consumedCells[k].index = InputIndex(pl, k)
                         /\ st.consumedCells[k].cell = CellCommitment(OldOpenings(pl)[k])
                         /\ st.consumedCells[k].profile = LockingProfile(pl.profile)
      /\ st.consumedCells = [k \in 1..m |-> st.consumedCells[k]]
  BY <1>1, <1>2
<1>9. /\ \A k \in 1..n : /\ st.createdCells[k].index = k - 1
                         /\ st.createdCells[k].cell = CellCommitment(NewOnes(pl)[k])
                         /\ st.createdCells[k].profile = LockingProfile(pl.profile)
                         /\ st.createdCells[k].exit = ExitCommitment(pl.newCells[k].exit)
      /\ st.createdCells = [k \in 1..n |-> st.createdCells[k]]
  BY <1>1, <1>2
<1>10. /\ IsList(st.consumedCells) /\ Len(st.consumedCells) = m /\ DOMAIN st.consumedCells = 1..m
       /\ IsList(st.createdCells) /\ Len(st.createdCells) = n /\ DOMAIN st.createdCells = 1..n
  BY <1>8, <1>9, IntervalIsList
<1>11. PublicNotesAre(pl, st) BY <1>4, <1>6, <1>7 DEF PublicNotesAre
<1>12. PublicCellsAre(pl, st, m, d, n) BY <1>3, <1>8, <1>9, <1>10 DEF PublicCellsAre
<1> QED BY <1>11, <1>12 DEF st

\* The money of an honest plan, by its sizes.
Money(pl, m, n) ==
    LET c == pl.profile.cellValue
    IN  /\ m >= 5 /\ n \in 5..8 /\ c \in Nat /\ c >= 1 /\ c <= MaxMoney /\ 17 <= MaxMoney /\ MaxMoney \in Nat
        /\ pl.networkFee \in Nat /\ pl.networkFee > 0 /\ pl.serviceFee \in Nat /\ pl.serviceFee <= MaxMoney
        /\ m * c \in Nat /\ n * c \in Nat
        /\ m * c = n * c + pl.networkFee + pl.serviceFee /\ m * c + 17 <= MaxMoney

\* No total of an honest plan overflows, and what its cells lose is its fees.
LEMMA MoneyOfPlan ==
  ASSUME NEW pl, HonestPlan(pl), NEW m \in Nat, NEW d \in Nat, NEW n \in Nat, Sizes(pl, m, d, n)
  PROVE  Money(pl, m, n)
<1> DEFINE c == pl.profile.cellValue
           a == m * c
           b == n * c
           nf == pl.networkFee
           sf == pl.serviceFee
<1>1. /\ m >= 5 /\ n \in 5..8 /\ c \in 1..MaxMoney /\ c \in Nat
      /\ nf \in Nat /\ nf > 0 /\ sf \in Nat
      /\ a = b + nf + sf /\ a + 17 <= MaxMoney /\ a \in Nat /\ b \in Nat
  BY HonestNumbers DEF Sizes
<1>2. MaxMoney \in Nat BY MaxMoneyAssumption
<1> HIDE DEF a, b, c, nf, sf
<1>3. 17 <= MaxMoney /\ sf <= MaxMoney BY <1>1, <1>2
<1>4. c >= 1 /\ c <= MaxMoney BY <1>1, <1>2
<1> QED BY <1>1, <1>2, <1>3, <1>4 DEF Money, a, b, c, nf, sf

\* The public transaction parses: outpoints differ and its values are money.
LEMMA ProjectionOfPlan ==
  ASSUME NEW pl, HonestPlan(pl), NEW m \in Nat, NEW d \in Nat, NEW n \in Nat, Sizes(pl, m, d, n)
  PROVE  ProjectionParses(Public(pl))
<1> DEFINE st == Public(pl)
           inputs == Inputs(pl)
           bin == Bin(pl)
           outputs == Outputs(pl, bin)
           c == pl.profile.cellValue
           sf == pl.serviceFee
<1>1. st.inputs = inputs /\ st.outputs = outputs BY PublicOfPlan
<1>2. /\ Len(inputs) = m + d + 1 /\ DOMAIN inputs = 1..(m + d + 1)
      /\ \A k \in 1..(m + d + 1) : InputIs(pl, m, d, inputs[k], k)
  BY InputFields DEF Sizes
<1>3. PICK f \in Nat : f = FeeOutputs(pl) BY DEF FeeOutputs
<1>4. /\ Len(outputs) = n + 16 + f /\ DOMAIN outputs = 1..(n + 16 + f)
      /\ \A k \in 1..(n + 16 + f) : OutputIs(pl, n, bin, outputs[k], k)
  BY <1>3, OutputFields DEF Sizes
<1>5. c \in Nat /\ c <= MaxMoney /\ 17 <= MaxMoney /\ MaxMoney \in Nat /\ sf \in Nat /\ sf <= MaxMoney /\ m >= 5
  BY MoneyOfPlan DEF Money
<1> HIDE DEF st, inputs, bin, outputs, c, sf
<1>6. inputs # <<>> /\ outputs # <<>>
  <2>1. Len(inputs) # 0 /\ Len(outputs) # 0 BY <1>2, <1>4
  <2> QED BY <2>1
<1>7. ASSUME NEW k \in 1..(n + 16 + f)
      PROVE  /\ outputs[k].slot => outputs[k].lock[1] # "seal"
             /\ outputs[k].role \in OutputRoles /\ outputs[k].value \in 0..MaxMoney
  <2> DEFINE x == outputs[k]
  <2>1. OutputIs(pl, n, bin, x, k) BY <1>4
  <2> HIDE DEF x
  <2>2. x.slot => x.lock[1] # "seal" BY <2>1 DEF OutputIs
  <2>3. x.role \in {"private-backing", "carrier", "aggregator-fee", "boundary"} BY <2>1 DEF OutputIs
  <2>4. x.value \in {c, 1, sf, 2} BY <2>1 DEF OutputIs, c, sf
  <2>5. \A v \in {c, 1, sf, 2} : v \in 0..MaxMoney BY <1>5
  <2> QED BY <2>2, <2>3, <2>4, <2>5 DEF OutputRoles, x
<1>8. ASSUME NEW k \in 1..(m + d + 1)
      PROVE  inputs[k].role \in InputRoles /\ inputs[k].value \in 0..MaxMoney
  <2> DEFINE x == inputs[k]
  <2>1. InputIs(pl, m, d, x, k) BY <1>2
  <2> HIDE DEF x
  <2>2. x.role \in {"private-backing", "verifier-only"} BY <2>1 DEF InputIs
  <2>3. x.value \in {c, 0, 17} BY <2>1 DEF InputIs, c
  <2>4. \A v \in {c, 0, 17} : v \in 0..MaxMoney BY <1>5
  <2> QED BY <2>2, <2>3, <2>4 DEF InputRoles, x
<1>9. Distinct([k \in DOMAIN inputs |-> inputs[k].outpoint])
  <2>1. ASSUME NEW j \in 1..(m + d + 1), NEW k \in 1..(m + d + 1), inputs[j].outpoint = inputs[k].outpoint
        PROVE  j = k
    <3>1. /\ inputs[j].outpoint = <<pl.tag, OutpointAt(m, d, j)>>
          /\ inputs[k].outpoint = <<pl.tag, OutpointAt(m, d, k)>>
      BY <1>2 DEF InputIs
    <3>2. OutpointAt(m, d, j) = OutpointAt(m, d, k)
      <4>1. <<pl.tag, OutpointAt(m, d, j)>> = <<pl.tag, OutpointAt(m, d, k)>> BY <2>1, <3>1
      <4>2. \A u, v : <<pl.tag, u>> = <<pl.tag, v>> => u = v OBVIOUS
      <4> QED BY <4>1, <4>2
    <3>3. m >= 1 BY <1>5
    <3> QED BY <3>2, <3>3, OutpointsDistinct
  <2> QED BY <1>2, <2>1 DEF Distinct
<1> QED BY <1>1, <1>2, <1>4, <1>6, <1>7, <1>8, <1>9 DEF ProjectionParses, st

\* Every collection of the statement is a list.
LEMMA ListsOfPlan ==
  ASSUME NEW pl, HonestPlan(pl), NEW m \in Nat, NEW d \in Nat, NEW n \in Nat, Sizes(pl, m, d, n)
  PROVE  CollectionsAreLists(Public(pl))
<1>1. PublicNotesAre(pl, Public(pl)) /\ PublicCellsAre(pl, Public(pl), m, d, n) BY PublicItems
<1>2. Public(pl).inputs = Inputs(pl) /\ Public(pl).outputs = Outputs(pl, Bin(pl)) BY PublicOfPlan
<1>3. IsList(Inputs(pl)) BY InputFields
<1>4. IsList(Outputs(pl, Bin(pl))) BY OutputFields
<1> QED BY <1>1, <1>2, <1>3, <1>4 DEF PublicNotesAre, PublicCellsAre, CollectionsAreLists

\* The two notes of a side are told apart by their nonces.
LEMMA IdsDiffer ==
  ASSUME NEW pl
  PROVE  /\ OldId(pl, 1) # OldId(pl, 2) /\ NewId(pl, 1) # NewId(pl, 2)
         /\ PlanNullifier(pl, 1) # PlanNullifier(pl, 2)
<1>1. ASSUME OldNote(pl, 1) = OldNote(pl, 2) PROVE FALSE
  <2>1. OldNote(pl, 1).nonce = <<pl.tag, 1>> /\ OldNote(pl, 2).nonce = <<pl.tag, 2>> BY DEF OldNote, MakeNote
  <2>2. <<pl.tag, 1>> = <<pl.tag, 2>> BY <1>1, <2>1
  <2>3. <<pl.tag, 1>>[2] # <<pl.tag, 2>>[2] OBVIOUS
  <2> QED BY <2>2, <2>3
<1>2. ASSUME NewNote(pl, 1) = NewNote(pl, 2) PROVE FALSE
  <2>1. NewNote(pl, 1).nonce = <<pl.tag, 10 + 1>> /\ NewNote(pl, 2).nonce = <<pl.tag, 10 + 2>> BY DEF NewNote, MakeNote
  <2>2. <<pl.tag, 10 + 1>> = <<pl.tag, 10 + 2>> BY <1>2, <2>1
  <2>3. <<pl.tag, 10 + 1>>[2] # <<pl.tag, 10 + 2>>[2] OBVIOUS
  <2> QED BY <2>2, <2>3
<1>3. \A a, b : NoteCommitment(a) = NoteCommitment(b) => a = b
  <2> SUFFICES ASSUME NEW a, NEW b, NoteCommitment(a) = NoteCommitment(b) PROVE a = b OBVIOUS
  <2>1. NoteCommitment(a)[2] = a /\ NoteCommitment(b)[2] = b BY DEF NoteCommitment, Hash
  <2> QED BY <2>1
<1>4. OldId(pl, 1) # OldId(pl, 2) BY <1>1, <1>3 DEF OldId
<1>5. NewId(pl, 1) # NewId(pl, 2) BY <1>2, <1>3 DEF NewId
<1>6. \A j : PlanNullifier(pl, j)[2][2] = OldId(pl, j) BY DEF PlanNullifier, Nullifier, Hash
<1> QED BY <1>4, <1>5, <1>6

\* Numbers below 256 precede each other as their bytes do.
LEMMA SmallIndexesPrecede ==
  ASSUME NEW a \in Nat, NEW b \in Nat, a < b, b < 256
  PROVE  BytesPrecede(LittleEndian(a), LittleEndian(b))
<1>1. a % 256 = a /\ b % 256 = b OBVIOUS
<1>2. LittleEndian(a)[1] = a /\ LittleEndian(b)[1] = b BY <1>1 DEF LittleEndian
<1>3. \A j \in 1..1 - 1 : LittleEndian(a)[j] = LittleEndian(b)[j] OBVIOUS
<1>4. 1 \in 1..4 OBVIOUS
<1> QED BY <1>2, <1>3, <1>4 DEF BytesPrecede

\* The collections of the statement are in the order that the reader asks for.
LEMMA CanonicalOfPlan ==
  ASSUME NEW pl, HonestPlan(pl), NEW m \in Nat, NEW d \in Nat, NEW n \in Nat, Sizes(pl, m, d, n)
  PROVE  CollectionsCanonical(Public(pl))
<1> DEFINE st == Public(pl)
           exits == [k \in DOMAIN pl.newCells |-> pl.newCells[k].exit]
<1>1. PublicNotesAre(pl, st) /\ PublicCellsAre(pl, st, m, d, n) BY PublicItems
<1>2. Distinct(exits) /\ InputIndex(pl, Len(pl.cells)) < 256 BY DEF HonestPlan
<1>3. m >= 5 /\ n \in 5..8 BY MoneyOfPlan DEF Money
<1>4. DOMAIN exits = 1..n BY HonestNumbers DEF Sizes
<1>5. (m - 1) + d < 256
  <2>1. InputIndex(pl, Len(pl.cells)) = m - 1 + d BY DEF InputIndex, Sizes
  <2> QED BY <1>2, <2>1
<1> HIDE DEF st
<1>6. Distinct([k \in DOMAIN st.consumed |-> st.consumed[k].note])
  BY <1>1, IdsDiffer DEF PublicNotesAre, Distinct
<1>7. Distinct([k \in DOMAIN st.consumed |-> st.consumed[k].nullifier])
  BY <1>1, IdsDiffer DEF PublicNotesAre, Distinct
<1>8. Distinct([k \in DOMAIN st.created |-> st.created[k].note])
  BY <1>1, IdsDiffer DEF PublicNotesAre, Distinct
<1>9. \A k \in DOMAIN st.created : st.created[k].packet = k - 1 BY <1>1 DEF PublicNotesAre
<1>10. CellsAscend(st.consumedCells)
  <2>1. /\ Len(st.consumedCells) = m
        /\ \A k \in 1..m : st.consumedCells[k].index = IndexAt(m, d, k)
    BY <1>1 DEF PublicCellsAre
  <2>2. ASSUME NEW k \in 1..(m - 1)
        PROVE  BytesPrecede(LittleEndian(st.consumedCells[k].index), LittleEndian(st.consumedCells[k + 1].index))
    <3>1. k \in 1..m /\ k + 1 \in 1..m BY <1>3
    <3>2. st.consumedCells[k].index = IndexAt(m, d, k) /\ st.consumedCells[k + 1].index = IndexAt(m, d, k + 1)
      BY <2>1, <3>1
    <3>3. /\ IndexAt(m, d, k) \in Nat /\ IndexAt(m, d, k + 1) \in Nat
          /\ IndexAt(m, d, k) < IndexAt(m, d, k + 1) /\ IndexAt(m, d, k + 1) < 256
      BY <1>3, <1>5 DEF IndexAt
    <3> QED BY <3>2, <3>3, SmallIndexesPrecede
  <2> QED BY <2>1, <2>2 DEF CellsAscend
<1>11. CellsAscend(st.createdCells)
  <2>1. /\ Len(st.createdCells) = n
        /\ \A k \in 1..n : st.createdCells[k].index = k - 1
    BY <1>1 DEF PublicCellsAre
  <2>2. ASSUME NEW k \in 1..(n - 1)
        PROVE  BytesPrecede(LittleEndian(st.createdCells[k].index), LittleEndian(st.createdCells[k + 1].index))
    <3>1. k \in 1..n /\ k + 1 \in 1..n BY <1>3
    <3>2. st.createdCells[k].index = k - 1 /\ st.createdCells[k + 1].index = k
      <4>1. st.createdCells[k + 1].index = (k + 1) - 1 BY <2>1, <3>1
      <4> QED BY <2>1, <3>1, <4>1
    <3>3. k - 1 \in Nat /\ k \in Nat /\ k - 1 < k /\ k < 256 BY <1>3
    <3> QED BY <3>2, <3>3, SmallIndexesPrecede
  <2> QED BY <2>1, <2>2 DEF CellsAscend
<1>12. Distinct([k \in DOMAIN st.createdCells |-> st.createdCells[k].exit])
  <2>1. /\ DOMAIN st.createdCells = 1..n
        /\ \A k \in 1..n : st.createdCells[k].exit = ExitCommitment(pl.newCells[k].exit)
    BY <1>1 DEF PublicCellsAre
  <2>2. ASSUME NEW a, NEW b, ExitCommitment(a) = ExitCommitment(b) PROVE a = b
    <3>1. ExitCommitment(a)[2] = a /\ ExitCommitment(b)[2] = b BY DEF ExitCommitment, Hash
    <3> QED BY <2>2, <3>1
  <2>3. ASSUME NEW j \in 1..n, NEW k \in 1..n, st.createdCells[j].exit = st.createdCells[k].exit PROVE j = k
    <3>1. pl.newCells[j].exit = pl.newCells[k].exit BY <2>1, <2>2, <2>3
    <3> QED BY <1>2, <1>4, <3>1 DEF Distinct
  <2> QED BY <2>1, <2>3 DEF Distinct
<1>13. CollectionsCanonical(st)
  BY <1>6, <1>7, <1>8, <1>9, <1>10, <1>11, <1>12 DEF CollectionsCanonical
<1> QED BY <1>13 DEF st

LEMMA NotEmpty ==
  ASSUME NEW s, Len(s) # 0
  PROVE  s # <<>>
<1>1. Len(<<>>) = 0 OBVIOUS
<1> QED BY <1>1

\* The statement is one of a private transition.
LEMMA ModeOfPlan ==
  ASSUME NEW pl, HonestPlan(pl), NEW m \in Nat, NEW d \in Nat, NEW n \in Nat, Sizes(pl, m, d, n)
  PROVE  ModeIsPrivate(Public(pl))
<1> DEFINE st == Public(pl)
           outputs == Outputs(pl, Bin(pl))
<1>1. PublicNotesAre(pl, st) /\ PublicCellsAre(pl, st, m, d, n) BY PublicItems
<1>2. /\ st.mode = "private-transition" /\ st.scope = Scope(pl) /\ st.root = BinRoot(Bin(pl))
      /\ st.verifier = m + d /\ st.inputs = Inputs(pl) /\ st.outputs = outputs
  BY PublicOfPlan DEF Sizes
<1>3. m >= 5 /\ n \in 5..8 BY MoneyOfPlan DEF Money
<1>4. Len(Inputs(pl)) = m + d + 1 BY InputFields DEF Sizes
<1>5. PICK f \in Nat : f = FeeOutputs(pl) BY DEF FeeOutputs
<1>6. /\ DOMAIN outputs = 1..(n + 16 + f)
      /\ \A k \in 1..(n + 16 + f) : OutputIs(pl, n, Bin(pl), outputs[k], k)
  BY <1>5, OutputFields DEF Sizes
<1> HIDE DEF st, outputs
<1>7. st.scope # Absent /\ st.root # Absent
  <2>1. Absent[1] = "absent" BY DEF Absent
  <2>2. Scope(pl)[1] = "creation-scope" BY DEF Scope, CreationScope, Hash
  <2>3. BinRoot(Bin(pl))[1] = "packet-bin-root" BY DEF BinRoot, Hash
  <2>4. "absent" # "creation-scope" /\ "absent" # "packet-bin-root" OBVIOUS
  <2> QED BY <1>2, <2>1, <2>2, <2>3, <2>4
<1>8. st.consumed # <<>> /\ st.created # <<>> /\ st.consumedCells # <<>> /\ st.createdCells # <<>>
  <2>1. Len(st.consumed) = 2 /\ Len(st.created) = 2 /\ Len(st.consumedCells) = m /\ Len(st.createdCells) = n
    BY <1>1 DEF PublicNotesAre, PublicCellsAre
  <2>2. m # 0 /\ n # 0 BY <1>3
  <2>3. Len(st.consumed) # 0 /\ Len(st.created) # 0 BY <2>1
  <2>4. Len(st.consumedCells) # 0 /\ Len(st.createdCells) # 0 BY <2>1, <2>2
  <2> QED BY <2>3, <2>4, NotEmpty
<1>9. Has(st.inputs, st.verifier)
  <2>1. m + d \in 0..(m + d + 1) - 1 OBVIOUS
  <2> QED BY <1>2, <1>4, <2>1 DEF Has
<1>10. \A k \in DOMAIN st.outputs : st.outputs[k].role # "transparent-exit"
  <2>1. ASSUME NEW x, NEW k \in Nat, OutputIs(pl, n, Bin(pl), x, k) PROVE x.role # "transparent-exit"
    <3>1. x.role \in {"private-backing", "carrier", "aggregator-fee", "boundary"} BY <2>1 DEF OutputIs
    <3> QED BY <3>1
  <2>2. \A k \in 1..(n + 16 + f) : k \in Nat OBVIOUS
  <2> QED BY <1>2, <1>6, <2>1, <2>2
<1>11. \E k \in DOMAIN st.outputs : st.outputs[k].role = "carrier"
  <2>1. n + 1 \in 1..(n + 16 + f) /\ ~(n + 1 <= n) /\ n + 1 <= n + 15 OBVIOUS
  <2>2. OutputIs(pl, n, Bin(pl), outputs[n + 1], n + 1) BY <1>6, <2>1
  <2>3. outputs[n + 1].role = "carrier" BY <2>1, <2>2 DEF OutputIs
  <2> QED BY <1>2, <1>6, <2>1, <2>3
<1>12. ModeIsPrivate(st) BY <1>2, <1>7, <1>8, <1>9, <1>10, <1>11 DEF ModeIsPrivate
<1> QED BY <1>12 DEF st

\* The nonce and the scope of the skeleton are those of the statement.
LEMMA NonceOfPlan ==
  ASSUME NEW pl
  PROVE  Public(pl).nonce = BatchNonce(Public(pl))
<1> DEFINE sk == Skeleton(pl)
           st == Public(pl)
<1>1. /\ sk.network = "regtest" /\ sk.mode = "private-transition" /\ sk.profile = ProfileId(pl.profile)
      /\ sk.relation = pl.profile.relation /\ sk.program = "program" /\ sk.inputs = Inputs(pl)
      /\ sk.nonce = BatchNonce(sk)
  BY SkeletonOfPlan
<1>2. /\ st.network = "regtest" /\ st.mode = "private-transition" /\ st.profile = ProfileId(pl.profile)
      /\ st.relation = pl.profile.relation /\ st.program = "program" /\ st.inputs = Inputs(pl)
      /\ st.nonce = sk.nonce
  BY PublicOfPlan
<1> HIDE DEF sk, st
<1>3. BatchNonce(sk) = BatchNonce(st) BY <1>1, <1>2 DEF BatchNonce
<1> QED BY <1>1, <1>2, <1>3 DEF st

\* Its scope is derived from its own skeleton.
LEMMA ScopeOfPlan ==
  ASSUME NEW pl, HonestPlan(pl), NEW m \in Nat, NEW d \in Nat, NEW n \in Nat, Sizes(pl, m, d, n)
  PROVE  /\ \A k \in DOMAIN Public(pl).createdCells : Has(Public(pl).outputs, Public(pl).createdCells[k].index)
         /\ Public(pl).scope = CreationScope(Public(pl))
<1> DEFINE st == Public(pl)
           sk == Skeleton(pl)
           c == pl.profile.cellValue
<1>1. /\ DOMAIN st.createdCells = 1..n
      /\ \A k \in 1..n : st.createdCells[k].index = k - 1 /\ st.createdCells[k].profile = LockingProfile(pl.profile)
  <2>1. PublicCellsAre(pl, st, m, d, n) BY PublicItems
  <2> QED BY <2>1 DEF PublicCellsAre
<1>2. /\ DOMAIN sk.createdCells = 1..n
      /\ \A k \in 1..n : sk.createdCells[k].index = k - 1 /\ sk.createdCells[k].profile = LockingProfile(pl.profile)
  <2>1. DOMAIN pl.newCells = 1..n BY HonestNumbers DEF Sizes
  <2>2. sk.createdCells = [k \in DOMAIN pl.newCells |-> [index |-> k - 1, profile |-> LockingProfile(pl.profile)]]
    BY SkeletonOfPlan
  <2> HIDE DEF sk
  <2> QED BY <2>1, <2>2
<1>3. st.outputs = Outputs(pl, Bin(pl)) /\ sk.outputs = Outputs(pl, Absent) BY SkeletonOfPlan, PublicOfPlan
<1>4. PICK f \in Nat : f = FeeOutputs(pl) BY DEF FeeOutputs
<1>5. /\ Len(Outputs(pl, Bin(pl))) = n + 16 + f
      /\ \A k \in 1..n : Outputs(pl, Bin(pl))[k].value = c /\ Outputs(pl, Absent)[k].value = c
  <2>1. \A b : /\ Len(Outputs(pl, b)) = n + 16 + f /\ DOMAIN Outputs(pl, b) = 1..(n + 16 + f)
               /\ \A k \in DOMAIN Outputs(pl, b) : OutputIs(pl, n, b, Outputs(pl, b)[k], k)
    BY <1>4, OutputFields DEF Sizes
  <2>2. ASSUME NEW b, NEW k \in 1..n PROVE Outputs(pl, b)[k].value = c
    <3>1. k \in 1..(n + 16 + f) /\ k <= n OBVIOUS
    <3>2. OutputIs(pl, n, b, Outputs(pl, b)[k], k) BY <2>1, <3>1
    <3> QED BY <3>1, <3>2 DEF OutputIs
  <2> QED BY <2>1, <2>2
<1> HIDE DEF st, sk, c
<1>6. \A k \in 1..n : At(st.outputs, k - 1).value = c /\ At(sk.outputs, k - 1).value = c
  <2>1. \A k \in 1..n : (k - 1) + 1 = k OBVIOUS
  <2> QED BY <1>3, <1>5, <2>1 DEF At
<1>7. \A k \in DOMAIN st.createdCells : Has(st.outputs, st.createdCells[k].index)
  <2>1. \A k \in 1..n : k - 1 \in 0..(n + 16 + f) - 1 OBVIOUS
  <2> QED BY <1>1, <1>3, <1>5, <2>1 DEF Has
<1>8. Skeletons(st) = Skeletons(sk)
  <2>1. Skeletons(st) = [k \in 1..n |-> <<k - 1, c, LockingProfile(pl.profile)>>] BY <1>1, <1>6 DEF Skeletons
  <2>2. Skeletons(sk) = [k \in 1..n |-> <<k - 1, c, LockingProfile(pl.profile)>>] BY <1>2, <1>6 DEF Skeletons
  <2> QED BY <2>1, <2>2
<1>9. /\ sk.network = st.network /\ sk.mode = st.mode /\ sk.profile = st.profile /\ sk.nonce = st.nonce
      /\ sk.relation = st.relation /\ sk.program = st.program /\ sk.verifier = st.verifier /\ sk.inputs = st.inputs
      /\ st.scope = CreationScope(sk)
  <2>1. /\ sk.network = "regtest" /\ sk.mode = "private-transition" /\ sk.profile = ProfileId(pl.profile)
        /\ sk.relation = pl.profile.relation /\ sk.program = "program" /\ sk.inputs = Inputs(pl)
        /\ sk.verifier = Len(pl.cells) + pl.padding
    BY SkeletonOfPlan DEF sk
  <2>2. /\ st.network = "regtest" /\ st.mode = "private-transition" /\ st.profile = ProfileId(pl.profile)
        /\ st.relation = pl.profile.relation /\ st.program = "program" /\ st.inputs = Inputs(pl)
        /\ st.verifier = Len(pl.cells) + pl.padding /\ st.nonce = sk.nonce /\ st.scope = Scope(pl)
    BY PublicOfPlan DEF st, sk
  <2>3. Scope(pl) = CreationScope(sk) BY DEF Scope, sk
  <2> QED BY <2>1, <2>2, <2>3
<1>10. st.scope = CreationScope(st) BY <1>8, <1>9 DEF CreationScope
<1> QED BY <1>7, <1>10 DEF st

\* Its cells are the backing inputs and outputs.
LEMMA BackingOfPlan ==
  ASSUME NEW pl, HonestPlan(pl), NEW m \in Nat, NEW d \in Nat, NEW n \in Nat, Sizes(pl, m, d, n)
  PROVE  BackingCovered(Public(pl), pl.profile)
<1> DEFINE st == Public(pl)
           backing == Positions(st.inputs, "private-backing")
<1>1. PublicCellsAre(pl, st, m, d, n) BY PublicItems
<1>2. st.inputs = Inputs(pl) /\ st.outputs = Outputs(pl, Bin(pl)) BY PublicOfPlan
<1>3. PICK f \in Nat : f = FeeOutputs(pl) BY DEF FeeOutputs
<1>4. OutputRolesAre(st.outputs, Bin(pl), n, f)
  <2>1. HasOutputs(pl, n, f) BY <1>3 DEF Sizes, HasOutputs
  <2>2. OutputRolesAre(Outputs(pl, Bin(pl)), Bin(pl), n, f) BY <2>1, RolesOfOutputs
  <2> QED BY <1>2, <2>2
<1>5. InputRolesAre(st.inputs, m, d)
  <2>1. HasInputs(pl, m, d) BY DEF Sizes, HasInputs
  <2>2. InputRolesAre(Inputs(pl), m, d) BY <2>1, RolesOfInputs
  <2> QED BY <1>2, <2>2
<1> HIDE DEF st
<1>6. IsList(backing) /\ Len(backing) = m /\ \A j \in 1..m : backing[j] = IndexAt(m, d, j) BY <1>5 DEF InputRolesAre
<1> HIDE DEF backing
<1>7. IndexesOf(st.consumedCells) = backing
  <2>1. backing = [j \in 1..m |-> backing[j]] BY <1>6, IsListShape
  <2>2. backing = [j \in 1..m |-> IndexAt(m, d, j)] BY <1>6, <2>1
  <2>3. IndexesOf(st.consumedCells) = [j \in 1..m |-> IndexAt(m, d, j)] BY <1>1 DEF IndexesOf, PublicCellsAre
  <2> QED BY <2>2, <2>3
<1>8. IndexesOf(st.createdCells) = Positions(st.outputs, "private-backing")
  <2>1. Positions(st.outputs, "private-backing") = [j \in 1..n |-> j - 1] BY <1>4 DEF OutputRolesAre
  <2>2. IndexesOf(st.createdCells) = [j \in 1..n |-> j - 1] BY <1>1 DEF IndexesOf, PublicCellsAre
  <2> QED BY <2>1, <2>2
<1>9. \A x \in ToSet(st.consumedCells) \cup ToSet(st.createdCells) : x.profile = LockingProfile(pl.profile)
  BY <1>1 DEF PublicCellsAre, ToSet
<1>10. BackingCovered(st, pl.profile) BY <1>7, <1>8, <1>9 DEF BackingCovered, backing
<1> QED BY <1>10 DEF st

\* It has as many notes and cells as the profile asks for.
LEMMA MinimaOfPlan ==
  ASSUME NEW pl, HonestPlan(pl), NEW m \in Nat, NEW d \in Nat, NEW n \in Nat, Sizes(pl, m, d, n)
  PROVE  PrivacyMinima(Public(pl), pl.profile)
<1> DEFINE st == Public(pl)
           p == pl.profile
           c == p.cellValue
<1>1. PublicNotesAre(pl, st) /\ PublicCellsAre(pl, st, m, d, n) BY PublicItems
<1>2. st.inputs = Inputs(pl) /\ st.outputs = Outputs(pl, Bin(pl)) BY PublicOfPlan
<1>3. m >= 5 BY MoneyOfPlan DEF Money
<1>4. /\ p.minConsumedNotes = 2 /\ p.createdNotes = 2
      /\ p.minCellsPerNote \in Nat /\ p.surplus \in Nat /\ p.minConsumedCells \in Nat /\ p.minCreatedCells \in Nat
      /\ p.minConsumedCells >= 2 * p.minCellsPerNote + p.surplus
      /\ p.minCreatedCells >= 2 * p.minCellsPerNote + p.surplus
  BY DEF HonestPlan, ProfileParses, ConsumedFloor, CreatedFloor
<1>5. m >= p.minConsumedCells /\ n \in p.minCreatedCells..p.maxCreatedCells BY DEF HonestPlan, Sizes
<1>6. /\ Len(st.consumed) = 2 /\ Len(st.created) = 2 /\ Len(st.consumedCells) = m /\ Len(st.createdCells) = n
      /\ DOMAIN st.consumedCells = 1..m /\ DOMAIN st.createdCells = 1..n
      /\ \A k \in 1..m : st.consumedCells[k].index = IndexAt(m, d, k)
      /\ \A k \in 1..n : st.createdCells[k].index = k - 1
  BY <1>1 DEF PublicNotesAre, PublicCellsAre
<1>7. \A k \in 1..m : At(Inputs(pl), IndexAt(m, d, k)).value = c
  <2>1. \A k \in 1..(m + d + 1) : InputIs(pl, m, d, Inputs(pl)[k], k) BY InputFields DEF Sizes
  <2> SUFFICES ASSUME NEW k \in 1..m PROVE At(Inputs(pl), IndexAt(m, d, k)).value = c OBVIOUS
  <2>2. PICK at \in 1..(m + d + 1) : at = IndexAt(m, d, k) + 1 /\ (at < m \/ at = m + d)
    <3>1. IndexAt(m, d, k) + 1 \in 1..(m + d + 1) /\ (IndexAt(m, d, k) + 1 < m \/ IndexAt(m, d, k) + 1 = m + d)
      BY <1>3 DEF IndexAt
    <3> QED BY <3>1
  <2>3. InputIs(pl, m, d, Inputs(pl)[at], at) BY <2>1
  <2>4. Inputs(pl)[at].value = c BY <2>2, <2>3 DEF InputIs
  <2> QED BY <2>2, <2>4 DEF At
<1>8. \A k \in 1..n : At(Outputs(pl, Bin(pl)), k - 1).value = c
  <2>1. PICK f \in Nat : f = FeeOutputs(pl) BY DEF FeeOutputs
  <2>2. /\ DOMAIN Outputs(pl, Bin(pl)) = 1..(n + 16 + f)
        /\ \A k \in 1..(n + 16 + f) : OutputIs(pl, n, Bin(pl), Outputs(pl, Bin(pl))[k], k)
    BY <2>1, OutputFields DEF Sizes
  <2> SUFFICES ASSUME NEW k \in 1..n PROVE At(Outputs(pl, Bin(pl)), k - 1).value = c OBVIOUS
  <2>3. k \in 1..(n + 16 + f) /\ k <= n /\ (k - 1) + 1 = k BY <2>1
  <2>4. OutputIs(pl, n, Bin(pl), Outputs(pl, Bin(pl))[k], k) BY <2>2, <2>3
  <2>5. Outputs(pl, Bin(pl))[k].value = c BY <2>3, <2>4 DEF OutputIs
  <2> QED BY <2>3, <2>5 DEF At
<1> HIDE DEF st
<1>9. /\ \A k \in DOMAIN st.consumedCells : At(st.inputs, st.consumedCells[k].index).value = c
      /\ \A k \in DOMAIN st.createdCells : At(st.outputs, st.createdCells[k].index).value = c
  BY <1>2, <1>6, <1>7, <1>8
<1>10. /\ Len(st.consumed) >= p.minConsumedNotes /\ Len(st.created) = p.createdNotes
       /\ Len(st.consumedCells) >= p.minConsumedCells
       /\ Len(st.createdCells) \in p.minCreatedCells..p.maxCreatedCells
  BY <1>4, <1>5, <1>6
<1>11. /\ Len(st.consumedCells) >= Len(st.consumed) * p.minCellsPerNote + p.surplus
       /\ Len(st.createdCells) >= Len(st.created) * p.minCellsPerNote + p.surplus
  <2>1. PICK a \in Nat, b \in Nat, u \in Nat, v \in Nat :
          a = p.minCellsPerNote /\ b = p.surplus /\ u = p.minConsumedCells /\ v = p.minCreatedCells
    BY <1>4
  <2>2. m >= u /\ n >= v BY <1>5, <2>1
  <2>3. u >= 2 * a + b /\ v >= 2 * a + b BY <1>4, <2>1
  <2>4. m >= 2 * a + b /\ n >= 2 * a + b BY <2>2, <2>3
  <2> QED BY <1>6, <2>1, <2>4
<1>12. PrivacyMinima(st, p) BY <1>9, <1>10, <1>11 DEF PrivacyMinima
<1> QED BY <1>12 DEF st

\* Its totals are the sums of its inputs and outputs, and the cells that go pay both fees.
LEMMA TotalsOfPlan ==
  ASSUME NEW pl, HonestPlan(pl), NEW m \in Nat, NEW d \in Nat, NEW n \in Nat, Sizes(pl, m, d, n)
  PROVE  TotalsHold(Public(pl)) /\ GapPaysFees(Public(pl), pl.profile)
<1> DEFINE st == Public(pl)
           p == pl.profile
           c == p.cellValue
           u == m * c
           v == n * c
           nf == pl.networkFee
           sf == pl.serviceFee
<1>1. PublicCellsAre(pl, st, m, d, n) BY PublicItems
<1>2. /\ st.inputs = Inputs(pl) /\ st.outputs = Outputs(pl, Bin(pl))
      /\ st.totalIn = Sum(Inputs(pl), LAMBDA x : x.value)
      /\ st.totalOut = Sum(Outputs(pl, Bin(pl)), LAMBDA x : x.value)
      /\ st.networkFee = nf /\ st.serviceFee = sf
  BY PublicOfPlan
<1>3. /\ m >= 5 /\ n \in 5..8 /\ c \in Nat /\ c >= 1 /\ MaxMoney \in Nat
      /\ nf \in Nat /\ nf > 0 /\ sf \in Nat /\ u \in Nat /\ v \in Nat
      /\ u = v + nf + sf /\ u + 17 <= MaxMoney
  BY MoneyOfPlan DEF Money
<1>4. /\ IsList(pl.cells) /\ IsList(pl.newCells) /\ p.carrierCount = 15 /\ pl.padding \in Nat
      /\ \A k \in DOMAIN pl.cells : pl.cells[k].sats = c
      /\ \A k \in DOMAIN pl.newCells : pl.newCells[k].sats = c
  BY DEF HonestPlan, ProfileParses, UniformCells
<1>5. InputTotal(st) = u + 17
  <2>1. Len(pl.cells) >= 1 /\ Len(pl.cells) = m BY <1>3 DEF Sizes
  <2>3. c \in Int BY <1>3
  <2> HIDE DEF c
  <2>2. Sum(Inputs(pl), LAMBDA x : x.value) = Len(pl.cells) * c + 17 BY <1>4, <2>1, <2>3, InputsTotal
  <2> QED BY <1>2, <2>1, <2>2 DEF InputTotal
<1>6. OutputTotal(st) = v + 17 + sf
  <2>1. Len(pl.newCells) = n BY DEF Sizes
  <2>3. c \in Int /\ pl.serviceFee \in Nat BY <1>3
  <2> HIDE DEF c
  <2>2. Sum(Outputs(pl, Bin(pl)), LAMBDA x : x.value) = Len(pl.newCells) * c + 17 + pl.serviceFee
    BY <1>4, <2>3, OutputsTotal
  <2> QED BY <1>2, <2>1, <2>2 DEF OutputTotal
<1>7. st.totalIn = InputTotal(st) /\ st.totalOut = OutputTotal(st) BY <1>2 DEF InputTotal, OutputTotal
<1>8. Len(st.consumedCells) = m /\ Len(st.createdCells) = n BY <1>1 DEF PublicCellsAre
<1>9. m - n >= 0 /\ (m - n) * c = nf + sf
  <2>1. PICK g \in Int : g = m - n OBVIOUS
  <2>2. m = n + g BY <2>1
  <2>3. (n + g) * c = n * c + g * c BY <1>3
  <2>4. g * c = nf + sf /\ g * c \in Int
    <3>1. g * c \in Int BY <1>3
    <3>2. v + g * c = v + nf + sf BY <1>3, <2>2, <2>3
    <3>3. PICK e \in Int : e = g * c BY <3>1
    <3>4. v + e = v + nf + sf BY <3>2, <3>3
    <3> HIDE DEF v, nf, sf
    <3>5. e = nf + sf BY <1>3, <3>4
    <3> QED BY <3>3, <3>5
  <2>5. g >= 0
    <3>1. SUFFICES ASSUME g < 0 PROVE FALSE BY <2>1
    <3>2. g * c <= 0 BY <1>3, <2>1, <3>1
    <3> QED BY <1>3, <2>4, <3>2
  <2> QED BY <2>1, <2>4, <2>5
<1> HIDE DEF st, p, c, u, v, nf, sf
<1>10. TotalsHold(st)
  <2>1. u + 17 \in Int /\ v + 17 + sf \in Int /\ ~(u + 17 > MaxMoney) /\ ~(v + 17 + sf > MaxMoney) BY <1>3
  <2>2. nf \in 1..(u + 17) /\ (u + 17) - nf = v + 17 + sf BY <1>3
  <2> QED BY <1>2, <1>5, <1>6, <1>7, <2>1, <2>2 DEF TotalsHold, Overflows
<1>11. GapPaysFees(st, p)
  <2>1. ~(nf + sf > MaxMoney) BY <1>3
  <2> QED BY <1>2, <1>8, <1>9, <2>1 DEF GapPaysFees, Overflows, c
<1> QED BY <1>10, <1>11 DEF st, p

\* Its service fee is the flat fee of each note, paid to the fee output.
LEMMA ServiceFeeOfPlan ==
  ASSUME NEW pl, HonestPlan(pl), NEW m \in Nat, NEW d \in Nat, NEW n \in Nat, Sizes(pl, m, d, n)
  PROVE  ServiceFeeHolds(Public(pl), pl.profile)
<1> DEFINE st == Public(pl)
           p == pl.profile
           sf == pl.serviceFee
           outputs == Outputs(pl, Bin(pl))
<1>1. Len(st.consumed) = 2
  <2>1. PublicNotesAre(pl, st) BY PublicItems
  <2> QED BY <2>1 DEF PublicNotesAre
<1>2. /\ st.outputs = outputs /\ st.serviceFee = sf
      /\ st.feeOutput = IF sf > 0 THEN Len(pl.newCells) + p.carrierCount ELSE NoOutput
  BY PublicOfPlan
<1>3. sf = 2 * p.flatFee /\ p.carrierCount = 15 BY DEF HonestPlan, ProfileParses
<1>4. p.flatFee \in Nat
  <2>1. p.flatFee \in 0..MaxMoney BY DEF HonestPlan, ProfileParses
  <2> QED BY <2>1, MaxMoneyAssumption
<1>5. sf \in Nat /\ IF p.flat THEN sf > 0 ELSE sf = 0 BY HonestNumbers
<1>6. PICK f \in Nat : f = FeeOutputs(pl) BY DEF FeeOutputs
<1>7. f = IF sf > 0 THEN 1 ELSE 0 BY <1>6 DEF FeeOutputs
<1>8. Positions(outputs, "aggregator-fee") = [j \in 1..f |-> n + 15]
  <2>1. HasOutputs(pl, n, f) BY <1>6 DEF Sizes, HasOutputs
  <2>2. OutputRolesAre(outputs, Bin(pl), n, f) BY <2>1, RolesOfOutputs
  <2> QED BY <2>2 DEF OutputRolesAre
<1>9. /\ DOMAIN outputs = 1..(n + 16 + f)
      /\ \A k \in 1..(n + 16 + f) : OutputIs(pl, n, Bin(pl), outputs[k], k)
  BY <1>6, OutputFields DEF Sizes
<1>10. Len(pl.newCells) = n BY DEF Sizes
<1> HIDE DEF st, outputs
<1>11. CASE p.flat
  <2>1. sf > 0 /\ f = 1 BY <1>5, <1>7, <1>11
  <2>2. st.feeOutput = n + 15 BY <1>2, <1>3, <1>10, <2>1
  <2>3. Positions(outputs, "aggregator-fee") = <<n + 15>>
    <3>1. [j \in 1..1 |-> n + 15] = <<n + 15>> OBVIOUS
    <3> QED BY <1>8, <2>1, <3>1
  <2>4. At(outputs, n + 15).value = sf
    <3>1. n + 16 \in 1..(n + 16 + f) /\ (n + 15) + 1 = n + 16 OBVIOUS
    <3>2. OutputIs(pl, n, Bin(pl), outputs[n + 16], n + 16) BY <1>9, <3>1
    <3>3. ~(n + 16 <= n) /\ ~(n + 16 <= n + 15) OBVIOUS
    <3>4. outputs[n + 16].value = sf BY <2>1, <3>2, <3>3 DEF OutputIs
    <3> QED BY <3>1, <3>4 DEF At
  <2>5. sf = p.flatFee * 2 BY <1>3, <1>4
  <2> HIDE DEF sf
  <2>6. ServiceFeeHolds(st, p) BY <1>1, <1>2, <1>11, <2>2, <2>3, <2>4, <2>5 DEF ServiceFeeHolds
  <2> QED BY <2>6 DEF st
<1>12. CASE ~p.flat
  <2>1. sf = 0 /\ f = 0 BY <1>5, <1>7, <1>12
  <2>2. st.feeOutput = NoOutput BY <1>2, <2>1
  <2>3. Positions(outputs, "aggregator-fee") = <<>>
    <3>1. [j \in 1..0 |-> n + 15] = <<>> OBVIOUS
    <3> QED BY <1>8, <2>1, <3>1
  <2> HIDE DEF sf
  <2>4. ServiceFeeHolds(st, p) BY <1>2, <1>12, <2>1, <2>2, <2>3 DEF ServiceFeeHolds
  <2> QED BY <2>4 DEF st
<1> QED BY <1>11, <1>12

\* Its carriers and boundary are paid for by the last input.
LEMMA CollateralOfPlan ==
  ASSUME NEW pl, HonestPlan(pl), NEW m \in Nat, NEW d \in Nat, NEW n \in Nat, Sizes(pl, m, d, n)
  PROVE  CollateralPasses(Public(pl)) /\ CarriageHolds(Public(pl), pl.profile)
<1> DEFINE st == Public(pl)
           others == OfRole(st.inputs, "verifier-only")
           carriers == OfRole(st.outputs, "carrier")
           boundary == OfRole(st.outputs, "boundary")
           joined == carriers \o boundary
           values == [k \in DOMAIN others |-> others[k].value]
           leaving == [k \in DOMAIN joined |-> joined[k].value]
<1>1. st.inputs = Inputs(pl) /\ st.outputs = Outputs(pl, Bin(pl)) BY PublicOfPlan
<1>2. PICK f \in Nat : f = FeeOutputs(pl) BY DEF FeeOutputs
<1>3. OutputRolesAre(st.outputs, Bin(pl), n, f)
  <2>1. HasOutputs(pl, n, f) BY <1>2 DEF Sizes, HasOutputs
  <2>2. OutputRolesAre(Outputs(pl, Bin(pl)), Bin(pl), n, f) BY <2>1, RolesOfOutputs
  <2> QED BY <1>1, <2>2
<1>4. InputRolesAre(st.inputs, m, d)
  <2>1. HasInputs(pl, m, d) BY DEF Sizes, HasInputs
  <2>2. InputRolesAre(Inputs(pl), m, d) BY <2>1, RolesOfInputs
  <2> QED BY <1>1, <2>2
<1>5. PublicNotesAre(pl, st) /\ PublicCellsAre(pl, st, m, d, n) BY PublicItems
<1>6. n \in 5..8 BY MoneyOfPlan DEF Money
<1>7. pl.profile.packetCount = 2 /\ pl.profile.maxRecoveryCells = 8 /\ pl.profile.carrierCount = 15
  BY DEF HonestPlan, ProfileParses
<1> HIDE DEF st
<1>8. DOMAIN others = 1..(d + 1) /\ \A j \in 1..(d + 1) : others[j].value = IF j <= d THEN 0 ELSE 17
  BY <1>4 DEF InputRolesAre
<1>9. /\ IsList(carriers) /\ Len(carriers) = 15 /\ DOMAIN carriers = 1..15
      /\ \A j \in 1..15 : carriers[j].value = 1
      /\ IsList(boundary) /\ Len(boundary) = 1 /\ DOMAIN boundary = 1..1 /\ boundary[1].value = 2
  BY <1>3 DEF OutputRolesAre
<1> HIDE DEF others, carriers, boundary
<1>10. /\ DOMAIN joined = 1..(15 + 1)
       /\ \A k \in 1..(15 + 1) : joined[k].value = IF k <= 15 THEN 1 ELSE 2
  <2>1. /\ DOMAIN (carriers \o boundary) = 1..(Len(carriers) + Len(boundary))
        /\ \A k \in 1..(Len(carriers) + Len(boundary)) :
              (carriers \o boundary)[k] = IF k <= Len(carriers) THEN carriers[k] ELSE boundary[k - Len(carriers)]
    BY <1>9, JoinedLists
  <2>2. /\ DOMAIN joined = 1..(15 + 1)
        /\ \A k \in 1..(15 + 1) : joined[k] = IF k <= 15 THEN carriers[k] ELSE boundary[k - 15]
    BY <1>9, <2>1
  <2> HIDE DEF joined
  <2> SUFFICES ASSUME NEW k \in 1..(15 + 1) PROVE joined[k].value = IF k <= 15 THEN 1 ELSE 2 BY <2>2
  <2>3. CASE k <= 15
    <3>1. k \in 1..15 BY <2>3
    <3> QED BY <1>9, <2>2, <2>3, <3>1
  <2>4. CASE ~(k <= 15)
    <3>1. k - 15 = 1 BY <2>4
    <3> QED BY <1>9, <2>2, <2>4, <3>1
  <2> QED BY <2>3, <2>4
<1> HIDE DEF joined
<1>11. TotalOf(values) = 17
  <2>1. \A j \in 1..(d + 1) : values[j] = IF j <= d THEN 0 ELSE 17 BY <1>8
  <2>2. values = [j \in 1..(d + 1) |-> values[j]] BY <1>8
  <2> HIDE DEF values
  <2>3. values \in [1..(d + 1) -> Int]
    <3>1. \A j \in 1..(d + 1) : values[j] \in Int BY <2>1
    <3> QED BY <2>2, <3>1
  <2>4. TwoRuns(values, d, 0, 1, 17) BY <2>1, <2>3 DEF TwoRuns
  <2>5. TotalOf(values) = d * 0 + 1 * 17 BY <2>4, TotalOfTwoRuns
  <2> QED BY <2>5
<1>12. TotalOf(leaving) = 17
  <2>1. \A j \in 1..(15 + 1) : leaving[j] = IF j <= 15 THEN 1 ELSE 2 BY <1>10
  <2>2. leaving = [j \in 1..(15 + 1) |-> leaving[j]] BY <1>10
  <2> HIDE DEF leaving
  <2>3. leaving \in [1..(15 + 1) -> Int]
    <3>1. \A j \in 1..(15 + 1) : leaving[j] \in Int BY <2>1
    <3> QED BY <2>2, <3>1
  <2>4. TwoRuns(leaving, 15, 1, 1, 2) BY <2>1, <2>3 DEF TwoRuns
  <2>5. TotalOf(leaving) = 15 * 1 + 1 * 2 BY <2>4, TotalOfTwoRuns
  <2> QED BY <2>5
<1>13. CollateralPasses(st)
  <2>1. Sum(others, LAMBDA x : x.value) = 17 BY <1>11 DEF Sum
  <2>2. Sum(joined, LAMBDA x : x.value) = 17 BY <1>12 DEF Sum
  <2>3. Len(boundary) <= 1 BY <1>9
  <2>4. Sum(others, LAMBDA x : x.value) = Sum(joined, LAMBDA x : x.value) BY <2>1, <2>2
  <2>5. others = OfRole(st.inputs, "verifier-only") BY DEF others
  <2>6. boundary = OfRole(st.outputs, "boundary") BY DEF boundary
  <2>7. joined = OfRole(st.outputs, "carrier") \o OfRole(st.outputs, "boundary") BY DEF joined, carriers, boundary
  <2> QED BY <2>3, <2>4, <2>5, <2>6, <2>7 DEF CollateralPasses
<1>14. CarriageHolds(st, pl.profile)
  <2>1. Len(st.created) = 2 /\ Len(st.createdCells) = n BY <1>5 DEF PublicNotesAre, PublicCellsAre
  <2>2. n <= 8 BY <1>6
  <2> QED BY <1>7, <1>9, <2>1, <2>2 DEF CarriageHolds, carriers
<1> QED BY <1>13, <1>14 DEF st

\* Its cells are locked by seals of the profile.
LEMMA SealsOfPlan ==
  ASSUME NEW pl, HonestPlan(pl), NEW m \in Nat, NEW d \in Nat, NEW n \in Nat, Sizes(pl, m, d, n)
  PROVE  SealsHold(Public(pl), pl.profile)
<1> DEFINE inputs == Inputs(pl)
           outputs == Outputs(pl, Bin(pl))
<1>1. Public(pl).inputs = inputs /\ Public(pl).outputs = outputs BY PublicOfPlan
<1>2. /\ DOMAIN inputs = 1..(m + d + 1)
      /\ \A k \in 1..(m + d + 1) : InputIs(pl, m, d, inputs[k], k)
  BY InputFields DEF Sizes
<1>3. PICK f \in Nat : f = FeeOutputs(pl) BY DEF FeeOutputs
<1>4. /\ DOMAIN outputs = 1..(n + 16 + f)
      /\ \A k \in 1..(n + 16 + f) : OutputIs(pl, n, Bin(pl), outputs[k], k)
  BY <1>3, OutputFields DEF Sizes
<1> HIDE DEF inputs, outputs
<1>5. "private-backing" # "carrier" /\ "private-backing" # "aggregator-fee" /\ "private-backing" # "boundary"
      /\ "private-backing" # "verifier-only"
  OBVIOUS
<1>6. ASSUME NEW k \in DOMAIN outputs, outputs[k].role = "private-backing" PROVE IsSeal(pl.profile, outputs[k].lock)
  <2>1. OutputIs(pl, n, Bin(pl), outputs[k], k) BY <1>4
  <2>2. k <= n BY <1>5, <1>6, <2>1 DEF OutputIs
  <2>3. outputs[k].lock = Seal(pl.profile, Hash("sha256", pl.newCells[k].exit)) BY <2>1, <2>2 DEF OutputIs
  <2> QED BY <2>3 DEF Seal, IsSeal
<1>7. ASSUME NEW k \in DOMAIN inputs, inputs[k].role = "private-backing" PROVE IsSeal(pl.profile, inputs[k].lock)
  <2>1. InputIs(pl, m, d, inputs[k], k) BY <1>2
  <2> QED BY <1>5, <1>7, <2>1 DEF InputIs
<1> QED BY <1>1, <1>6, <1>7 DEF SealsHold

\* The statement of an honest plan is read and valid.
LEMMA StatementOfPlan ==
  ASSUME NEW pl, HonestPlan(pl), NEW m \in Nat, NEW d \in Nat, NEW n \in Nat, Sizes(pl, m, d, n)
  PROVE  StatementParses(Public(pl), pl.profile)
<1> DEFINE st == Public(pl)
           p == pl.profile
<1>1. st.network = "regtest" /\ st.profile = ProfileId(p) /\ st.relation = p.relation BY PublicOfPlan
<1>2. CollectionsAreLists(st) BY ListsOfPlan
<1>3. ProjectionParses(st) BY ProjectionOfPlan
<1>4. CollectionsCanonical(st) BY CanonicalOfPlan
<1>5. ModeIsPrivate(st) BY ModeOfPlan
<1>6. st.nonce = BatchNonce(st) BY NonceOfPlan
<1>7. /\ \A k \in DOMAIN st.createdCells : Has(st.outputs, st.createdCells[k].index)
      /\ st.scope = CreationScope(st)
  BY ScopeOfPlan
<1>8. BackingCovered(st, p) BY BackingOfPlan
<1>9. PrivacyMinima(st, p) BY MinimaOfPlan
<1>10. TotalsHold(st) /\ GapPaysFees(st, p) BY TotalsOfPlan
<1>11. ServiceFeeHolds(st, p) BY ServiceFeeOfPlan
<1>12. CollateralPasses(st) /\ CarriageHolds(st, p) BY CollateralOfPlan
<1>13. SealsHold(st, p) BY SealsOfPlan
<1> HIDE DEF st, p
<1>14. ValidStatement(st, p)
  BY <1>1, <1>5, <1>6, <1>7, <1>8, <1>9, <1>10, <1>11, <1>12, <1>13 DEF ValidStatement, IdentityHolds
<1>15. StatementParses(st, p) BY <1>1, <1>2, <1>3, <1>4, <1>14 DEF StatementParses, Networks
<1> QED BY <1>15 DEF st, p

(***************************************************************************)
(* Checks that pass.                                                       *)
(***************************************************************************)

\* A list of checks of which none fails.
Passes(checks) == IsList(checks) /\ AllPass(checks)

\* Lists of checks that pass: by items, joined, flattened and of a fixed length.
LEMMA PassingChecks ==
  ASSUME NEW checks
  PROVE  Passes(checks) <=> ChecksOf(checks, {})
BY DEF Passes, AllPass, ChecksOf

LEMMA PassingJoined ==
  ASSUME NEW a, NEW b, Passes(a), Passes(b)
  PROVE  Passes(a \o b)
<1>1. ChecksOf(a, {}) /\ ChecksOf(b, {}) BY PassingChecks
<1>2. ChecksOf(a \o b, {}) BY <1>1, JoinedChecks
<1> QED BY <1>2, PassingChecks

LEMMA PassingFlat ==
  ASSUME NEW n \in Nat, NEW lists, lists = [k \in 1..n |-> lists[k]], \A k \in 1..n : Passes(lists[k])
  PROVE  Passes(FlattenSeq(lists))
<1>1. \A k \in 1..n : ChecksOf(lists[k], {}) BY PassingChecks
<1>2. ChecksOf(FlattenSeq(lists), {}) BY <1>1, FlattenedChecks
<1> QED BY <1>2, PassingChecks

LEMMA PassingOne ==
  ASSUME NEW c, ~c.fails
  PROVE  Passes(<<c>>)
BY OneCheck, PassingChecks

LEMMA PassingTwo ==
  ASSUME NEW c, NEW d, ~c.fails, ~d.fails
  PROVE  Passes(<<c, d>>)
BY TwoChecks, PassingChecks

LEMMA PassingThree ==
  ASSUME NEW c, NEW d, NEW e, ~c.fails, ~d.fails, ~e.fails
  PROVE  Passes(<<c, d, e>>)
BY ThreeChecks, PassingChecks

LEMMA PassingJoinedThree ==
  ASSUME NEW a, NEW b, NEW c, Passes(a), Passes(b), Passes(c)
  PROVE  Passes(a \o b \o c)
<1>1. Passes(a \o b) BY PassingJoined
<1> QED BY <1>1, PassingJoined

LEMMA PassingJoinedFour ==
  ASSUME NEW a, NEW b, NEW c, NEW d, Passes(a), Passes(b), Passes(c), Passes(d)
  PROVE  Passes(a \o b \o c \o d)
<1>1. Passes(a \o b) BY PassingJoined
<1>2. Passes(a \o b \o c) BY <1>1, PassingJoined
<1> QED BY <1>2, PassingJoined

LEMMA PassingFour ==
  ASSUME NEW c, NEW d, NEW e, NEW f, ~c.fails, ~d.fails, ~e.fails, ~f.fails
  PROVE  Passes(<<c, d, e, f>>)
BY FourChecks, PassingChecks

LEMMA PassingFive ==
  ASSUME NEW c, NEW d, NEW e, NEW f, NEW g, ~c.fails, ~d.fails, ~e.fails, ~f.fails, ~g.fails
  PROVE  Passes(<<c, d, e, f, g>>)
BY FiveChecks, PassingChecks

LEMMA PassingSix ==
  ASSUME NEW c, NEW d, NEW e, NEW f, NEW g, NEW h, ~c.fails, ~d.fails, ~e.fails, ~f.fails, ~g.fails, ~h.fails
  PROVE  Passes(<<c, d, e, f, g, h>>)
BY SixChecks, PassingChecks

LEMMA PassingSeven ==
  ASSUME NEW c, NEW d, NEW e, NEW f, NEW g, NEW h, NEW j,
         ~c.fails, ~d.fails, ~e.fails, ~f.fails, ~g.fails, ~h.fails, ~j.fails
  PROVE  Passes(<<c, d, e, f, g, h, j>>)
<1> DEFINE t == <<c, d, e, f, g, h, j>>
<1>1. IsList(t)
  <2>1. t \in Seq({c, d, e, f, g, h, j}) OBVIOUS
  <2> QED BY <2>1, ListOfListIsList
<1>2. /\ DOMAIN t = {1, 2, 3, 4, 5, 6, 7}
      /\ t[1] = c /\ t[2] = d /\ t[3] = e /\ t[4] = f /\ t[5] = g /\ t[6] = h /\ t[7] = j
  OBVIOUS
<1> HIDE DEF t
<1>3. \A k \in DOMAIN t : ~t[k].fails BY <1>2
<1>4. Passes(t) BY <1>1, <1>3 DEF Passes, AllPass
<1> QED BY <1>4 DEF t

LEMMA PassingNine ==
  ASSUME NEW c, NEW d, NEW e, NEW f, NEW g, NEW h, NEW j, NEW k, NEW l,
         ~c.fails, ~d.fails, ~e.fails, ~f.fails, ~g.fails, ~h.fails, ~j.fails, ~k.fails, ~l.fails
  PROVE  Passes(<<c, d, e, f, g, h, j, k, l>>)
<1> DEFINE t == <<c, d, e, f, g, h, j, k, l>>
<1>1. IsList(t)
  <2>1. t \in Seq({c, d, e, f, g, h, j, k, l}) OBVIOUS
  <2> QED BY <2>1, ListOfListIsList
<1>2. /\ DOMAIN t = {1, 2, 3, 4, 5, 6, 7, 8, 9}
      /\ t[1] = c /\ t[2] = d /\ t[3] = e /\ t[4] = f /\ t[5] = g /\ t[6] = h
      /\ t[7] = j /\ t[8] = k /\ t[9] = l
  OBVIOUS
<1> HIDE DEF t
<1>3. \A x \in DOMAIN t : ~t[x].fails BY <1>2
<1>4. Passes(t) BY <1>1, <1>3 DEF Passes, AllPass
<1> QED BY <1>4 DEF t

\* The checks of a count that is right pass; a list that passes leaves the verdict to the next.
LEMMA PassingCount ==
  ASSUME NEW a \in Nat, NEW b \in Nat, a = b, NEW stage, NEW missing, NEW extra
  PROVE  Passes(CountChecks(a, b, stage, missing, extra))
<1> DEFINE c == Check(a < b, stage, missing)
           d == Check(a > b, stage, extra)
<1>0. ~(a < b) /\ ~(a > b) OBVIOUS
<1>1. ~c.fails /\ ~d.fails
  <2>1. c.fails = (a < b) /\ d.fails = (a > b) BY DEF Check
  <2> HIDE DEF c, d
  <2> QED BY <1>0, <2>1
<1>2. CountChecks(a, b, stage, missing, extra) = <<c, d>> BY DEF CountChecks
<1> HIDE DEF c, d
<1> QED BY <1>1, <1>2, PassingTwo

LEMMA PassingFirst ==
  ASSUME NEW checks, Passes(checks), NEW later
  PROVE  FirstFailure(checks, later) = later
<1>1. ChecksOf(checks, {}) BY PassingChecks
<1>2. AllPass(checks) BY DEF Passes
<1> QED BY <1>1, <1>2, FirstFailureStages

(***************************************************************************)
(* A note and the cells it owns.                                           *)
(***************************************************************************)

\* The note n of a side: its cells, opened by their owners, are the bundle of the witness
\* w, and the cells supplied for the side say which of them are its own.
NoteOfSide(cells, c, openings, n, w, supplied) ==
    /\ c \in 1..MaxMoney /\ IsList(cells)
    /\ \A k \in DOMAIN cells : openings[k].value = c /\ openings[k].slot \in Int
    /\ \A j, k \in DOMAIN cells : j < k => openings[j].slot < openings[k].slot
    /\ \A k \in DOMAIN cells : cells[k].note = n => openings[k].scope = w.bundle.scope
    /\ w.bundle = MakeBundle(w.bundle.scope, Own(cells, openings, n))
    /\ CellsOfNote(cells, n) # <<>>
    /\ w.note.value = Len(CellsOfNote(cells, n)) * c /\ w.note.value \in 1..MaxMoney
    /\ IsList(supplied) /\ DOMAIN supplied = DOMAIN cells
    /\ \A k \in DOMAIN cells : /\ supplied[k].opening = openings[k]
                               /\ (supplied[k].id = w.id) <=> (cells[k].note = n)

\* The cells of a note, as places in the list of cells.
LEMMA OwnPicks ==
  ASSUME NEW cells, IsList(cells), NEW n
  PROVE  PicksPlaces(CellsOfNote(cells, n), Len(CellsOfNote(cells, n)), {k \in DOMAIN cells : cells[k].note = n}, Len(cells))
<1> DEFINE own == CellsOfNote(cells, n)
           numbers == [k \in DOMAIN cells |-> k]
           picked == {k \in DOMAIN cells : cells[k].note = n}
<1>1. PICK m \in Nat : m = Len(cells) /\ DOMAIN cells = 1..m BY IsListShape
<1>2. own = Kept(numbers, picked) BY DEF CellsOfNote
<1>3. numbers = [k \in 1..m |-> k] /\ picked \in SUBSET (1..m) BY <1>1
<1>5. own = Kept(Numbers(m), picked) BY <1>2, <1>3 DEF Numbers
<1> HIDE DEF numbers, picked, own
<1>6. /\ own \in Seq(picked)
      /\ \A k \in picked : \E j \in 1..Len(own) : own[j] = k
      /\ \A i, j \in 1..Len(own) : i < j => own[i] < own[j]
  <2>1. Ascending(own, picked) BY <1>3, <1>5, KeptNumbersAscend
  <2> QED BY <2>1 DEF Ascending
<1>7. /\ Len(own) \in Nat /\ \A j \in 1..Len(own) : own[j] \in picked
  BY <1>6, ListShape
<1>8. PicksPlaces(own, Len(own), picked, m) BY <1>3, <1>6, <1>7 DEF PicksPlaces
<1> QED BY <1>1, <1>8 DEF own, picked

LEMMA AssignedOfSide ==
  ASSUME NEW cells, NEW c, NEW openings, NEW n, NEW w, NEW supplied,
         NoteOfSide(cells, c, openings, n, w, supplied)
  PROVE  LET own == CellsOfNote(cells, n)
             assigned == AssignedTo(w, supplied)
         IN  /\ IsList(assigned) /\ Len(assigned) = Len(own) /\ DOMAIN assigned = 1..Len(own)
             /\ \A j \in 1..Len(own) : assigned[j] = supplied[own[j]]
<1> DEFINE own == CellsOfNote(cells, n)
           assigned == AssignedTo(w, supplied)
           picked == {k \in DOMAIN supplied : supplied[k].id = w.id}
<1>1. /\ IsList(cells) /\ DOMAIN supplied = DOMAIN cells
      /\ \A k \in DOMAIN cells : (supplied[k].id = w.id) <=> (cells[k].note = n)
  BY DEF NoteOfSide
<1>2. assigned = Kept(supplied, picked) BY DEF AssignedTo
<1>3. picked = {k \in DOMAIN cells : cells[k].note = n} BY <1>1
<1> HIDE DEF assigned, picked, own
<1>4. PicksPlaces(own, Len(own), picked, Len(cells)) BY <1>1, <1>3, OwnPicks DEF own
<1>5. /\ IsList(assigned) /\ Len(assigned) = Len(own) /\ DOMAIN assigned = 1..Len(own)
      /\ \A j \in 1..Len(own) : assigned[j] = supplied[own[j]]
  BY <1>2, <1>4, KeptAtPlaces
<1> QED BY <1>5 DEF own, assigned

\* The members of its bundle.
LEMMA MembersOfSide ==
  ASSUME NEW cells, NEW c, NEW openings, NEW n, NEW w, NEW supplied,
         NoteOfSide(cells, c, openings, n, w, supplied)
  PROVE  LET own == CellsOfNote(cells, n)
             members == w.bundle.members
         IN  /\ IsList(members) /\ Len(members) = Len(own) /\ DOMAIN members = 1..Len(own)
             /\ \A j \in 1..Len(own) : members[j] = MemberOf(openings[own[j]])
             /\ HasFields(w.bundle, {"scope", "members"})
<1> DEFINE own == CellsOfNote(cells, n)
           members == w.bundle.members
           owned == Own(cells, openings, n)
<1>1. IsList(cells) /\ w.bundle = MakeBundle(w.bundle.scope, owned) BY DEF NoteOfSide
<1>2. PICK e \in Nat : e = Len(own) /\ DOMAIN own = 1..e BY <1>1, OwnCells
<1>3. owned = [j \in 1..e |-> openings[own[j]]] BY <1>2 DEF Own
<1> HIDE DEF own, owned
<1>4. members = [k \in DOMAIN owned |-> [slot |-> owned[k].slot, value |-> owned[k].value,
                                         profile |-> owned[k].profile, blinder |-> owned[k].blinder]]
  BY <1>1 DEF MakeBundle
<1>5. HasFields(w.bundle, {"scope", "members"}) BY <1>1 DEF MakeBundle, HasFields
<1>6. /\ members = [j \in 1..e |-> members[j]]
      /\ \A j \in 1..e : members[j] = MemberOf(openings[own[j]])
  BY <1>3, <1>4 DEF MemberOf
<1> HIDE DEF members
<1>7. IsList(members) /\ Len(members) = e /\ DOMAIN members = 1..e BY <1>6, IntervalIsList
<1> QED BY <1>2, <1>5, <1>6, <1>7 DEF own, members

\* The bundle of a note opens to the values of its cells.
LEMMA BundleOfSide ==
  ASSUME NEW cells, NEW c, NEW openings, NEW n, NEW w, NEW supplied,
         NoteOfSide(cells, c, openings, n, w, supplied)
  PROVE  /\ BundleParses(w.bundle)
         /\ Sum(w.bundle.members, LAMBDA x : x.value) = w.note.value
<1> DEFINE own == CellsOfNote(cells, n)
           members == w.bundle.members
           values == [k \in DOMAIN members |-> members[k].value]
<1>1. /\ IsList(cells) /\ c \in 1..MaxMoney
      /\ \A k \in DOMAIN cells : openings[k].value = c /\ openings[k].slot \in Int
      /\ \A j, k \in DOMAIN cells : j < k => openings[j].slot < openings[k].slot
      /\ own # <<>> /\ w.note.value = Len(own) * c /\ w.note.value \in 1..MaxMoney
  BY DEF NoteOfSide
<1>2. PICK e \in Nat : e = Len(own) BY <1>1, OwnCells
<1>3. PICK m \in Nat : m = Len(cells) /\ DOMAIN cells = 1..m BY <1>1, IsListShape
<1>4. IsList(own) BY <1>1, OwnCells
<1>5. /\ \A j \in 1..e : own[j] \in 1..m
      /\ \A i, j \in 1..e : i < j => own[i] < own[j]
  BY <1>1, <1>2, <1>3, OwnCells
<1>6. /\ IsList(members) /\ Len(members) = e /\ DOMAIN members = 1..e
      /\ \A j \in 1..e : members[j] = MemberOf(openings[own[j]])
      /\ HasFields(w.bundle, {"scope", "members"})
  BY <1>2, MembersOfSide
<1>7. MaxMoney \in Nat /\ c \in Int BY <1>1, MaxMoneyAssumption
<1> HIDE DEF own, members
<1>8. e >= 1
  <2>1. own = [j \in 1..e |-> own[j]] BY <1>2, <1>4, IsListShape
  <2>2. e = 0 => own = <<>> BY <2>1
  <2> QED BY <1>1, <2>2
<1>9. \A j \in 1..e : /\ members[j].value = c /\ members[j].slot = openings[own[j]].slot
                      /\ HasFields(members[j], {"slot", "value", "profile", "blinder"})
  <2> SUFFICES ASSUME NEW j \in 1..e
               PROVE  /\ members[j].value = c /\ members[j].slot = openings[own[j]].slot
                      /\ HasFields(members[j], {"slot", "value", "profile", "blinder"})
    OBVIOUS
  <2>1. own[j] \in DOMAIN cells BY <1>3, <1>5
  <2>2. openings[own[j]].value = c BY <1>1, <2>1
  <2>3. members[j] = MemberOf(openings[own[j]]) BY <1>6
  <2> QED BY <2>2, <2>3 DEF MemberOf, HasFields
<1>10. \A k \in 1..Len(members) - 1 : members[k].slot < members[k + 1].slot
  <2> SUFFICES ASSUME NEW k \in 1..(e - 1) PROVE members[k].slot < members[k + 1].slot BY <1>6
  <2>1. k \in 1..e /\ k + 1 \in 1..e /\ k < k + 1 OBVIOUS
  <2>2. own[k] \in DOMAIN cells /\ own[k + 1] \in DOMAIN cells /\ own[k] < own[k + 1] BY <1>3, <1>5, <2>1
  <2>3. openings[own[k]].slot < openings[own[k + 1]].slot BY <1>1, <2>2
  <2> QED BY <1>9, <2>1, <2>3
<1>11. TotalOf(values) = w.note.value
  <2>1. values = [k \in 1..e |-> values[k]] /\ \A k \in 1..e : values[k] = c BY <1>6, <1>9
  <2> HIDE DEF values
  <2>2. TotalOf(values) = e * c BY <1>7, <2>1, SumOfEqual
  <2> QED BY <1>1, <1>2, <2>2
<1>12. Sum(members, LAMBDA x : x.value) = w.note.value BY <1>11 DEF Sum
<1>13. members # <<>>
  <2>1. Len(<<>>) = 0 OBVIOUS
  <2> QED BY <1>6, <1>8, <2>1
<1>14. ~Overflows(Sum(members, LAMBDA x : x.value)) BY <1>1, <1>7, <1>12 DEF Overflows
<1>15. BundleParses(w.bundle)
  <2>1. \A k \in DOMAIN members : members[k].value \in 1..MaxMoney BY <1>1, <1>6, <1>9
  <2> QED BY <1>6, <1>9, <1>10, <1>13, <1>14, <2>1 DEF BundleParses, members
<1> QED BY <1>12, <1>15 DEF members

\* Every cell of a note is the opening of one member of its bundle.
AssignedMatch(w, assigned) ==
    /\ IsList(assigned) /\ IsList(w.bundle.members) /\ w.bundle.members # <<>>
    /\ DOMAIN assigned = 1..Len(assigned) /\ Len(assigned) \in Nat
    /\ Len(w.bundle.members) = Len(assigned)
    /\ \A j \in DOMAIN assigned : MatchesMember(w.bundle, assigned[j].opening)
    /\ \A i, j \in DOMAIN assigned : i < j => assigned[i].opening.slot # assigned[j].opening.slot

LEMMA AssignedMatchOfSide ==
  ASSUME NEW cells, NEW c, NEW openings, NEW n, NEW w, NEW supplied,
         NoteOfSide(cells, c, openings, n, w, supplied)
  PROVE  AssignedMatch(w, AssignedTo(w, supplied))
<1> DEFINE own == CellsOfNote(cells, n)
           members == w.bundle.members
           assigned == AssignedTo(w, supplied)
           picked == {k \in DOMAIN cells : cells[k].note = n}
<1>1. /\ IsList(cells) /\ DOMAIN supplied = DOMAIN cells
      /\ \A k \in DOMAIN cells : openings[k].slot \in Int /\ supplied[k].opening = openings[k]
      /\ \A j, k \in DOMAIN cells : j < k => openings[j].slot < openings[k].slot
      /\ \A k \in DOMAIN cells : cells[k].note = n => openings[k].scope = w.bundle.scope
  BY DEF NoteOfSide
<1>2. /\ IsList(assigned) /\ Len(assigned) = Len(own) /\ DOMAIN assigned = 1..Len(own)
      /\ \A j \in 1..Len(own) : assigned[j] = supplied[own[j]]
  BY AssignedOfSide
<1>3. /\ IsList(members) /\ Len(members) = Len(own) /\ DOMAIN members = 1..Len(own)
      /\ \A j \in 1..Len(own) : members[j] = MemberOf(openings[own[j]])
  BY MembersOfSide
<1>4. BundleParses(w.bundle) BY BundleOfSide
<1>5. members # <<>> BY <1>4 DEF BundleParses
<1>6. PicksPlaces(own, Len(own), picked, Len(cells)) BY <1>1, OwnPicks
<1> HIDE DEF own, members, assigned
<1>7. /\ Len(own) \in Nat
      /\ \A j \in 1..Len(own) : own[j] \in DOMAIN cells /\ cells[own[j]].note = n
      /\ \A i, j \in 1..Len(own) : i < j => own[i] < own[j]
  BY <1>6 DEF PicksPlaces
<1>8. ASSUME NEW j \in DOMAIN assigned
      PROVE  /\ MatchesMember(w.bundle, assigned[j].opening)
             /\ assigned[j].opening = openings[own[j]]
  <2> DEFINE o == openings[own[j]]
  <2>1. j \in 1..Len(own) BY <1>2
  <2>2. own[j] \in DOMAIN cells /\ cells[own[j]].note = n BY <1>7, <2>1
  <2>3. assigned[j].opening = o /\ o.scope = w.bundle.scope BY <1>1, <1>2, <2>1, <2>2
  <2>4. members[j] = MemberOf(o) /\ j \in DOMAIN members BY <1>3, <2>1
  <2> HIDE DEF o
  <2>5. members[j] = [slot |-> o.slot, value |-> o.value, profile |-> o.profile, blinder |-> o.blinder]
    BY <2>4 DEF MemberOf
  <2>6. MatchesMember(w.bundle, o) BY <2>3, <2>4, <2>5 DEF MatchesMember, members
  <2> QED BY <2>3, <2>6 DEF o
<1>9. ASSUME NEW i \in DOMAIN assigned, NEW j \in DOMAIN assigned, i < j
      PROVE  assigned[i].opening.slot # assigned[j].opening.slot
  <2>1. own[i] \in DOMAIN cells /\ own[j] \in DOMAIN cells /\ own[i] < own[j] BY <1>2, <1>7, <1>9
  <2>2. /\ openings[own[i]].slot < openings[own[j]].slot
        /\ openings[own[i]].slot \in Int /\ openings[own[j]].slot \in Int
    BY <1>1, <2>1
  <2>3. openings[own[i]].slot # openings[own[j]].slot BY <2>2
  <2> QED BY <1>8, <2>3
<1>10. AssignedMatch(w, assigned)
  BY <1>2, <1>3, <1>5, <1>7, <1>8, <1>9 DEF AssignedMatch, members
<1> QED BY <1>10 DEF assigned

\* No check of the cells assigned to a note fails.
LEMMA AssignedPasses ==
  ASSUME NEW w, NEW assigned, AssignedMatch(w, assigned), NEW stage
  PROVE  \A k \in DOMAIN assigned : Passes(AssignedCellChecks(w.bundle, assigned, k, stage))
<1> SUFFICES ASSUME NEW k \in DOMAIN assigned PROVE Passes(AssignedCellChecks(w.bundle, assigned, k, stage))
  OBVIOUS
<1> DEFINE places == [j \in DOMAIN assigned |-> <<assigned[j].opening.scope, assigned[j].opening.slot>>]
           f == Check(~MatchesMember(w.bundle, assigned[k].opening), stage, "bundle-cell-extra")
           g == Check(RepeatsEarlier(places, k), stage, "bundle-not-disjoint")
<1>1. AssignedCellChecks(w.bundle, assigned, k, stage) = <<f, g>> BY DEF AssignedCellChecks
<1>2. ~f.fails BY DEF Check, AssignedMatch
<1>3. ~RepeatsEarlier(places, k)
  <2> SUFFICES ASSUME NEW j \in 1..(k - 1), places[j] = places[k] PROVE FALSE BY DEF RepeatsEarlier
  <2>1. DOMAIN assigned = 1..Len(assigned) /\ Len(assigned) \in Nat BY DEF AssignedMatch
  <2>2. j \in DOMAIN assigned /\ j < k BY <2>1
  <2>3. assigned[j].opening.slot # assigned[k].opening.slot BY <2>2 DEF AssignedMatch
  <2>4. places[j] = <<assigned[j].opening.scope, assigned[j].opening.slot>>
        /\ places[k] = <<assigned[k].opening.scope, assigned[k].opening.slot>> BY <2>2
  <2> QED BY <2>3, <2>4
<1>4. ~g.fails BY <1>3 DEF Check
<1> HIDE DEF f, g
<1> QED BY <1>1, <1>2, <1>4, PassingTwo

\* No check of a note against its bundle fails.
LEMMA NoteBundlePasses ==
  ASSUME NEW cells, NEW c, NEW openings, NEW n, NEW w, NEW supplied,
         NoteOfSide(cells, c, openings, n, w, supplied), NEW stage
  PROVE  Passes(NoteBundleChecks(w, supplied, stage))
<1> DEFINE assigned == AssignedTo(w, supplied)
           members == w.bundle.members
           backing == Sum(members, LAMBDA m : m.value)
           a == Check(members = <<>>, stage, "empty-bundle")
           b == CountChecks(Len(assigned), Len(members), stage, "bundle-cell-missing", "bundle-cell-extra")
           lists == [k \in DOMAIN assigned |-> AssignedCellChecks(w.bundle, assigned, k, stage)]
           d == Check(Overflows(backing), "private-value-arithmetic", "private-value-sum-overflow")
           e == Check(backing # w.note.value, stage, "note-backing-mismatch")
           flat == FlattenSeq(lists)
<1>1. NoteBundleChecks(w, supplied, stage) = <<a>> \o b \o flat \o <<d, e>>
  BY DEF NoteBundleChecks, ForEach
<1>2. AssignedMatch(w, assigned) BY AssignedMatchOfSide
<1>3. backing = w.note.value /\ BundleParses(w.bundle) BY BundleOfSide
<1>4. ~Overflows(backing) BY <1>3 DEF BundleParses
<1>5. ~d.fails /\ ~e.fails BY <1>3, <1>4 DEF Check
<1>6. ~a.fails BY <1>2 DEF Check, AssignedMatch
<1>7. Passes(<<a>>)
  <2> HIDE DEF a
  <2> QED BY <1>6, PassingOne
<1>8. Passes(b)
  <2>1. Len(assigned) \in Nat /\ Len(members) = Len(assigned) BY <1>2 DEF AssignedMatch
  <2> HIDE DEF assigned, members
  <2>2. PICK x \in Nat : x = Len(assigned) BY <2>1
  <2>3. PICK y \in Nat : y = Len(members) BY <2>1
  <2>4. x = y BY <2>1, <2>2, <2>3
  <2>5. Passes(CountChecks(x, y, stage, "bundle-cell-missing", "bundle-cell-extra")) BY <2>4, PassingCount
  <2> QED BY <2>2, <2>3, <2>5
<1>9. Passes(flat)
  <2>1. \A k \in DOMAIN assigned : Passes(AssignedCellChecks(w.bundle, assigned, k, stage))
    BY <1>2, AssignedPasses
  <2>2. DOMAIN assigned = 1..Len(assigned) /\ Len(assigned) \in Nat BY <1>2 DEF AssignedMatch
  <2> HIDE DEF assigned
  <2>3. PICK x \in Nat : x = Len(assigned) BY <2>2
  <2>4. lists = [k \in 1..x |-> lists[k]] /\ \A k \in 1..x : Passes(lists[k]) BY <2>1, <2>2, <2>3
  <2> HIDE DEF lists
  <2> QED BY <2>4, PassingFlat
<1>10. Passes(<<d, e>>)
  <2> HIDE DEF d, e
  <2> QED BY <1>5, PassingTwo
<1> HIDE DEF a, b, d, e, flat
<1> QED BY <1>1, <1>7, <1>8, <1>9, <1>10, PassingJoinedFour

\* A whole side: two notes that share out its cells.
SideIs(notes, cells, c, openings, supplied, expected) ==
    /\ IsList(notes) /\ Len(notes) = 2 /\ DOMAIN notes = 1..2
    /\ \A n \in 1..2 : NoteOfSide(cells, c, openings, n, notes[n], supplied)
    /\ DOMAIN expected = DOMAIN supplied
    /\ \A k \in DOMAIN supplied : expected[k] = supplied[k].index
    /\ \A k \in DOMAIN supplied : \E n \in 1..2 : supplied[k].id = notes[n].id
    /\ \A j, k \in DOMAIN supplied : supplied[j].index = supplied[k].index => j = k

\* No check of the bundles of a side fails.
LEMMA BundlesPass ==
  ASSUME NEW notes, NEW cells, NEW c, NEW openings, NEW supplied, NEW expected,
         SideIs(notes, cells, c, openings, supplied, expected), NEW stage
  PROVE  Passes(BundleChecks(notes, supplied, expected, stage))
<1> DEFINE a == Check(~ToSet(IdsOf(supplied)) \subseteq ToSet(IdsOf(notes)),
                      stage, "backing-cell-logical-note-assignment-mismatch")
           lists == [k \in DOMAIN notes |-> NoteBundleChecks(notes[k], supplied, stage)]
           d == Check(~Distinct(IndexesOf(supplied)), stage, "bundle-not-disjoint")
           e == Check(~ToSet(expected) \subseteq ToSet(IndexesOf(supplied)), stage, "bundle-cell-missing")
           f == Check(~ToSet(IndexesOf(supplied)) \subseteq ToSet(expected), stage, "bundle-cell-extra")
           flat == FlattenSeq(lists)
<1>1. BundleChecks(notes, supplied, expected, stage) = <<a>> \o flat \o <<d, e, f>>
  BY DEF BundleChecks, ForEach
<1>2. ToSet(IdsOf(supplied)) \subseteq ToSet(IdsOf(notes))
  <2> SUFFICES ASSUME NEW k \in DOMAIN supplied PROVE supplied[k].id \in ToSet(IdsOf(notes))
    BY DEF ToSet, IdsOf
  <2>1. PICK n \in DOMAIN notes : supplied[k].id = notes[n].id BY DEF SideIs
  <2> QED BY <2>1 DEF ToSet, IdsOf
<1>3. Distinct(IndexesOf(supplied))
  <2>1. \A j, k \in DOMAIN supplied : supplied[j].index = supplied[k].index => j = k BY DEF SideIs
  <2> QED BY <2>1 DEF Distinct, IndexesOf
<1>4. ToSet(expected) = ToSet(IndexesOf(supplied))
  <2>1. DOMAIN expected = DOMAIN supplied /\ \A k \in DOMAIN supplied : expected[k] = supplied[k].index
    BY DEF SideIs
  <2> QED BY <2>1 DEF ToSet, IndexesOf
<1>5. ~a.fails /\ ~d.fails /\ ~e.fails /\ ~f.fails BY <1>2, <1>3, <1>4 DEF Check
<1>6. Passes(flat)
  <2>1. \A k \in 1..2 : Passes(NoteBundleChecks(notes[k], supplied, stage))
    <3> SUFFICES ASSUME NEW k \in 1..2 PROVE Passes(NoteBundleChecks(notes[k], supplied, stage)) OBVIOUS
    <3>1. NoteOfSide(cells, c, openings, k, notes[k], supplied) BY DEF SideIs
    <3> QED BY <3>1, NoteBundlePasses
  <2>2. DOMAIN notes = 1..2 BY DEF SideIs
  <2>3. lists = [k \in 1..2 |-> lists[k]] /\ \A k \in 1..2 : Passes(lists[k]) BY <2>1, <2>2
  <2>4. 2 \in Nat OBVIOUS
  <2> HIDE DEF lists
  <2> QED BY <2>3, <2>4, PassingFlat
<1> HIDE DEF a, d, e, f, flat
<1>7. Passes(<<a>>) /\ Passes(<<d, e, f>>) BY <1>5, PassingOne, PassingThree
<1> QED BY <1>1, <1>6, <1>7, PassingJoinedThree

(***************************************************************************)
(* The two sides of the honest batch.                                      *)
(***************************************************************************)

\* The two notes of a side have different identifiers.
LEMMA IdsSeparate ==
  ASSUME NEW pl, NEW a \in 1..2, NEW b \in 1..2
  PROVE  /\ OldId(pl, a) = OldId(pl, b) <=> a = b
         /\ NewId(pl, a) = NewId(pl, b) <=> a = b
<1>1. CASE a = b BY <1>1
<1>2. CASE a = 1 /\ b = 2 BY <1>2, IdsDiffer
<1>3. CASE a = 2 /\ b = 1 BY <1>3, IdsDiffer
<1>4. a = b \/ (a = 1 /\ b = 2) \/ (a = 2 /\ b = 1) OBVIOUS
<1> QED BY <1>1, <1>2, <1>3, <1>4

LEMMA PositiveProduct ==
  ASSUME NEW e \in Nat, NEW c \in Nat, e >= 1, c >= 1
  PROVE  e * c >= 1
OBVIOUS

\* A note is worth something, and no more than its side.
LEMMA NoteWorth ==
  ASSUME NEW cells, NEW notes, NEW c \in Nat, c >= 1, UniformCells(cells, c), NotesBacked(notes, cells, c),
         NEW n \in 1..2, NEW most \in Nat, Len(cells) * c <= most
  PROVE  notes[n].value \in 1..most
<1> DEFINE own == CellsOfNote(cells, n)
<1>1. /\ notes[1].value \in Nat /\ notes[2].value \in Nat
      /\ notes[1].value + notes[2].value = Len(cells) * c
  BY NotesTotal
<1>2. own # <<>> /\ notes[n].value = Len(own) * c BY DEF NotesBacked
<1>3. IsList(own)
  <2>1. IsList(cells) BY DEF UniformCells
  <2> QED BY <2>1, OwnCells
<1> HIDE DEF own
<1>4. Len(own) \in Nat /\ own = [j \in 1..Len(own) |-> own[j]] BY <1>3, IsListShape
<1>5. PICK e \in Nat : e = Len(own) BY <1>4
<1>6. e = 0 => own = <<>>
  <2>1. own = [j \in 1..e |-> own[j]] BY <1>4, <1>5
  <2> QED BY <2>1
<1>7. e >= 1 BY <1>2, <1>6
<1>8. e * c >= 1 BY <1>7, PositiveProduct
<1>9. notes[n].value >= 1 BY <1>2, <1>5, <1>8
<1>10. PICK u \in Nat : u = notes[1].value BY <1>1
<1>11. PICK v \in Nat : v = notes[2].value BY <1>1
<1>12. u + v <= most
  <2>1. u + v = Len(cells) * c BY <1>1, <1>10, <1>11
  <2> QED BY <2>1
<1>13. u <= most /\ v <= most BY <1>12
<1>14. CASE n = 1 BY <1>9, <1>10, <1>13, <1>14
<1>15. CASE n = 2 BY <1>9, <1>11, <1>13, <1>15
<1> QED BY <1>14, <1>15

\* Both sides of the honest batch are such a side.
LEMMA OldNoteOfSide ==
  ASSUME NEW pl, HonestPlan(pl), NEW n \in 1..2, NEW supplied,
         supplied = [k \in 1..Len(pl.cells) |-> OldCell(pl, k)]
  PROVE  NoteOfSide(pl.cells, pl.profile.cellValue, OldOpenings(pl), n, OldWitness(pl, n), supplied)
<1> DEFINE c == pl.profile.cellValue
           o == OldOpenings(pl)
           w == OldWitness(pl, n)
<1>1. /\ UniformCells(pl.cells, c) /\ NotesBacked(pl.notes, pl.cells, c) BY DEF HonestPlan
<1>2. /\ IsList(pl.cells) /\ \A k \in DOMAIN pl.cells : pl.cells[k].note \in 1..2 /\ pl.cells[k].value = c
  BY <1>1 DEF UniformCells
<1>3. PICK m \in Nat : m = Len(pl.cells) /\ DOMAIN pl.cells = 1..m BY <1>2, IsListShape
<1>4. \A k \in DOMAIN pl.cells : /\ o[k].value = c /\ o[k].slot = k
                                 /\ o[k].scope = PriorScope(pl, pl.cells[k].note)
  BY <1>2 DEF OldOpenings
<1>5. /\ w.id = OldId(pl, n) /\ w.note = OldNote(pl, n) /\ w.bundle = OldBundle(pl, n)
      /\ w.bundle.scope = PriorScope(pl, n) /\ w.note.value = pl.notes[n].value
  BY DEF OldWitness, OldBundle, MakeBundle, OldNote, MakeNote
<1>6. w.bundle = MakeBundle(w.bundle.scope, Own(pl.cells, o, n)) BY <1>5 DEF OldBundle
<1>7. CellsOfNote(pl.cells, n) # <<>> /\ w.note.value = Len(CellsOfNote(pl.cells, n)) * c
  BY <1>1, <1>5 DEF NotesBacked
<1>8. c \in 1..MaxMoney /\ w.note.value \in 1..MaxMoney
  <2>1. c \in 1..MaxMoney /\ c \in Nat BY HonestNumbers
  <2>2. Len(pl.cells) * c + 17 <= MaxMoney /\ Len(pl.cells) * c \in Nat BY HonestNumbers
  <2>3. MaxMoney \in Nat BY MaxMoneyAssumption
  <2>4. Len(pl.cells) * c <= MaxMoney BY <2>2, <2>3
  <2> HIDE DEF c
  <2>5. c >= 1 BY <2>1
  <2>6. pl.notes[n].value \in 1..MaxMoney BY <1>1, <2>1, <2>3, <2>4, <2>5, NoteWorth
  <2> QED BY <1>5, <2>1, <2>6
<1>9. /\ IsList(supplied) /\ DOMAIN supplied = 1..m
      /\ \A k \in 1..m : supplied[k] = OldCell(pl, k)
  BY <1>3, IntervalIsList
<1>10. \A k \in 1..m : supplied[k].opening = o[k] /\ supplied[k].id = OldId(pl, pl.cells[k].note)
  BY <1>9 DEF OldCell
<1>11. \A k \in 1..m : (supplied[k].id = w.id) <=> (pl.cells[k].note = n)
  <2> SUFFICES ASSUME NEW k \in 1..m PROVE (supplied[k].id = w.id) <=> (pl.cells[k].note = n) OBVIOUS
  <2>1. pl.cells[k].note \in 1..2 BY <1>2, <1>3
  <2>2. PICK b \in 1..2 : b = pl.cells[k].note BY <2>1
  <2>3. OldId(pl, b) = OldId(pl, n) <=> b = n BY IdsSeparate
  <2> HIDE DEF w
  <2> QED BY <1>5, <1>10, <2>2, <2>3
<1> HIDE DEF c, o, w
<1>12. /\ \A k \in DOMAIN pl.cells : o[k].value = c /\ o[k].slot \in Int
       /\ \A j, k \in DOMAIN pl.cells : j < k => o[j].slot < o[k].slot
  BY <1>3, <1>4
<1>13. \A k \in DOMAIN pl.cells : pl.cells[k].note = n => o[k].scope = w.bundle.scope BY <1>4, <1>5
<1>14. NoteOfSide(pl.cells, c, o, n, w, supplied)
  BY <1>2, <1>3, <1>6, <1>7, <1>8, <1>9, <1>10, <1>11, <1>12, <1>13 DEF NoteOfSide
<1> QED BY <1>14 DEF c, o, w

LEMMA NewNoteOfSide ==
  ASSUME NEW pl, HonestPlan(pl), NEW n \in 1..2, NEW supplied,
         supplied = [k \in 1..Len(pl.newCells) |-> NewCell(pl, k)]
  PROVE  NoteOfSide(pl.newCells, pl.profile.cellValue, NewOnes(pl), n, NewWitness(pl, n), supplied)
<1> DEFINE c == pl.profile.cellValue
           o == NewOnes(pl)
           w == NewWitness(pl, n)
<1>1. /\ UniformCells(pl.newCells, c) /\ NotesBacked(pl.newNotes, pl.newCells, c) BY DEF HonestPlan
<1>2. /\ IsList(pl.newCells) /\ \A k \in DOMAIN pl.newCells : pl.newCells[k].note \in 1..2 /\ pl.newCells[k].value = c
  BY <1>1 DEF UniformCells
<1>3. PICK m \in Nat : m = Len(pl.newCells) /\ DOMAIN pl.newCells = 1..m BY <1>2, IsListShape
<1>4. \A k \in DOMAIN pl.newCells : o[k].value = c /\ o[k].slot = k - 1 /\ o[k].scope = Scope(pl)
  BY <1>2 DEF NewOnes, NewOpenings
<1>5. /\ w.id = NewId(pl, n) /\ w.note = NewNote(pl, n) /\ w.bundle = NewBundle(pl, n)
      /\ w.bundle.scope = Scope(pl) /\ w.note.value = pl.newNotes[n].value
  BY DEF NewWitness, NewBundle, MakeBundle, NewNote, MakeNote
<1>6. w.bundle = MakeBundle(w.bundle.scope, Own(pl.newCells, o, n)) BY <1>5 DEF NewBundle
<1>7. CellsOfNote(pl.newCells, n) # <<>> /\ w.note.value = Len(CellsOfNote(pl.newCells, n)) * c
  BY <1>1, <1>5 DEF NotesBacked
<1>8. c \in 1..MaxMoney /\ w.note.value \in 1..MaxMoney
  <2>1. c \in 1..MaxMoney /\ c \in Nat BY HonestNumbers
  <2>2. /\ Len(pl.cells) * c = Len(pl.newCells) * c + pl.networkFee + pl.serviceFee
        /\ Len(pl.cells) * c + 17 <= MaxMoney /\ Len(pl.cells) * c \in Nat /\ Len(pl.newCells) * c \in Nat
        /\ pl.networkFee \in Nat /\ pl.serviceFee \in Nat
    BY HonestNumbers
  <2>3. MaxMoney \in Nat BY MaxMoneyAssumption
  <2>4. Len(pl.newCells) * c <= MaxMoney BY <2>2, <2>3
  <2> HIDE DEF c
  <2>5. c >= 1 BY <2>1
  <2>6. pl.newNotes[n].value \in 1..MaxMoney BY <1>1, <2>1, <2>3, <2>4, <2>5, NoteWorth
  <2> QED BY <1>5, <2>1, <2>6
<1>9. /\ IsList(supplied) /\ DOMAIN supplied = 1..m
      /\ \A k \in 1..m : supplied[k] = NewCell(pl, k)
  BY <1>3, IntervalIsList
<1>10. \A k \in 1..m : supplied[k].opening = o[k] /\ supplied[k].id = NewId(pl, pl.newCells[k].note)
  BY <1>9 DEF NewCell
<1>11. \A k \in 1..m : (supplied[k].id = w.id) <=> (pl.newCells[k].note = n)
  <2> SUFFICES ASSUME NEW k \in 1..m PROVE (supplied[k].id = w.id) <=> (pl.newCells[k].note = n) OBVIOUS
  <2>1. pl.newCells[k].note \in 1..2 BY <1>2, <1>3
  <2>2. PICK b \in 1..2 : b = pl.newCells[k].note BY <2>1
  <2>3. NewId(pl, b) = NewId(pl, n) <=> b = n BY IdsSeparate
  <2> HIDE DEF w
  <2> QED BY <1>5, <1>10, <2>2, <2>3
<1> HIDE DEF c, o, w
<1>12. /\ \A k \in DOMAIN pl.newCells : o[k].value = c /\ o[k].slot \in Int
       /\ \A j, k \in DOMAIN pl.newCells : j < k => o[j].slot < o[k].slot
  BY <1>3, <1>4
<1>13. \A k \in DOMAIN pl.newCells : pl.newCells[k].note = n => o[k].scope = w.bundle.scope BY <1>4, <1>5
<1>14. NoteOfSide(pl.newCells, c, o, n, w, supplied)
  BY <1>2, <1>3, <1>6, <1>7, <1>8, <1>9, <1>10, <1>11, <1>12, <1>13 DEF NoteOfSide
<1> QED BY <1>14 DEF c, o, w

\* The material of the honest batch.
Supplied(pl, i, m, d, n) ==
    /\ i.profile = pl.profile /\ i.expected = Com(pl) /\ i.statement = Public(pl)
    /\ i.consumed = <<OldWitness(pl, 1), OldWitness(pl, 2)>>
    /\ i.created = <<NewWitness(pl, 1), NewWitness(pl, 2)>>
    /\ i.consumedCells = [k \in 1..m |-> OldCell(pl, k)]
    /\ i.createdCells = [k \in 1..n |-> NewCell(pl, k)]
    /\ i.exits = [k \in 1..n |-> ExitKey(pl, k)]
    /\ i.authorities = <<Authority(pl, 1), Authority(pl, 2)>>
    /\ i.nullifiers = <<Spent(pl, 1), Spent(pl, 2)>>
    /\ i.recovery = <<Evidence(pl, 1), Evidence(pl, 2)>>
    /\ i.table.statement = Com(pl) /\ i.table.packets = Packets(pl)
    /\ i.table.hashes = <<PacketHash(PlanPacket(pl, 1)), PacketHash(PlanPacket(pl, 2))>>
    /\ i.table.bin = Bin(pl) /\ i.table.root = BinRoot(Bin(pl))

\* The honest batch supplies what its plan says.
LEMMA SuppliedOfPlan ==
  ASSUME NEW pl, HonestPlan(pl), NEW m \in Nat, NEW d \in Nat, NEW n \in Nat, Sizes(pl, m, d, n)
  PROVE  Supplied(pl, HonestBatch(pl), m, d, n)
<1>1. UniformCells(pl.cells, pl.profile.cellValue) /\ UniformCells(pl.newCells, pl.profile.cellValue)
  BY DEF HonestPlan
<1>2. m = Len(pl.cells) /\ n = Len(pl.newCells) BY DEF Sizes
<1> DEFINE i == HonestBatch(pl)
<1>3. /\ i.profile = pl.profile /\ i.expected = Com(pl) /\ i.statement = Public(pl)
      /\ i.consumed = <<OldWitness(pl, 1), OldWitness(pl, 2)>>
      /\ i.created = <<NewWitness(pl, 1), NewWitness(pl, 2)>>
  BY <1>1, MaterialOfPlan
<1>4. /\ i.consumedCells = [k \in 1..Len(pl.cells) |-> OldCell(pl, k)]
      /\ i.createdCells = [k \in 1..Len(pl.newCells) |-> NewCell(pl, k)]
      /\ i.exits = [k \in 1..Len(pl.newCells) |-> ExitKey(pl, k)]
  BY <1>1, MaterialOfPlan
<1>5. /\ i.authorities = <<Authority(pl, 1), Authority(pl, 2)>>
      /\ i.nullifiers = <<Spent(pl, 1), Spent(pl, 2)>>
      /\ i.recovery = <<Evidence(pl, 1), Evidence(pl, 2)>>
  BY <1>1, MaterialOfPlan
<1>6. /\ i.table.statement = Com(pl) /\ i.table.packets = Packets(pl)
      /\ i.table.hashes = <<PacketHash(PlanPacket(pl, 1)), PacketHash(PlanPacket(pl, 2))>>
      /\ i.table.bin = Bin(pl) /\ i.table.root = BinRoot(Bin(pl))
  BY <1>1, MaterialOfPlan
<1> HIDE DEF i
<1>7. Supplied(pl, i, m, d, n) BY <1>2, <1>3, <1>4, <1>5, <1>6 DEF Supplied
<1> QED BY <1>7 DEF i

\* The supplied cells and keys, item by item.
SuppliedCellsAre(pl, i, m, d, n) ==
    /\ IsList(i.consumedCells) /\ Len(i.consumedCells) = m /\ DOMAIN i.consumedCells = 1..m
    /\ \A k \in 1..m : i.consumedCells[k] = OldCell(pl, k) /\ i.consumedCells[k].index = IndexAt(m, d, k)
    /\ IsList(i.createdCells) /\ Len(i.createdCells) = n /\ DOMAIN i.createdCells = 1..n
    /\ \A k \in 1..n : i.createdCells[k] = NewCell(pl, k) /\ i.createdCells[k].index = k - 1
    /\ IsList(i.exits) /\ Len(i.exits) = n /\ DOMAIN i.exits = 1..n
    /\ \A k \in 1..n : i.exits[k] = ExitKey(pl, k) /\ i.exits[k].index = k - 1

LEMMA SuppliedCells ==
  ASSUME NEW pl, NEW m \in Nat, NEW d \in Nat, NEW n \in Nat, Sizes(pl, m, d, n),
         NEW i, Supplied(pl, i, m, d, n)
  PROVE  SuppliedCellsAre(pl, i, m, d, n)
<1>1. /\ IsList(i.consumedCells) /\ Len(i.consumedCells) = m /\ DOMAIN i.consumedCells = 1..m
      /\ \A k \in 1..m : i.consumedCells[k] = OldCell(pl, k)
  <2>1. i.consumedCells = [k \in 1..m |-> OldCell(pl, k)] BY DEF Supplied
  <2> DEFINE s == i.consumedCells
  <2> HIDE DEF s
  <2>2. s = [k \in 1..m |-> s[k]] /\ \A k \in 1..m : s[k] = OldCell(pl, k) BY <2>1 DEF s
  <2>3. IsList(s) /\ Len(s) = m /\ DOMAIN s = 1..m BY <2>2, IntervalIsList
  <2> QED BY <2>2, <2>3 DEF s
<1>2. /\ IsList(i.createdCells) /\ Len(i.createdCells) = n /\ DOMAIN i.createdCells = 1..n
      /\ \A k \in 1..n : i.createdCells[k] = NewCell(pl, k)
  <2>1. i.createdCells = [k \in 1..n |-> NewCell(pl, k)] BY DEF Supplied
  <2> DEFINE s == i.createdCells
  <2> HIDE DEF s
  <2>2. s = [k \in 1..n |-> s[k]] /\ \A k \in 1..n : s[k] = NewCell(pl, k) BY <2>1 DEF s
  <2>3. IsList(s) /\ Len(s) = n /\ DOMAIN s = 1..n BY <2>2, IntervalIsList
  <2> QED BY <2>2, <2>3 DEF s
<1>3. /\ IsList(i.exits) /\ Len(i.exits) = n /\ DOMAIN i.exits = 1..n
      /\ \A k \in 1..n : i.exits[k] = ExitKey(pl, k)
  <2>1. i.exits = [k \in 1..n |-> ExitKey(pl, k)] BY DEF Supplied
  <2> DEFINE s == i.exits
  <2> HIDE DEF s
  <2>2. s = [k \in 1..n |-> s[k]] /\ \A k \in 1..n : s[k] = ExitKey(pl, k) BY <2>1 DEF s
  <2>3. IsList(s) /\ Len(s) = n /\ DOMAIN s = 1..n BY <2>2, IntervalIsList
  <2> QED BY <2>2, <2>3 DEF s
<1>4. \A k \in 1..m : OldCell(pl, k).index = IndexAt(m, d, k)
  <2>1. m = Len(pl.cells) /\ d = pl.padding BY DEF Sizes
  <2>2. \A k \in 1..m : InputIndex(pl, k) = IndexAt(m, d, k) BY <2>1 DEF InputIndex, IndexAt
  <2> QED BY <2>2 DEF OldCell
<1>5. \A k \in 1..n : NewCell(pl, k).index = k - 1 /\ ExitKey(pl, k).index = k - 1 BY DEF NewCell, ExitKey
<1> QED BY <1>1, <1>2, <1>3, <1>4, <1>5 DEF SuppliedCellsAre

\* No two cells have one index.
LEMMA IndexesApart ==
  ASSUME NEW m \in Nat, NEW d \in Nat, NEW j \in 1..m, NEW k \in 1..m, j < k
  PROVE  IndexAt(m, d, j) < IndexAt(m, d, k) /\ IndexAt(m, d, j) \in Nat /\ IndexAt(m, d, k) \in Nat
BY DEF IndexAt

LEMMA IndexesSeparate ==
  ASSUME NEW m \in Nat, NEW d \in Nat, NEW j \in 1..m, NEW k \in 1..m, IndexAt(m, d, j) = IndexAt(m, d, k)
  PROVE  j = k
<1>1. CASE j < k BY <1>1, IndexesApart
<1>2. CASE k < j BY <1>2, IndexesApart
<1> QED BY <1>1, <1>2

\* The second and third stage: both sides are shared out.
LEMMA BundlesOfPlan ==
  ASSUME NEW pl, HonestPlan(pl), NEW m \in Nat, NEW d \in Nat, NEW n \in Nat, Sizes(pl, m, d, n),
         NEW i, Supplied(pl, i, m, d, n)
  PROVE  /\ Passes(BundleChecks(i.consumed, i.consumedCells, IndexesOf(i.statement.consumedCells), "consumed-bundle"))
         /\ Passes(BundleChecks(i.created, i.createdCells, IndexesOf(i.statement.createdCells), "created-bundle"))
<1> DEFINE st == i.statement
           c == pl.profile.cellValue
           old == i.consumedCells
           new == i.createdCells
<1>1. /\ i.consumed = <<OldWitness(pl, 1), OldWitness(pl, 2)>>
      /\ i.created = <<NewWitness(pl, 1), NewWitness(pl, 2)>>
      /\ st = Public(pl)
  BY DEF Supplied
<1>2. /\ DOMAIN st.consumedCells = 1..m /\ \A k \in 1..m : st.consumedCells[k].index = IndexAt(m, d, k)
      /\ DOMAIN st.createdCells = 1..n /\ \A k \in 1..n : st.createdCells[k].index = k - 1
  <2>1. PublicCellsAre(pl, st, m, d, n) BY <1>1, PublicItems
  <2> QED BY <2>1 DEF PublicCellsAre
<1>3. /\ old = [k \in 1..m |-> OldCell(pl, k)] /\ new = [k \in 1..n |-> NewCell(pl, k)] BY DEF Supplied
<1>4. /\ DOMAIN old = 1..m /\ \A k \in 1..m : old[k] = OldCell(pl, k) /\ old[k].index = IndexAt(m, d, k)
      /\ DOMAIN new = 1..n /\ \A k \in 1..n : new[k] = NewCell(pl, k) /\ new[k].index = k - 1
  <2>1. SuppliedCellsAre(pl, i, m, d, n) BY SuppliedCells
  <2> QED BY <2>1 DEF SuppliedCellsAre
<1>5. m = Len(pl.cells) /\ n = Len(pl.newCells) BY DEF Sizes
<1>6. UniformCells(pl.cells, c) /\ UniformCells(pl.newCells, c) BY DEF HonestPlan
<1>7. \A k \in 1..m : pl.cells[k].note \in 1..2
  <2>1. DOMAIN pl.cells = 1..m BY <1>5, <1>6, IsListShape DEF UniformCells
  <2> QED BY <1>6, <2>1 DEF UniformCells
<1>8. \A k \in 1..n : pl.newCells[k].note \in 1..2
  <2>1. DOMAIN pl.newCells = 1..n BY <1>5, <1>6, IsListShape DEF UniformCells
  <2> QED BY <1>6, <2>1 DEF UniformCells
<1> HIDE DEF old, new, st
<1>9. SideIs(i.consumed, pl.cells, c, OldOpenings(pl), old, IndexesOf(st.consumedCells))
  <2> DEFINE notes == i.consumed
             expected == IndexesOf(st.consumedCells)
  <2>1. IsList(notes) /\ Len(notes) = 2 /\ DOMAIN notes = 1..2
        /\ notes[1] = OldWitness(pl, 1) /\ notes[2] = OldWitness(pl, 2)
    BY <1>1, PairIsList
  <2> HIDE DEF notes
  <2>2. ASSUME NEW j \in 1..2
        PROVE  notes[j] = OldWitness(pl, j) /\ NoteOfSide(pl.cells, c, OldOpenings(pl), j, notes[j], old)
    <3>1. notes[j] = OldWitness(pl, j)
      <4>1. j = 1 \/ j = 2 OBVIOUS
      <4> QED BY <2>1, <4>1
    <3>2. NoteOfSide(pl.cells, c, OldOpenings(pl), j, OldWitness(pl, j), old) BY <1>3, <1>5, OldNoteOfSide
    <3> QED BY <3>1, <3>2
  <2>3. DOMAIN expected = DOMAIN old /\ \A k \in DOMAIN old : expected[k] = old[k].index
    BY <1>2, <1>4 DEF IndexesOf
  <2>4. ASSUME NEW k \in DOMAIN old PROVE \E j \in 1..2 : old[k].id = notes[j].id
    <3>1. k \in 1..m BY <1>4
    <3>2. PICK j \in 1..2 : j = pl.cells[k].note BY <1>7, <3>1
    <3>3. old[k].id = OldId(pl, j) BY <1>4, <3>1, <3>2 DEF OldCell
    <3>4. notes[j].id = OldId(pl, j) BY <2>2 DEF OldWitness
    <3> QED BY <3>3, <3>4
  <2>5. ASSUME NEW j \in DOMAIN old, NEW k \in DOMAIN old, old[j].index = old[k].index PROVE j = k
    <3>1. j \in 1..m /\ k \in 1..m /\ IndexAt(m, d, j) = IndexAt(m, d, k) BY <1>4, <2>5
    <3> QED BY <3>1, IndexesSeparate
  <2> HIDE DEF expected
  <2>6. SideIs(notes, pl.cells, c, OldOpenings(pl), old, expected)
    BY <2>1, <2>2, <2>3, <2>4, <2>5 DEF SideIs
  <2> QED BY <2>6 DEF notes, expected
<1>10. SideIs(i.created, pl.newCells, c, NewOnes(pl), new, IndexesOf(st.createdCells))
  <2> DEFINE notes == i.created
             expected == IndexesOf(st.createdCells)
  <2>1. IsList(notes) /\ Len(notes) = 2 /\ DOMAIN notes = 1..2
        /\ notes[1] = NewWitness(pl, 1) /\ notes[2] = NewWitness(pl, 2)
    BY <1>1, PairIsList
  <2> HIDE DEF notes
  <2>2. ASSUME NEW j \in 1..2
        PROVE  notes[j] = NewWitness(pl, j) /\ NoteOfSide(pl.newCells, c, NewOnes(pl), j, notes[j], new)
    <3>1. notes[j] = NewWitness(pl, j)
      <4>1. j = 1 \/ j = 2 OBVIOUS
      <4> QED BY <2>1, <4>1
    <3>2. NoteOfSide(pl.newCells, c, NewOnes(pl), j, NewWitness(pl, j), new) BY <1>3, <1>5, NewNoteOfSide
    <3> QED BY <3>1, <3>2
  <2>3. DOMAIN expected = DOMAIN new /\ \A k \in DOMAIN new : expected[k] = new[k].index
    BY <1>2, <1>4 DEF IndexesOf
  <2>4. ASSUME NEW k \in DOMAIN new PROVE \E j \in 1..2 : new[k].id = notes[j].id
    <3>1. k \in 1..n BY <1>4
    <3>2. PICK j \in 1..2 : j = pl.newCells[k].note BY <1>8, <3>1
    <3>3. new[k].id = NewId(pl, j) BY <1>4, <3>1, <3>2 DEF NewCell
    <3>4. notes[j].id = NewId(pl, j) BY <2>2 DEF NewWitness
    <3> QED BY <3>3, <3>4
  <2>5. ASSUME NEW j \in DOMAIN new, NEW k \in DOMAIN new, new[j].index = new[k].index PROVE j = k
    <3>1. j \in 1..n /\ k \in 1..n /\ j - 1 = k - 1 BY <1>4, <2>5
    <3> QED BY <3>1
  <2> HIDE DEF expected
  <2>6. SideIs(notes, pl.newCells, c, NewOnes(pl), new, expected)
    BY <2>1, <2>2, <2>3, <2>4, <2>5 DEF SideIs
  <2> QED BY <2>6 DEF notes, expected
<1>11. Passes(BundleChecks(i.consumed, old, IndexesOf(st.consumedCells), "consumed-bundle")) BY <1>9, BundlesPass
<1>12. Passes(BundleChecks(i.created, new, IndexesOf(st.createdCells), "created-bundle")) BY <1>10, BundlesPass
<1> QED BY <1>11, <1>12 DEF old, new, st

(***************************************************************************)
(* Shapes, identities and pairs.                                           *)
(***************************************************************************)

\* What comes in pairs, one for each note.
PairOf(s, a, b) == IsList(s) /\ Len(s) = 2 /\ DOMAIN s = 1..2 /\ s[1] = a /\ s[2] = b

\* The collections with one item for each note.
SuppliedPairsAre(pl, i) ==
    /\ PairOf(i.consumed, OldWitness(pl, 1), OldWitness(pl, 2))
    /\ PairOf(i.created, NewWitness(pl, 1), NewWitness(pl, 2))
    /\ PairOf(i.authorities, Authority(pl, 1), Authority(pl, 2))
    /\ PairOf(i.nullifiers, Spent(pl, 1), Spent(pl, 2))
    /\ PairOf(i.recovery, Evidence(pl, 1), Evidence(pl, 2))
    /\ PairOf(i.table.packets, PlanPacket(pl, 1), PlanPacket(pl, 2))
    /\ PairOf(i.table.hashes, PacketHash(PlanPacket(pl, 1)), PacketHash(PlanPacket(pl, 2)))

LEMMA SuppliedPairs ==
  ASSUME NEW pl, NEW i, NEW m, NEW d, NEW n, Supplied(pl, i, m, d, n)
  PROVE  SuppliedPairsAre(pl, i)
<1>1. ASSUME NEW s, NEW a, NEW b, s = <<a, b>> PROVE PairOf(s, a, b) BY <1>1, PairIsList DEF PairOf
<1>2. PairOf(i.consumed, OldWitness(pl, 1), OldWitness(pl, 2)) BY <1>1 DEF Supplied
<1>3. PairOf(i.created, NewWitness(pl, 1), NewWitness(pl, 2)) BY <1>1 DEF Supplied
<1>4. PairOf(i.authorities, Authority(pl, 1), Authority(pl, 2)) BY <1>1 DEF Supplied
<1>5. PairOf(i.nullifiers, Spent(pl, 1), Spent(pl, 2)) BY <1>1 DEF Supplied
<1>6. PairOf(i.recovery, Evidence(pl, 1), Evidence(pl, 2)) BY <1>1 DEF Supplied
<1>7. PairOf(i.table.packets, PlanPacket(pl, 1), PlanPacket(pl, 2)) BY <1>1 DEF Supplied, Packets
<1>8. PairOf(i.table.hashes, PacketHash(PlanPacket(pl, 1)), PacketHash(PlanPacket(pl, 2))) BY <1>1 DEF Supplied
<1> QED BY <1>2, <1>3, <1>4, <1>5, <1>6, <1>7, <1>8 DEF SuppliedPairsAre

LEMMA PairItems ==
  ASSUME NEW s, NEW a, NEW b, PairOf(s, a, b), NEW j \in 1..2
  PROVE  s[j] = IF j = 1 THEN a ELSE b
<1>1. j = 1 \/ j = 2 OBVIOUS
<1> QED BY <1>1 DEF PairOf

\* The witnesses of a pair: they differ, and their notes and bundles are the ones they name.
OpenedPair(items) ==
    /\ IsList(items) /\ Len(items) = 2 /\ DOMAIN items = 1..2
    /\ items[1].id # items[2].id
    /\ \A k \in 1..2 : /\ BundleCommitment(items[k].bundle) = items[k].note.bundle
                       /\ NoteCommitment(items[k].note) = items[k].id
                       /\ items[k].note.asset = AssetId

\* The witnesses of a pair open what they name.
LEMMA PairsAreOpened ==
  ASSUME NEW pl, NEW i, SuppliedPairsAre(pl, i)
  PROVE  OpenedPair(i.consumed) /\ OpenedPair(i.created)
<1>1. PairOf(i.consumed, OldWitness(pl, 1), OldWitness(pl, 2)) /\ PairOf(i.created, NewWitness(pl, 1), NewWitness(pl, 2))
  BY DEF SuppliedPairsAre
<1>2. \A k \in 1..2 : /\ BundleCommitment(OldWitness(pl, k).bundle) = OldWitness(pl, k).note.bundle
                      /\ NoteCommitment(OldWitness(pl, k).note) = OldWitness(pl, k).id
                      /\ OldWitness(pl, k).note.asset = AssetId /\ OldWitness(pl, k).id = OldId(pl, k)
  BY DEF OldWitness, OldNote, MakeNote, OldId
<1>3. \A k \in 1..2 : /\ BundleCommitment(NewWitness(pl, k).bundle) = NewWitness(pl, k).note.bundle
                      /\ NoteCommitment(NewWitness(pl, k).note) = NewWitness(pl, k).id
                      /\ NewWitness(pl, k).note.asset = AssetId /\ NewWitness(pl, k).id = NewId(pl, k)
  BY DEF NewWitness, NewNote, MakeNote, NewId
<1>4. OldId(pl, 1) # OldId(pl, 2) /\ NewId(pl, 1) # NewId(pl, 2) BY IdsDiffer
<1>5. ASSUME NEW items, NEW a, NEW b, PairOf(items, a, b), a.id # b.id,
             \A w \in {a, b} : /\ BundleCommitment(w.bundle) = w.note.bundle
                               /\ NoteCommitment(w.note) = w.id /\ w.note.asset = AssetId
      PROVE  OpenedPair(items)
  <2>1. ASSUME NEW k \in 1..2
        PROVE  /\ BundleCommitment(items[k].bundle) = items[k].note.bundle
               /\ NoteCommitment(items[k].note) = items[k].id /\ items[k].note.asset = AssetId
    <3>1. k = 1 \/ k = 2 OBVIOUS
    <3>2. items[k] \in {a, b} BY <1>5, <3>1 DEF PairOf
    <3> QED BY <1>5, <3>2
  <2> QED BY <1>5, <2>1 DEF PairOf, OpenedPair
<1>6. OpenedPair(i.consumed)
  <2> DEFINE a == OldWitness(pl, 1)
             b == OldWitness(pl, 2)
  <2>1. a.id # b.id BY <1>2, <1>4
  <2>2. \A w \in {a, b} : /\ BundleCommitment(w.bundle) = w.note.bundle
                          /\ NoteCommitment(w.note) = w.id /\ w.note.asset = AssetId
    BY <1>2
  <2>3. PairOf(i.consumed, a, b) BY <1>1
  <2> HIDE DEF a, b
  <2> QED BY <1>5, <2>1, <2>2, <2>3
<1>7. OpenedPair(i.created)
  <2> DEFINE a == NewWitness(pl, 1)
             b == NewWitness(pl, 2)
  <2>1. a.id # b.id BY <1>3, <1>4
  <2>2. \A w \in {a, b} : /\ BundleCommitment(w.bundle) = w.note.bundle
                          /\ NoteCommitment(w.note) = w.id /\ w.note.asset = AssetId
    BY <1>3
  <2>3. PairOf(i.created, a, b) BY <1>1
  <2> HIDE DEF a, b
  <2> QED BY <1>5, <2>1, <2>2, <2>3
<1> QED BY <1>6, <1>7

\* No check of the openings fails.
LEMMA OpeningsPass ==
  ASSUME NEW items, OpenedPair(items), NEW mismatch
  PROVE  Passes(OpeningChecks(items, mismatch))
<1> DEFINE lists == [k \in DOMAIN items |-> OpeningItemChecks(items[k], mismatch)]
<1>1. OpeningChecks(items, mismatch) = FlattenSeq(lists) BY DEF OpeningChecks, ForEach
<1>2. DOMAIN items = 1..2 BY DEF OpenedPair
<1>3. ASSUME NEW k \in 1..2 PROVE Passes(OpeningItemChecks(items[k], mismatch))
  <2> DEFINE a == Check(BundleCommitment(items[k].bundle) # items[k].note.bundle,
                        "witness-identity", "logical-note-bundle-commitment-mismatch")
             b == Check(NoteCommitment(items[k].note) # items[k].id, "witness-identity", mismatch)
  <2>1. ~a.fails /\ ~b.fails BY DEF OpenedPair, Check
  <2>2. OpeningItemChecks(items[k], mismatch) = <<a, b>> BY DEF OpeningItemChecks
  <2> HIDE DEF a, b
  <2> QED BY <2>1, <2>2, PassingTwo
<1>4. lists = [k \in 1..2 |-> lists[k]] /\ \A k \in 1..2 : Passes(lists[k]) BY <1>2, <1>3
<1>5. 2 \in Nat OBVIOUS
<1> HIDE DEF lists
<1> QED BY <1>1, <1>4, <1>5, PassingFlat

LEMMA OpenedIds ==
  ASSUME NEW items, OpenedPair(items)
  PROVE  Distinct(IdsOf(items)) /\ AssetsOf(items) = {AssetId}
<1>1. DOMAIN items = 1..2 /\ items[1].id # items[2].id BY DEF OpenedPair
<1>2. Distinct(IdsOf(items))
  <2> SUFFICES ASSUME NEW a \in 1..2, NEW b \in 1..2, items[a].id = items[b].id PROVE a = b
    BY <1>1 DEF Distinct, IdsOf
  <2>1. (a = 1 \/ a = 2) /\ (b = 1 \/ b = 2) OBVIOUS
  <2> QED BY <1>1, <2>1
<1>3. \A k \in 1..2 : items[k].note.asset = AssetId BY DEF OpenedPair
<1>4. 1 \in 1..2 OBVIOUS
<1>5. AssetsOf(items) = {AssetId} BY <1>1, <1>3, <1>4 DEF AssetsOf
<1> QED BY <1>2, <1>5

\* The material names the commitment of the statement it comes with.
LEMMA ComOfPlan ==
  ASSUME NEW pl, NEW i, NEW m, NEW d, NEW n, Supplied(pl, i, m, d, n)
  PROVE  StatementCommitment(i.statement) = Com(pl)
BY DEF Supplied, Com

LEMMA BoundOfPlan ==
  ASSUME NEW pl, NEW m \in Nat, NEW d \in Nat, NEW n \in Nat, Sizes(pl, m, d, n), NEW i, Supplied(pl, i, m, d, n)
  PROVE  /\ Bound(i.consumed, i) /\ Bound(i.created, i) /\ Bound(i.consumedCells, i) /\ Bound(i.createdCells, i)
<1>1. StatementCommitment(i.statement) = Com(pl) BY ComOfPlan
<1>2. SuppliedPairsAre(pl, i) BY SuppliedPairs
<1>3. SuppliedCellsAre(pl, i, m, d, n) BY SuppliedCells
<1>4. \A k \in DOMAIN i.consumed : i.consumed[k].statement = Com(pl)
  <2>1. PairOf(i.consumed, OldWitness(pl, 1), OldWitness(pl, 2)) BY <1>2 DEF SuppliedPairsAre
  <2>2. DOMAIN i.consumed = 1..2 BY <2>1 DEF PairOf
  <2>3. \A k \in 1..2 : i.consumed[k] = OldWitness(pl, 1) \/ i.consumed[k] = OldWitness(pl, 2) BY <2>1, PairItems
  <2> QED BY <2>2, <2>3 DEF OldWitness
<1>5. \A k \in DOMAIN i.created : i.created[k].statement = Com(pl)
  <2>1. PairOf(i.created, NewWitness(pl, 1), NewWitness(pl, 2)) BY <1>2 DEF SuppliedPairsAre
  <2>2. DOMAIN i.created = 1..2 BY <2>1 DEF PairOf
  <2>3. \A k \in 1..2 : i.created[k] = NewWitness(pl, 1) \/ i.created[k] = NewWitness(pl, 2) BY <2>1, PairItems
  <2> QED BY <2>2, <2>3 DEF NewWitness
<1>6. \A k \in DOMAIN i.consumedCells : i.consumedCells[k].statement = Com(pl)
  <2>1. DOMAIN i.consumedCells = 1..m /\ \A k \in 1..m : i.consumedCells[k] = OldCell(pl, k)
    BY <1>3 DEF SuppliedCellsAre
  <2>2. \A k \in 1..m : OldCell(pl, k).statement = Com(pl) BY DEF OldCell
  <2> QED BY <2>1, <2>2
<1>7. \A k \in DOMAIN i.createdCells : i.createdCells[k].statement = Com(pl)
  <2>1. DOMAIN i.createdCells = 1..n /\ \A k \in 1..n : i.createdCells[k] = NewCell(pl, k)
    BY <1>3 DEF SuppliedCellsAre
  <2>2. \A k \in 1..n : NewCell(pl, k).statement = Com(pl) BY DEF NewCell
  <2> QED BY <2>1, <2>2
<1> QED BY <1>1, <1>4, <1>5, <1>6, <1>7 DEF Bound

\* The notes supplied are the notes of the statement.
LEMMA IdsArePublic ==
  ASSUME NEW pl, HonestPlan(pl), NEW m \in Nat, NEW d \in Nat, NEW n \in Nat, Sizes(pl, m, d, n),
         NEW i, Supplied(pl, i, m, d, n)
  PROVE  /\ ToSet(IdsOf(i.consumed)) \subseteq PublicNotes(i.statement.consumed)
         /\ ToSet(IdsOf(i.created)) \subseteq PublicNotes(i.statement.created)
         /\ Len(i.statement.consumed) = 2 /\ Len(i.statement.created) = 2
<1>1. SuppliedPairsAre(pl, i) BY SuppliedPairs
<1>2. PublicNotesAre(pl, i.statement)
  <2>1. i.statement = Public(pl) BY DEF Supplied
  <2> QED BY <2>1, PublicItems
<1>3. ASSUME NEW k \in DOMAIN i.consumed PROVE i.consumed[k].id \in PublicNotes(i.statement.consumed)
  <2>1. PairOf(i.consumed, OldWitness(pl, 1), OldWitness(pl, 2)) BY <1>1 DEF SuppliedPairsAre
  <2>2. k \in 1..2 BY <2>1 DEF PairOf
  <2>3. i.consumed[k].id = OldId(pl, k)
    <3>1. k = 1 \/ k = 2 BY <2>2
    <3> QED BY <2>1, <3>1 DEF PairOf, OldWitness
  <2>4. k \in DOMAIN i.statement.consumed /\ i.statement.consumed[k].note = OldId(pl, k)
    BY <1>2, <2>2 DEF PublicNotesAre
  <2> QED BY <2>3, <2>4 DEF PublicNotes
<1>4. ASSUME NEW k \in DOMAIN i.created PROVE i.created[k].id \in PublicNotes(i.statement.created)
  <2>1. PairOf(i.created, NewWitness(pl, 1), NewWitness(pl, 2)) BY <1>1 DEF SuppliedPairsAre
  <2>2. k \in 1..2 BY <2>1 DEF PairOf
  <2>3. i.created[k].id = NewId(pl, k)
    <3>1. k = 1 \/ k = 2 BY <2>2
    <3> QED BY <2>1, <3>1 DEF PairOf, NewWitness
  <2>4. k \in DOMAIN i.statement.created /\ i.statement.created[k].note = NewId(pl, k)
    BY <1>2, <2>2 DEF PublicNotesAre
  <2> QED BY <2>3, <2>4 DEF PublicNotes
<1>5. Len(i.statement.consumed) = 2 /\ Len(i.statement.created) = 2 BY <1>2 DEF PublicNotesAre
<1> QED BY <1>3, <1>4, <1>5 DEF ToSet, IdsOf

\* No logical check fails: commitments, counts and identities.
LEMMA LogicalOfPlan ==
  ASSUME NEW pl, HonestPlan(pl), NEW m \in Nat, NEW d \in Nat, NEW n \in Nat, Sizes(pl, m, d, n),
         NEW i, Supplied(pl, i, m, d, n)
  PROVE  Passes(LogicalChecks(i))
<1> DEFINE a == Check(~(/\ Bound(i.consumed, i) /\ Bound(i.created, i)
                        /\ Bound(i.consumedCells, i) /\ Bound(i.createdCells, i)),
                      "witness-identity", "witness-statement-commitment-mismatch")
           b == Check(~Distinct(IdsOf(i.consumed)) \/ ~Distinct(IdsOf(i.created)),
                      "witness-identity", "duplicate-logical-note-witness-identity")
           c1 == CountChecks(Len(i.consumed), Len(i.statement.consumed), "witness-identity",
                             "missing-consumed-logical-note-witness", "extra-consumed-logical-note-witness")
           c2 == CountChecks(Len(i.created), Len(i.statement.created), "witness-identity",
                             "missing-created-logical-note-witness", "extra-created-logical-note-witness")
           e == Check(\/ ~ToSet(IdsOf(i.consumed)) \subseteq PublicNotes(i.statement.consumed)
                      \/ ~ToSet(IdsOf(i.created)) \subseteq PublicNotes(i.statement.created),
                      "witness-identity", "logical-note-commitment-identity-mismatch")
           o1 == OpeningChecks(i.consumed, "consumed-logical-note-opening-commitment-mismatch")
           o2 == OpeningChecks(i.created, "created-logical-note-opening-commitment-mismatch")
           f == Check(~(AssetsOf(i.consumed) \cup AssetsOf(i.created)) \subseteq {AssetId},
                      "witness-identity", "non-canonical-asset-id")
           g == Check(~AssetsOf(i.created) \subseteq AssetsOf(i.consumed),
                      "witness-identity", "consumed-created-asset-id-mismatch")
<1>1. LogicalChecks(i) = <<a, b>> \o c1 \o c2 \o <<e>> \o o1 \o o2 \o <<f, g>> BY DEF LogicalChecks
<1>2. OpenedPair(i.consumed) /\ OpenedPair(i.created) BY SuppliedPairs, PairsAreOpened
<1>3. /\ Distinct(IdsOf(i.consumed)) /\ AssetsOf(i.consumed) = {AssetId}
      /\ Distinct(IdsOf(i.created)) /\ AssetsOf(i.created) = {AssetId}
  BY <1>2, OpenedIds
<1>4. ~a.fails BY BoundOfPlan DEF Check
<1>5. ~b.fails /\ ~f.fails /\ ~g.fails BY <1>3 DEF Check
<1>6. ~e.fails BY IdsArePublic DEF Check
<1>7. Passes(c1) /\ Passes(c2)
  <2>1. Len(i.consumed) = 2 /\ Len(i.created) = 2 BY <1>2 DEF OpenedPair
  <2>2. Len(i.statement.consumed) = 2 /\ Len(i.statement.created) = 2 BY IdsArePublic
  <2>3. 2 \in Nat OBVIOUS
  <2> QED BY <2>1, <2>2, <2>3, PassingCount
<1>8. Passes(o1) /\ Passes(o2) BY <1>2, OpeningsPass
<1> HIDE DEF a, b, c1, c2, e, o1, o2, f, g
<1>9. Passes(<<a, b>>) /\ Passes(<<e>>) /\ Passes(<<f, g>>) BY <1>4, <1>5, <1>6, PassingOne, PassingTwo
<1>10. Passes(<<a, b>> \o c1 \o c2 \o <<e>>) BY <1>7, <1>9, PassingJoinedFour
<1> DEFINE h == <<a, b>> \o c1 \o c2 \o <<e>>
<1> HIDE DEF h
<1>11. Passes(h \o o1 \o o2 \o <<f, g>>) BY <1>8, <1>9, <1>10, PassingJoinedFour DEF h
<1> QED BY <1>1, <1>11 DEF h

(***************************************************************************)
(* Cells: every opened cell is a public one, and its opening opens it.     *)
(***************************************************************************)

\* What one place is picked for.
LEMMA KeptOne ==
  ASSUME NEW s, IsList(s), NEW k \in DOMAIN s, NEW picked, picked = {k}
  PROVE  Kept(s, picked) # <<>> /\ Kept(s, picked)[1] = s[k]
<1>1. picked \in SUBSET (DOMAIN s) /\ picked # {} OBVIOUS
<1>2. Kept(s, picked) # <<>> /\ \E j \in picked : Kept(s, picked)[1] = s[j] BY <1>1, FirstKept
<1> QED BY <1>2

\* The public cell of an index.
CellFound(tuples, k) ==
    /\ IsList(tuples) /\ k \in DOMAIN tuples
    /\ \A j \in DOMAIN tuples : tuples[j].index = tuples[k].index => j = k

\* A cell is found by its index in the statement.
LEMMA PublicCellFound ==
  ASSUME NEW tuples, NEW k, CellFound(tuples, k)
  PROVE  PublicCell(tuples, tuples[k].index) # <<>> /\ PublicCell(tuples, tuples[k].index)[1] = tuples[k]
<1> DEFINE picked == {j \in DOMAIN tuples : tuples[j].index = tuples[k].index}
<1>1. IsList(tuples) /\ k \in DOMAIN tuples BY DEF CellFound
<1>2. picked = {k} BY DEF CellFound
<1>3. PublicCell(tuples, tuples[k].index) = Kept(tuples, picked) BY DEF PublicCell
<1> HIDE DEF picked
<1> QED BY <1>1, <1>2, <1>3, KeptOne

\* A cell that is opened as the public statement says.
CellOpens(w, tuples, k, projected) ==
    /\ CellFound(tuples, k) /\ w.index = tuples[k].index
    /\ w.cell = tuples[k].cell /\ w.opening.profile = tuples[k].profile
    /\ CellCommitment(w.opening) = w.cell
    /\ w.opening.value = At(projected, w.index).value

\* No check of the opening of a cell fails.
LEMMA CellOpeningPasses ==
  ASSUME NEW w, NEW tuples, NEW k, NEW projected, CellOpens(w, tuples, k, projected), NEW valueCode
  PROVE  Passes(CellOpeningChecks(w, tuples, projected, valueCode))
<1> DEFINE public == PublicCell(tuples, w.index)
           named == public # <<>>
           a == Check(named /\ w.cell # public[1].cell,
                      "witness-identity", "backing-cell-seal-commitment-mismatch")
           b == Check(named /\ w.opening.profile # public[1].profile,
                      "witness-identity", "backing-cell-locking-profile-mismatch")
           c == Check(CellCommitment(w.opening) # w.cell,
                      "witness-identity", "backing-cell-opening-commitment-mismatch")
           d == Check(Has(projected, w.index) /\ w.opening.value # At(projected, w.index).value,
                      "witness-identity", valueCode)
<1>1. CellOpeningChecks(w, tuples, projected, valueCode) = <<a, b, c, d>> BY DEF CellOpeningChecks
<1>2. public[1] = tuples[k]
  <2>1. CellFound(tuples, k) /\ w.index = tuples[k].index BY DEF CellOpens
  <2> QED BY <2>1, PublicCellFound
<1> HIDE DEF public
<1>3. /\ w.cell = public[1].cell /\ w.opening.profile = public[1].profile
      /\ CellCommitment(w.opening) = w.cell /\ w.opening.value = At(projected, w.index).value
  BY <1>2 DEF CellOpens
<1>4. ~a.fails /\ ~b.fails /\ ~c.fails /\ ~d.fails BY <1>3 DEF Check
<1> HIDE DEF a, b, c, d
<1> QED BY <1>1, <1>4, PassingFour

(***************************************************************************)
(* The backing inputs and outputs, by the indexes of their cells.          *)
(***************************************************************************)

\* A cell of the statement is a backing input, or output, of the transaction.
BackingInput(pl, s, at, k) ==
    /\ Has(s, at) /\ At(s, at).outpoint = <<pl.tag, k>>
    /\ At(s, at).role = "private-backing" /\ At(s, at).value = pl.profile.cellValue

LEMMA BackingInputs ==
  ASSUME NEW pl, HonestPlan(pl), NEW m \in Nat, NEW d \in Nat, NEW n \in Nat, Sizes(pl, m, d, n), NEW k \in 1..m
  PROVE  BackingInput(pl, Inputs(pl), IndexAt(m, d, k), k)
<1>1. /\ Len(Inputs(pl)) = m + d + 1
      /\ \A j \in 1..(m + d + 1) : InputIs(pl, m, d, Inputs(pl)[j], j)
  BY InputFields DEF Sizes
<1>2. PICK at \in 1..(m + d + 1) : at = IndexAt(m, d, k) + 1 /\ ((at < m /\ at = k) \/ (at = m + d /\ k = m))
  <2>1. CASE k = m
    <3>1. IndexAt(m, d, k) + 1 = m + d BY <2>1 DEF IndexAt
    <3>2. m + d \in 1..(m + d + 1) BY <2>1
    <3> QED BY <2>1, <3>1, <3>2
  <2>2. CASE k < m
    <3>1. IndexAt(m, d, k) + 1 = k BY <2>2 DEF IndexAt
    <3>2. k \in 1..(m + d + 1) BY <2>2
    <3>3. k = IndexAt(m, d, k) + 1 /\ ((k < m /\ k = k) \/ (k = m + d /\ k = m)) BY <2>2, <3>1
    <3> QED BY <3>2, <3>3
  <2> QED BY <2>1, <2>2
<1>3. InputIs(pl, m, d, Inputs(pl)[at], at) BY <1>1
<1>4. OutpointAt(m, d, at) = k BY <1>2 DEF OutpointAt
<1>5. /\ Inputs(pl)[at].outpoint = <<pl.tag, k>> /\ Inputs(pl)[at].role = "private-backing"
      /\ Inputs(pl)[at].value = pl.profile.cellValue
  BY <1>2, <1>3, <1>4 DEF InputIs
<1>6. Has(Inputs(pl), IndexAt(m, d, k))
  <2>1. IndexAt(m, d, k) \in 0..(m + d) BY DEF IndexAt
  <2>2. 0..(Len(Inputs(pl)) - 1) = 0..(m + d) BY <1>1
  <2> QED BY <2>1, <2>2 DEF Has
<1> QED BY <1>2, <1>5, <1>6 DEF BackingInput, At

BackingOutput(pl, s, at, k) ==
    /\ Has(s, at) /\ At(s, at).role = "private-backing" /\ At(s, at).value = pl.profile.cellValue
    /\ At(s, at).lock = Seal(pl.profile, Hash("sha256", pl.newCells[k].exit))

LEMMA BackingOutputs ==
  ASSUME NEW pl, HonestPlan(pl), NEW m \in Nat, NEW d \in Nat, NEW n \in Nat, Sizes(pl, m, d, n), NEW k \in 1..n
  PROVE  BackingOutput(pl, Outputs(pl, Bin(pl)), k - 1, k)
<1> DEFINE s == Outputs(pl, Bin(pl))
<1>1. PICK f \in Nat : f = FeeOutputs(pl) BY DEF FeeOutputs
<1>2. /\ Len(s) = n + 16 + f
      /\ \A j \in 1..(n + 16 + f) : OutputIs(pl, n, Bin(pl), s[j], j)
  BY <1>1, OutputFields DEF Sizes
<1> HIDE DEF s
<1>3. k \in 1..(n + 16 + f) /\ k <= n /\ (k - 1) + 1 = k BY <1>1
<1>4. OutputIs(pl, n, Bin(pl), s[k], k) BY <1>2, <1>3
<1>5. /\ s[k].value = pl.profile.cellValue /\ s[k].role = "private-backing"
      /\ s[k].lock = Seal(pl.profile, Hash("sha256", pl.newCells[k].exit))
  BY <1>3, <1>4 DEF OutputIs
<1>6. Has(s, k - 1)
  <2>1. k - 1 \in 0..(n + 16 + f - 1) BY <1>1
  <2> QED BY <1>2, <2>1 DEF Has
<1>7. At(s, k - 1) = s[k] BY <1>3 DEF At
<1> QED BY <1>5, <1>6, <1>7 DEF BackingOutput, s

\* The cells the honest batch opens are the public ones.
LEMMA OldCellOpens ==
  ASSUME NEW pl, HonestPlan(pl), NEW m \in Nat, NEW d \in Nat, NEW n \in Nat, Sizes(pl, m, d, n), NEW k \in 1..m
  PROVE  /\ CellOpens(OldCell(pl, k), Public(pl).consumedCells, k, Inputs(pl))
         /\ OldCell(pl, k).index = IndexAt(m, d, k) /\ OldCell(pl, k).source = <<pl.tag, k>>
<1> DEFINE tuples == Public(pl).consumedCells
           w == OldCell(pl, k)
           o == OldOpenings(pl)[k]
<1>1. /\ IsList(tuples) /\ DOMAIN tuples = 1..m
      /\ \A j \in 1..m : /\ tuples[j].index = IndexAt(m, d, j)
                         /\ tuples[j].cell = CellCommitment(OldOpenings(pl)[j])
                         /\ tuples[j].profile = LockingProfile(pl.profile)
  <2>1. PublicCellsAre(pl, Public(pl), m, d, n) BY PublicItems
  <2> QED BY <2>1 DEF PublicCellsAre
<1>2. m = Len(pl.cells) /\ d = pl.padding BY DEF Sizes
<1>3. /\ k \in DOMAIN pl.cells /\ pl.cells[k].value = pl.profile.cellValue
  <2>1. UniformCells(pl.cells, pl.profile.cellValue) BY DEF HonestPlan
  <2>2. IsList(pl.cells) BY <2>1 DEF UniformCells
  <2>3. DOMAIN pl.cells = 1..m BY <1>2, <2>2, IsListShape
  <2> QED BY <2>1, <2>3 DEF UniformCells
<1>4. o.value = pl.profile.cellValue /\ o.profile = LockingProfile(pl.profile) BY <1>3 DEF OldOpenings
<1>5. InputIndex(pl, k) = IndexAt(m, d, k) BY <1>2 DEF InputIndex, IndexAt
<1>6. /\ w.index = IndexAt(m, d, k) /\ w.source = <<pl.tag, k>> /\ w.cell = CellCommitment(o) /\ w.opening = o
  BY <1>5 DEF OldCell
<1>7. BackingInput(pl, Inputs(pl), IndexAt(m, d, k), k) BY BackingInputs
<1>8. At(Inputs(pl), w.index).value = pl.profile.cellValue BY <1>6, <1>7 DEF BackingInput
<1> HIDE DEF tuples, w, o
<1>9. CellFound(tuples, k)
  <2>1. ASSUME NEW j \in DOMAIN tuples, tuples[j].index = tuples[k].index PROVE j = k
    <3>1. j \in 1..m /\ IndexAt(m, d, j) = IndexAt(m, d, k) BY <1>1, <2>1
    <3> QED BY <3>1, IndexesSeparate
  <2> QED BY <1>1, <2>1 DEF CellFound
<1>10. CellOpens(w, tuples, k, Inputs(pl))
  <2>1. /\ w.index = tuples[k].index /\ w.cell = tuples[k].cell /\ w.opening.profile = tuples[k].profile
    BY <1>1, <1>4, <1>6 DEF o
  <2>2. CellCommitment(w.opening) = w.cell BY <1>6
  <2>3. w.opening.value = At(Inputs(pl), w.index).value BY <1>4, <1>6, <1>8
  <2> QED BY <1>9, <2>1, <2>2, <2>3 DEF CellOpens
<1> QED BY <1>6, <1>10 DEF tuples, w

\* A created cell is opened by what its owner supplies.
LEMMA NewCellOpens ==
  ASSUME NEW pl, HonestPlan(pl), NEW m \in Nat, NEW d \in Nat, NEW n \in Nat, Sizes(pl, m, d, n), NEW k \in 1..n
  PROVE  /\ CellOpens(NewCell(pl, k), Public(pl).createdCells, k, Outputs(pl, Bin(pl)))
         /\ NewCell(pl, k).index = k - 1
         /\ NewCell(pl, k).opening.slot = k - 1 /\ NewCell(pl, k).opening.scope = Scope(pl)
<1> DEFINE tuples == Public(pl).createdCells
           w == NewCell(pl, k)
           o == NewOnes(pl)[k]
           s == Outputs(pl, Bin(pl))
<1>1. /\ IsList(tuples) /\ DOMAIN tuples = 1..n
      /\ \A j \in 1..n : /\ tuples[j].index = j - 1
                         /\ tuples[j].cell = CellCommitment(NewOnes(pl)[j])
                         /\ tuples[j].profile = LockingProfile(pl.profile)
  <2>1. PublicCellsAre(pl, Public(pl), m, d, n) BY PublicItems
  <2> QED BY <2>1 DEF PublicCellsAre
<1>2. n = Len(pl.newCells) BY DEF Sizes
<1>3. /\ k \in DOMAIN pl.newCells /\ pl.newCells[k].value = pl.profile.cellValue
  <2>1. UniformCells(pl.newCells, pl.profile.cellValue) BY DEF HonestPlan
  <2>2. IsList(pl.newCells) BY <2>1 DEF UniformCells
  <2>3. DOMAIN pl.newCells = 1..n BY <1>2, <2>2, IsListShape
  <2> QED BY <2>1, <2>3 DEF UniformCells
<1>4. /\ o.value = pl.profile.cellValue /\ o.profile = LockingProfile(pl.profile)
      /\ o.slot = k - 1 /\ o.scope = Scope(pl)
  BY <1>3 DEF NewOnes, NewOpenings
<1>6. w.index = k - 1 /\ w.cell = CellCommitment(o) /\ w.opening = o BY DEF NewCell
<1>7. BackingOutput(pl, s, k - 1, k) BY BackingOutputs
<1>8. At(s, w.index).value = pl.profile.cellValue BY <1>6, <1>7 DEF BackingOutput
<1> HIDE DEF tuples, w, o, s
<1>9. CellFound(tuples, k)
  <2>1. ASSUME NEW j \in DOMAIN tuples, tuples[j].index = tuples[k].index PROVE j = k
    <3>1. j \in 1..n /\ j - 1 = k - 1 BY <1>1, <2>1
    <3> QED BY <3>1
  <2> QED BY <1>1, <2>1 DEF CellFound
<1>10. CellOpens(w, tuples, k, s)
  <2>1. /\ w.index = tuples[k].index /\ w.cell = tuples[k].cell /\ w.opening.profile = tuples[k].profile
    BY <1>1, <1>4, <1>6 DEF o
  <2>2. CellCommitment(w.opening) = w.cell BY <1>6
  <2>3. w.opening.value = At(s, w.index).value BY <1>4, <1>6, <1>8
  <2> QED BY <1>9, <2>1, <2>2, <2>3 DEF CellOpens
<1> QED BY <1>4, <1>6, <1>10 DEF tuples, w, s

LEMMA ConsumedCellOfPlan ==
  ASSUME NEW pl, HonestPlan(pl), NEW m \in Nat, NEW d \in Nat, NEW n \in Nat, Sizes(pl, m, d, n),
         NEW i, i.statement = Public(pl), NEW k \in 1..m
  PROVE  Passes(ConsumedCellItemChecks(i, OldCell(pl, k)))
<1> DEFINE w == OldCell(pl, k)
           inputs == i.statement.inputs
           tuples == i.statement.consumedCells
           projected == Has(inputs, w.index)
           a == Check(~projected, "witness-identity", "consumed-backing-cell-input-index-mismatch")
           b == Check(projected /\ At(inputs, w.index).outpoint # w.source,
                      "witness-identity", "consumed-backing-cell-source-outpoint-mismatch")
           c == Check(projected /\ At(inputs, w.index).role = "verifier-only",
                      "consumed-bundle", "verifier-input-used-as-backing")
           e == Check(PublicCell(i.statement.consumedCells, w.index) = <<>>,
                      "consumed-bundle", "bundle-cell-extra")
           o == CellOpeningChecks(w, tuples, inputs, "consumed-cell-value-mismatch")
<1>1. ConsumedCellItemChecks(i, w) = <<a, b, c, e>> \o o BY DEF ConsumedCellItemChecks
<1>2. inputs = Inputs(pl) BY PublicOfPlan
<1>3. /\ CellOpens(w, tuples, k, inputs) /\ w.index = IndexAt(m, d, k) /\ w.source = <<pl.tag, k>>
  BY <1>2, OldCellOpens
<1>4. BackingInput(pl, inputs, IndexAt(m, d, k), k) BY <1>2, BackingInputs
<1> HIDE DEF w, inputs, tuples
<1>5. projected /\ At(inputs, w.index).outpoint = w.source /\ At(inputs, w.index).role = "private-backing"
  BY <1>3, <1>4 DEF BackingInput
<1>6. PublicCell(tuples, w.index) # <<>>
  <2>1. CellFound(tuples, k) /\ w.index = tuples[k].index BY <1>3 DEF CellOpens
  <2> QED BY <2>1, PublicCellFound
<1>7. ~a.fails /\ ~b.fails /\ ~c.fails /\ ~e.fails
  <2>1. "private-backing" # "verifier-only" OBVIOUS
  <2> HIDE DEF projected
  <2>2. a.fails = ~projected /\ b.fails = (projected /\ At(inputs, w.index).outpoint # w.source) BY DEF Check
  <2>3. c.fails = (projected /\ At(inputs, w.index).role = "verifier-only") BY DEF Check
  <2>4. e.fails = (PublicCell(tuples, w.index) = <<>>) BY DEF Check, tuples
  <2> QED BY <1>5, <1>6, <2>1, <2>2, <2>3, <2>4
<1>8. Passes(o) BY <1>3, CellOpeningPasses
<1> HIDE DEF a, b, c, e, o
<1>9. Passes(<<a, b, c, e>>) BY <1>7, PassingFour
<1> QED BY <1>1, <1>8, <1>9, PassingJoined DEF w

LEMMA CreatedCellOfPlan ==
  ASSUME NEW pl, HonestPlan(pl), NEW m \in Nat, NEW d \in Nat, NEW n \in Nat, Sizes(pl, m, d, n),
         NEW i, i.statement = Public(pl), NEW k \in 1..n
  PROVE  Passes(CreatedCellItemChecks(i, NewCell(pl, k)))
<1> DEFINE w == NewCell(pl, k)
           outputs == i.statement.outputs
           tuples == i.statement.createdCells
           role == IF Has(outputs, w.index) THEN At(outputs, w.index).role ELSE "none"
           a == Check(role = "none", "witness-identity", "created-backing-cell-output-index-mismatch")
           b == Check(role # "private-backing", "created-bundle", MisusedOutput(role))
           c == Check(PublicCell(i.statement.createdCells, w.index) = <<>>,
                      "created-bundle", "bundle-cell-extra")
           e == Check(w.opening.slot # w.index,
                      "witness-identity", "created-backing-cell-output-index-mismatch")
           f == Check(w.opening.scope # i.statement.scope,
                      "witness-identity", "created-backing-cell-creation-scope-mismatch")
           o == CellOpeningChecks(w, tuples, outputs, "created-cell-value-mismatch")
<1>1. CreatedCellItemChecks(i, w) = <<a, b, c, e, f>> \o o BY DEF CreatedCellItemChecks
<1>2. outputs = Outputs(pl, Bin(pl)) /\ i.statement.scope = Scope(pl) BY PublicOfPlan
<1>3. /\ CellOpens(w, tuples, k, outputs) /\ w.index = k - 1
      /\ w.opening.slot = k - 1 /\ w.opening.scope = Scope(pl)
  BY <1>2, NewCellOpens
<1>4. BackingOutput(pl, outputs, k - 1, k) BY <1>2, BackingOutputs
<1> HIDE DEF w, outputs, tuples
<1>5. role = "private-backing" BY <1>3, <1>4 DEF BackingOutput
<1>6. PublicCell(tuples, w.index) # <<>>
  <2>1. CellFound(tuples, k) /\ w.index = tuples[k].index BY <1>3 DEF CellOpens
  <2> QED BY <2>1, PublicCellFound
<1>7. ~a.fails /\ ~b.fails /\ ~c.fails /\ ~e.fails /\ ~f.fails
  <2>1. "private-backing" # "none" OBVIOUS
  <2> HIDE DEF role
  <2>2. a.fails = (role = "none") /\ b.fails = (role # "private-backing") BY DEF Check
  <2>3. c.fails = (PublicCell(tuples, w.index) = <<>>) BY DEF Check, tuples
  <2>4. e.fails = (w.opening.slot # w.index) /\ f.fails = (w.opening.scope # i.statement.scope) BY DEF Check
  <2> QED BY <1>2, <1>3, <1>5, <1>6, <2>1, <2>2, <2>3, <2>4
<1>8. Passes(o) BY <1>3, CellOpeningPasses
<1> HIDE DEF a, b, c, e, f, o
<1>9. Passes(<<a, b, c, e, f>>) BY <1>7, PassingFive
<1> QED BY <1>1, <1>8, <1>9, PassingJoined DEF w

\* No check of a cell fails.
LEMMA CellsOfPlan ==
  ASSUME NEW pl, HonestPlan(pl), NEW m \in Nat, NEW d \in Nat, NEW n \in Nat, Sizes(pl, m, d, n),
         NEW i, Supplied(pl, i, m, d, n)
  PROVE  Passes(CellChecks(i))
<1> DEFINE old == i.consumedCells
           new == i.createdCells
           a == Check(~Distinct(CellIdentities(old)),
                      "witness-identity", "duplicate-consumed-backing-cell-witness-identity")
           b == Check(~Distinct(CellIdentities(new)),
                      "witness-identity", "duplicate-created-backing-cell-witness-identity")
           lists == [k \in DOMAIN old |-> ConsumedCellItemChecks(i, old[k])]
           lists2 == [k \in DOMAIN new |-> CreatedCellItemChecks(i, new[k])]
           flat == FlattenSeq(lists)
           flat2 == FlattenSeq(lists2)
<1>1. CellChecks(i) = <<a, b>> \o flat \o flat2
  BY DEF CellChecks, ConsumedCellChecks, CreatedCellChecks, ForEach
<1>2. i.statement = Public(pl) BY DEF Supplied
<1>3. SuppliedCellsAre(pl, i, m, d, n) BY SuppliedCells
<1>4. /\ DOMAIN old = 1..m /\ \A k \in 1..m : old[k] = OldCell(pl, k) /\ old[k].index = IndexAt(m, d, k)
      /\ DOMAIN new = 1..n /\ \A k \in 1..n : new[k] = NewCell(pl, k) /\ new[k].index = k - 1
  BY <1>3 DEF SuppliedCellsAre
<1> HIDE DEF old, new
<1>5. Distinct(CellIdentities(old))
  <2> SUFFICES ASSUME NEW j \in 1..m, NEW k \in 1..m, <<old[j].index, old[j].cell>> = <<old[k].index, old[k].cell>>
               PROVE  j = k
    BY <1>4 DEF Distinct, CellIdentities
  <2>1. IndexAt(m, d, j) = IndexAt(m, d, k) BY <1>4
  <2> QED BY <2>1, IndexesSeparate
<1>6. Distinct(CellIdentities(new))
  <2> SUFFICES ASSUME NEW j \in 1..n, NEW k \in 1..n, <<new[j].index, new[j].cell>> = <<new[k].index, new[k].cell>>
               PROVE  j = k
    BY <1>4 DEF Distinct, CellIdentities
  <2>1. j - 1 = k - 1 BY <1>4
  <2> QED BY <2>1
<1>7. ~a.fails /\ ~b.fails BY <1>5, <1>6 DEF Check
<1>8. lists = [k \in 1..m |-> lists[k]] /\ \A k \in 1..m : Passes(lists[k])
  <2>1. \A k \in 1..m : Passes(ConsumedCellItemChecks(i, OldCell(pl, k))) BY <1>2, ConsumedCellOfPlan
  <2>2. \A k \in 1..m : lists[k] = ConsumedCellItemChecks(i, OldCell(pl, k)) BY <1>4
  <2>3. lists = [k \in 1..m |-> lists[k]] BY <1>4
  <2> HIDE DEF lists
  <2> QED BY <2>1, <2>2, <2>3
<1>9. lists2 = [k \in 1..n |-> lists2[k]] /\ \A k \in 1..n : Passes(lists2[k])
  <2>1. \A k \in 1..n : Passes(CreatedCellItemChecks(i, NewCell(pl, k))) BY <1>2, CreatedCellOfPlan
  <2>2. \A k \in 1..n : lists2[k] = CreatedCellItemChecks(i, NewCell(pl, k)) BY <1>4
  <2>3. lists2 = [k \in 1..n |-> lists2[k]] BY <1>4
  <2> HIDE DEF lists2
  <2> QED BY <2>1, <2>2, <2>3
<1> HIDE DEF lists, lists2
<1>10. Passes(flat) /\ Passes(flat2)
  <2>1. Passes(flat) BY <1>8, PassingFlat
  <2>2. Passes(flat2) BY <1>9, PassingFlat
  <2> QED BY <2>1, <2>2
<1> HIDE DEF a, b, flat, flat2
<1>11. Passes(<<a, b>>) BY <1>7, PassingTwo
<1> QED BY <1>1, <1>10, <1>11, PassingJoinedThree

(***************************************************************************)
(* Exit keys.                                                              *)
(***************************************************************************)

\* A filter that keeps one item.
LEMMA KeptOnlyOne ==
  ASSUME NEW s, IsList(s), NEW k \in DOMAIN s, NEW picked, picked = {k}
  PROVE  \A x \in ToSet(Kept(s, picked)) : x = s[k]
<1> DEFINE kept == Kept(s, picked)
<1>1. s \in Seq(Range(s)) /\ DOMAIN s = 1..Len(s) BY IsListShape
<1>2. picked \in SUBSET (1..Len(s)) BY <1>1
<1>3. kept \in Seq(Range(s)) /\ \A j \in 1..Len(kept) : \E l \in picked : kept[j] = s[l]
  BY <1>1, <1>2, KeptItems
<1> HIDE DEF kept
<1>4. DOMAIN kept = 1..Len(kept) BY <1>3, ListShape
<1>5. \A x \in ToSet(kept) : x = s[k] BY <1>3, <1>4 DEF ToSet
<1> QED BY <1>5 DEF kept

\* The exit key of a created cell.
LEMMA ExitOfPlan ==
  ASSUME NEW pl, HonestPlan(pl), NEW m \in Nat, NEW d \in Nat, NEW n \in Nat, Sizes(pl, m, d, n),
         NEW i, Supplied(pl, i, m, d, n), NEW k \in 1..n
  PROVE  /\ ExitFor(i, i.statement.createdCells[k].index) # <<>>
         /\ ExitFor(i, i.statement.createdCells[k].index)[1].key = pl.newCells[k].exit
         /\ \A w \in ToSet(ExitFor(i, i.statement.createdCells[k].index)) : w.key = pl.newCells[k].exit
<1> DEFINE exits == i.exits
           picked == {j \in DOMAIN exits : exits[j].index = k - 1}
<1>1. i.statement.createdCells[k].index = k - 1
  <2>1. PublicCellsAre(pl, Public(pl), m, d, n) BY PublicItems
  <2>2. i.statement = Public(pl) BY DEF Supplied
  <2> QED BY <2>1, <2>2 DEF PublicCellsAre
<1>2. /\ IsList(exits) /\ DOMAIN exits = 1..n
      /\ \A j \in 1..n : exits[j] = ExitKey(pl, j) /\ exits[j].index = j - 1
  <2>1. SuppliedCellsAre(pl, i, m, d, n) BY SuppliedCells
  <2> QED BY <2>1 DEF SuppliedCellsAre
<1>3. ExitFor(i, k - 1) = Kept(exits, picked) BY DEF ExitFor
<1> HIDE DEF exits
<1>4. picked = {k}
  <2>1. \A j \in 1..n : j - 1 = k - 1 => j = k OBVIOUS
  <2>2. k \in DOMAIN exits BY <1>2
  <2> QED BY <1>2, <2>1, <2>2
<1> HIDE DEF picked
<1>5. k \in DOMAIN exits /\ exits[k].key = pl.newCells[k].exit BY <1>2 DEF ExitKey
<1>6. Kept(exits, picked) # <<>> /\ Kept(exits, picked)[1] = exits[k] BY <1>2, <1>4, <1>5, KeptOne
<1>7. \A x \in ToSet(Kept(exits, picked)) : x = exits[k] BY <1>2, <1>4, <1>5, KeptOnlyOne
<1> QED BY <1>1, <1>3, <1>5, <1>6, <1>7

\* The exit key of a cell is behind the exit commitment and the seal of its output.
LEMMA ExitKeyOfPlan ==
  ASSUME NEW pl, HonestPlan(pl), NEW m \in Nat, NEW d \in Nat, NEW n \in Nat, Sizes(pl, m, d, n),
         NEW i, Supplied(pl, i, m, d, n), NEW k \in 1..n
  PROVE  Passes(ExitKeyChecks(i, k))
<1> DEFINE cell == i.statement.createdCells[k]
           given == ExitFor(i, cell.index)
           key == IF given = <<>> THEN -1 ELSE given[1].key
           lock == At(i.statement.outputs, cell.index).lock
           reused == \E j \in 1 .. k - 1 : \E w \in ToSet(ExitFor(i, i.statement.createdCells[j].index)) : w.key = key
           a == Check(given = <<>>, "created-exit-authority", "exit-authority-material-missing")
           b == Check(~KeyParses(key), "created-exit-authority", "exit-authority-material-malformed")
           c == Check(reused, "created-exit-authority", "exit-authority-public-key-duplicate")
           e == Check(ExitCommitment(key) # cell.exit,
                      "created-exit-authority", "exit-authority-commitment-mismatch")
           f == Check(~IsSeal(i.profile, lock), "created-exit-authority", "created-seal-template-mismatch")
           g == Check(ExitKeyHash(lock) # Hash("sha256", key),
                      "created-exit-authority", "created-seal-exit-key-hash-mismatch")
<1>1. ExitKeyChecks(i, k) = <<a, b, c, e, f, g>> BY DEF ExitKeyChecks
<1>2. i.statement = Public(pl) /\ i.profile = pl.profile BY DEF Supplied
<1>3. cell.index = k - 1 /\ cell.exit = ExitCommitment(pl.newCells[k].exit)
  <2>1. PublicCellsAre(pl, Public(pl), m, d, n) BY PublicItems
  <2> QED BY <1>2, <2>1 DEF PublicCellsAre
<1>4. given # <<>> /\ given[1].key = pl.newCells[k].exit BY ExitOfPlan
<1>5. lock = Seal(pl.profile, Hash("sha256", pl.newCells[k].exit))
  <2>1. i.statement.outputs = Outputs(pl, Bin(pl)) BY <1>2, PublicOfPlan
  <2>2. BackingOutput(pl, Outputs(pl, Bin(pl)), k - 1, k) BY BackingOutputs
  <2> QED BY <1>3, <2>1, <2>2 DEF BackingOutput
<1> HIDE DEF given, lock, cell
<1>6. key = pl.newCells[k].exit BY <1>4
<1> HIDE DEF key
<1>7. DOMAIN pl.newCells = 1..n BY HonestNumbers DEF Sizes
<1>8. KeyParses(key) BY <1>6, <1>7 DEF HonestPlan
<1>9. ~reused
  <2> SUFFICES ASSUME NEW j \in 1..(k - 1), NEW w \in ToSet(ExitFor(i, i.statement.createdCells[j].index)), w.key = key
               PROVE  FALSE
    OBVIOUS
  <2>1. j \in 1..n /\ j # k OBVIOUS
  <2>2. w.key = pl.newCells[j].exit BY <2>1, ExitOfPlan
  <2>3. Distinct([l \in DOMAIN pl.newCells |-> pl.newCells[l].exit]) BY DEF HonestPlan
  <2>4. pl.newCells[j].exit = pl.newCells[k].exit => j = k BY <1>7, <2>1, <2>3 DEF Distinct
  <2> QED BY <1>6, <2>1, <2>2, <2>4
<1>10. IsSeal(i.profile, lock) /\ ExitKeyHash(lock) = Hash("sha256", key)
  BY <1>2, <1>5, <1>6 DEF IsSeal, Seal, ExitKeyHash
<1>11. ~a.fails /\ ~b.fails /\ ~c.fails /\ ~e.fails /\ ~f.fails /\ ~g.fails
  <2> HIDE DEF reused
  <2>1. a.fails = (given = <<>>) /\ b.fails = ~KeyParses(key) BY DEF Check, given
  <2>2. c.fails = reused /\ e.fails = (ExitCommitment(key) # cell.exit) BY DEF Check
  <2>3. f.fails = ~IsSeal(i.profile, lock) /\ g.fails = (ExitKeyHash(lock) # Hash("sha256", key)) BY DEF Check
  <2> HIDE DEF a, b, c, e, f, g
  <2>4. ~a.fails /\ ~b.fails /\ ~c.fails BY <1>4, <1>8, <1>9, <2>1, <2>2
  <2>5. ~e.fails /\ ~f.fails /\ ~g.fails BY <1>3, <1>6, <1>10, <2>2, <2>3
  <2> QED BY <2>4, <2>5
<1> HIDE DEF a, b, c, e, f, g
<1> QED BY <1>1, <1>11, PassingSix

LEMMA ExitItemOfPlan ==
  ASSUME NEW pl, NEW m \in Nat, NEW d \in Nat, NEW n \in Nat, Sizes(pl, m, d, n),
         NEW i, Supplied(pl, i, m, d, n), NEW k \in 1..n
  PROVE  Passes(ExitItemChecks(i, k))
<1> DEFINE a == Check(i.exits[k].statement # StatementCommitment(i.statement),
                      "created-exit-authority", "exit-authority-statement-mismatch")
           b == Check(RepeatsEarlier(IndexesOf(i.exits), k),
                      "created-exit-authority", "exit-authority-material-extra")
<1>1. ExitItemChecks(i, k) = <<a, b>> BY DEF ExitItemChecks
<1>2. DOMAIN i.exits = 1..n /\ \A j \in 1..n : i.exits[j] = ExitKey(pl, j) /\ i.exits[j].index = j - 1
  <2>1. SuppliedCellsAre(pl, i, m, d, n) BY SuppliedCells
  <2> QED BY <2>1 DEF SuppliedCellsAre
<1>3. i.exits[k].statement = StatementCommitment(i.statement)
  <2>1. StatementCommitment(i.statement) = Com(pl) BY ComOfPlan
  <2>2. ExitKey(pl, k).statement = Com(pl) BY DEF ExitKey
  <2> QED BY <1>2, <2>1, <2>2
<1>4. ~RepeatsEarlier(IndexesOf(i.exits), k)
  <2>1. ASSUME NEW j \in 1..(k - 1) PROVE IndexesOf(i.exits)[j] # IndexesOf(i.exits)[k]
    <3>1. j \in 1..n /\ j - 1 # k - 1 OBVIOUS
    <3>2. IndexesOf(i.exits)[j] = j - 1 BY <1>2, <3>1 DEF IndexesOf
    <3>3. IndexesOf(i.exits)[k] = k - 1 BY <1>2 DEF IndexesOf
    <3> QED BY <3>1, <3>2, <3>3
  <2> QED BY <2>1 DEF RepeatsEarlier
<1>5. ~a.fails /\ ~b.fails BY <1>3, <1>4 DEF Check
<1> HIDE DEF a, b
<1> QED BY <1>1, <1>5, PassingTwo

\* No check of an exit key fails.
LEMMA ExitsOfPlan ==
  ASSUME NEW pl, HonestPlan(pl), NEW m \in Nat, NEW d \in Nat, NEW n \in Nat, Sizes(pl, m, d, n),
         NEW i, Supplied(pl, i, m, d, n)
  PROVE  Passes(ExitChecks(i))
<1> DEFINE lists == [k \in DOMAIN i.exits |-> ExitItemChecks(i, k)]
           lists2 == [k \in DOMAIN i.statement.createdCells |-> ExitKeyChecks(i, k)]
           flat == FlattenSeq(lists)
           flat2 == FlattenSeq(lists2)
           a == Check(Len(i.exits) > Len(i.statement.createdCells),
                      "created-exit-authority", "exit-authority-material-extra")
<1>1. ExitChecks(i) = flat \o <<a>> \o flat2 BY DEF ExitChecks, ForEach
<1>2. DOMAIN i.exits = 1..n /\ Len(i.exits) = n
  <2>1. SuppliedCellsAre(pl, i, m, d, n) BY SuppliedCells
  <2> QED BY <2>1 DEF SuppliedCellsAre
<1>3. DOMAIN i.statement.createdCells = 1..n /\ Len(i.statement.createdCells) = n
  <2>1. PublicCellsAre(pl, Public(pl), m, d, n) BY PublicItems
  <2>2. i.statement = Public(pl) BY DEF Supplied
  <2> QED BY <2>1, <2>2 DEF PublicCellsAre
<1>4. ~a.fails
  <2>1. ~(Len(i.exits) > Len(i.statement.createdCells)) BY <1>2, <1>3
  <2> QED BY <2>1 DEF Check
<1>5. Passes(flat)
  <2>1. \A k \in 1..n : Passes(ExitItemChecks(i, k)) BY ExitItemOfPlan
  <2>2. lists = [k \in 1..n |-> lists[k]] /\ \A k \in 1..n : Passes(lists[k]) BY <1>2, <2>1
  <2> HIDE DEF lists
  <2> QED BY <2>2, PassingFlat
<1>6. Passes(flat2)
  <2>1. \A k \in 1..n : Passes(ExitKeyChecks(i, k)) BY ExitKeyOfPlan
  <2>2. lists2 = [k \in 1..n |-> lists2[k]] /\ \A k \in 1..n : Passes(lists2[k]) BY <1>3, <2>1
  <2> HIDE DEF lists2
  <2> QED BY <2>2, PassingFlat
<1> HIDE DEF a, flat, flat2
<1>7. Passes(<<a>>) BY <1>4, PassingOne
<1> QED BY <1>1, <1>5, <1>6, <1>7, PassingJoinedThree

(***************************************************************************)
(* Conservation.                                                           *)
(***************************************************************************)

\* The sum of a side's notes.
NotesWorth(items) == Sum(items, LAMBDA w : w.note.value)

LEMMA PairSum ==
  ASSUME NEW items, DOMAIN items = 1..2, items[1].note.value \in Int, items[2].note.value \in Int
  PROVE  NotesWorth(items) = items[1].note.value + items[2].note.value
<1> DEFINE values == [k \in DOMAIN items |-> items[k].note.value]
<1>1. values \in [1..2 -> Int]
  <2>1. \A k \in 1..2 : items[k].note.value \in Int
    <3> SUFFICES ASSUME NEW k \in 1..2 PROVE items[k].note.value \in Int OBVIOUS
    <3>1. k = 1 \/ k = 2 OBVIOUS
    <3> QED BY <3>1
  <2> QED BY <2>1
<1>2. values[1] = items[1].note.value /\ values[2] = items[2].note.value OBVIOUS
<1>3. NotesWorth(items) = TotalOf(values) BY DEF Sum, NotesWorth
<1> HIDE DEF values
<1> QED BY <1>1, <1>2, <1>3, PairTotal

\* The private sums are conserved.
LEMMA ConservationOfPlan ==
  ASSUME NEW pl, HonestPlan(pl), NEW m \in Nat, NEW d \in Nat, NEW n \in Nat, Sizes(pl, m, d, n),
         NEW i, Supplied(pl, i, m, d, n)
  PROVE  Passes(ConservationChecks(i))
<1> DEFINE consumed == NotesWorth(i.consumed)
           created == NotesWorth(i.created)
           fee == i.statement.networkFee + i.statement.serviceFee
           a == Check(\E t \in {consumed, created, fee, created + fee} : Overflows(t),
                      "private-value-arithmetic", "private-value-sum-overflow")
           b == Check(consumed # created + fee, "private-conservation", "private-conservation-mismatch")
           c == pl.profile.cellValue
<1>1. ConservationChecks(i) = <<a, b>> BY DEF ConservationChecks, NotesWorth
<1>2. c \in Nat /\ pl.networkFee \in Nat /\ pl.serviceFee \in Nat /\ MaxMoney \in Nat
  BY MoneyOfPlan DEF Money
<1>3. /\ m * c \in Nat /\ n * c \in Nat /\ m * c = n * c + pl.networkFee + pl.serviceFee
      /\ m * c + 17 <= MaxMoney
  BY MoneyOfPlan DEF Money
<1>4. m = Len(pl.cells) /\ n = Len(pl.newCells) BY DEF Sizes
<1>5. consumed = m * c
  <2>1. PairOf(i.consumed, OldWitness(pl, 1), OldWitness(pl, 2)) BY SuppliedPairs DEF SuppliedPairsAre
  <2>2. /\ pl.notes[1].value \in Nat /\ pl.notes[2].value \in Nat
        /\ pl.notes[1].value + pl.notes[2].value = m * c
    <3>1. UniformCells(pl.cells, c) /\ NotesBacked(pl.notes, pl.cells, c) BY DEF HonestPlan
    <3> HIDE DEF c
    <3> QED BY <1>2, <1>4, <3>1, NotesTotal
  <2>3. /\ DOMAIN i.consumed = 1..2
        /\ i.consumed[1].note.value = pl.notes[1].value /\ i.consumed[2].note.value = pl.notes[2].value
    BY <2>1 DEF PairOf, OldWitness, OldNote, MakeNote
  <2>4. consumed = i.consumed[1].note.value + i.consumed[2].note.value
    <3>1. i.consumed[1].note.value \in Int /\ i.consumed[2].note.value \in Int BY <2>2, <2>3
    <3>2. DOMAIN i.consumed = 1..2 BY <2>3
    <3> QED BY <3>1, <3>2, PairSum
  <2> HIDE DEF consumed, c
  <2> QED BY <2>2, <2>3, <2>4
<1>6. created = n * c
  <2>1. PairOf(i.created, NewWitness(pl, 1), NewWitness(pl, 2)) BY SuppliedPairs DEF SuppliedPairsAre
  <2>2. /\ pl.newNotes[1].value \in Nat /\ pl.newNotes[2].value \in Nat
        /\ pl.newNotes[1].value + pl.newNotes[2].value = n * c
    <3>1. UniformCells(pl.newCells, c) /\ NotesBacked(pl.newNotes, pl.newCells, c) BY DEF HonestPlan
    <3> HIDE DEF c
    <3> QED BY <1>2, <1>4, <3>1, NotesTotal
  <2>3. /\ DOMAIN i.created = 1..2
        /\ i.created[1].note.value = pl.newNotes[1].value /\ i.created[2].note.value = pl.newNotes[2].value
    BY <2>1 DEF PairOf, NewWitness, NewNote, MakeNote
  <2>4. created = i.created[1].note.value + i.created[2].note.value
    <3>1. i.created[1].note.value \in Int /\ i.created[2].note.value \in Int BY <2>2, <2>3
    <3>2. DOMAIN i.created = 1..2 BY <2>3
    <3> QED BY <3>1, <3>2, PairSum
  <2> HIDE DEF created, c
  <2> QED BY <2>2, <2>3, <2>4
<1>7. fee = pl.networkFee + pl.serviceFee
  <2>1. i.statement = Public(pl) BY DEF Supplied
  <2>2. Public(pl).networkFee = pl.networkFee /\ Public(pl).serviceFee = pl.serviceFee BY PublicOfPlan
  <2> QED BY <2>1, <2>2
<1>8. PICK u \in Nat : u = m * c BY <1>3
<1>9. PICK v \in Nat : v = n * c BY <1>3
<1> HIDE DEF consumed, created, fee, c
<1>10. u = v + fee /\ fee \in Nat /\ u <= MaxMoney BY <1>2, <1>3, <1>7, <1>8, <1>9
<1>11. u <= MaxMoney /\ v <= MaxMoney /\ fee <= MaxMoney /\ v + fee <= MaxMoney BY <1>2, <1>10
<1>12. ~\E t \in {consumed, created, fee, created + fee} : Overflows(t)
  <2>1. consumed = u /\ created = v BY <1>5, <1>6, <1>8, <1>9
  <2>2. ASSUME NEW t \in {u, v, fee, v + fee} PROVE ~Overflows(t)
    <3>1. t = u \/ t = v \/ t = fee \/ t = v + fee OBVIOUS
    <3>2. t <= MaxMoney /\ t \in Nat BY <1>10, <1>11, <3>1
    <3> QED BY <1>2, <3>2 DEF Overflows
  <2> QED BY <2>1, <2>2
<1>13. consumed = created + fee BY <1>5, <1>6, <1>8, <1>9, <1>10
<1>14. ~a.fails /\ ~b.fails BY <1>12, <1>13 DEF Check
<1> HIDE DEF a, b
<1> QED BY <1>1, <1>14, PassingTwo

(***************************************************************************)
(* Authorities and nullifiers.                                             *)
(***************************************************************************)

\* The witness of an identifier, and the identifiers of a pair.
LEMMA PairFound ==
  ASSUME NEW s, NEW a, NEW b, PairOf(s, a, b), a.id # b.id, NEW k \in 1..2
  PROVE  /\ Opening(s, s[k].id) # <<>> /\ Opening(s, s[k].id)[1] = s[k]
         /\ ~RepeatsEarlier(IdsOf(s), k)
<1> DEFINE picked == {j \in DOMAIN s : s[j].id = s[k].id}
<1>1. IsList(s) /\ DOMAIN s = 1..2 /\ s[1].id # s[2].id BY DEF PairOf
<1>2. k = 1 \/ k = 2 OBVIOUS
<1>3. picked = {k}
  <2>1. ASSUME NEW j \in 1..2, s[j].id = s[k].id PROVE j = k
    <3>1. j = 1 \/ j = 2 OBVIOUS
    <3> QED BY <1>1, <1>2, <2>1, <3>1
  <2> QED BY <1>1, <2>1
<1>4. Opening(s, s[k].id) = Kept(s, picked) BY DEF Opening
<1> HIDE DEF picked
<1>5. Opening(s, s[k].id) # <<>> /\ Opening(s, s[k].id)[1] = s[k] BY <1>1, <1>3, <1>4, KeptOne
<1>6. ~RepeatsEarlier(IdsOf(s), k)
  <2>1. ASSUME NEW j \in 1..(k - 1) PROVE IdsOf(s)[j] # IdsOf(s)[k]
    <3>1. j = 1 /\ k = 2 BY <1>2
    <3> QED BY <1>1, <3>1 DEF IdsOf
  <2> QED BY <2>1 DEF RepeatsEarlier
<1> QED BY <1>5, <1>6

\* The pairs of the plan, and the witness each item of theirs names.
LEMMA OldPairs ==
  ASSUME NEW pl, NEW i, SuppliedPairsAre(pl, i), NEW k \in 1..2
  PROVE  /\ i.authorities[k] = Authority(pl, k) /\ i.nullifiers[k] = Spent(pl, k)
         /\ ~RepeatsEarlier(IdsOf(i.authorities), k) /\ ~RepeatsEarlier(IdsOf(i.nullifiers), k)
         /\ Opening(i.consumed, OldId(pl, k)) # <<>>
         /\ Opening(i.consumed, OldId(pl, k))[1] = OldWitness(pl, k)
<1>1. /\ PairOf(i.consumed, OldWitness(pl, 1), OldWitness(pl, 2))
      /\ PairOf(i.authorities, Authority(pl, 1), Authority(pl, 2))
      /\ PairOf(i.nullifiers, Spent(pl, 1), Spent(pl, 2))
  BY DEF SuppliedPairsAre
<1>2. OldId(pl, 1) # OldId(pl, 2) BY IdsDiffer
<1>3. \A j \in 1..2 : /\ OldWitness(pl, j).id = OldId(pl, j) /\ Authority(pl, j).id = OldId(pl, j)
                      /\ Spent(pl, j).id = OldId(pl, j)
  BY DEF OldWitness, Authority, Spent
<1>4. /\ i.consumed[k] = OldWitness(pl, k) /\ i.authorities[k] = Authority(pl, k) /\ i.nullifiers[k] = Spent(pl, k)
  <2>1. k = 1 \/ k = 2 OBVIOUS
  <2> QED BY <1>1, <2>1 DEF PairOf
<1>5. Opening(i.consumed, i.consumed[k].id) # <<>> /\ Opening(i.consumed, i.consumed[k].id)[1] = i.consumed[k]
  <2>1. OldWitness(pl, 1).id # OldWitness(pl, 2).id BY <1>2, <1>3
  <2> QED BY <1>1, <2>1, PairFound
<1>6. ~RepeatsEarlier(IdsOf(i.authorities), k)
  <2>1. Authority(pl, 1).id # Authority(pl, 2).id BY <1>2, <1>3
  <2> QED BY <1>1, <2>1, PairFound
<1>7. ~RepeatsEarlier(IdsOf(i.nullifiers), k)
  <2>1. Spent(pl, 1).id # Spent(pl, 2).id BY <1>2, <1>3
  <2> QED BY <1>1, <2>1, PairFound
<1>8. i.consumed[k].id = OldId(pl, k) BY <1>3, <1>4
<1> QED BY <1>4, <1>5, <1>6, <1>7, <1>8

LEMMA AuthorityItemOfPlan ==
  ASSUME NEW pl, HonestPlan(pl), NEW m \in Nat, NEW d \in Nat, NEW n \in Nat, Sizes(pl, m, d, n),
         NEW i, Supplied(pl, i, m, d, n), NEW k \in 1..2
  PROVE  Passes(AuthorityItemChecks(i, k))
<1> DEFINE w == i.authorities[k]
           found == Opening(i.consumed, w.id)
           message == SpendMessage(StatementCommitment(i.statement), w.note, w.bundle)
           a == Check(w.statement # StatementCommitment(i.statement),
                      "consumed-authority", "authority-statement-mismatch")
           b == Check(RepeatsEarlier(IdsOf(i.authorities), k) \/ ~NamesNote(w, found),
                      "consumed-authority", "authority-note-mismatch")
           c == Check(~NamesBundle(w, found), "consumed-authority", "authority-bundle-mismatch")
           e == Check(found # <<>> /\ OwnerCommitment(w.key) # found[1].note.owner,
                      "consumed-authority", "authority-commitment-mismatch")
           f == Check(~KeyParses(w.key), "consumed-authority", "authority-public-key-malformed")
           g == Check(w.signature # Signature(w.key, message),
                      "consumed-authority", "authority-signature-invalid")
<1>1. AuthorityItemChecks(i, k) = <<a, b, c, e, f, g>> BY DEF AuthorityItemChecks
<1>2. StatementCommitment(i.statement) = Com(pl) BY ComOfPlan
<1>3. /\ w = Authority(pl, k) /\ ~RepeatsEarlier(IdsOf(i.authorities), k)
      /\ Opening(i.consumed, OldId(pl, k)) # <<>>
      /\ Opening(i.consumed, OldId(pl, k))[1] = OldWitness(pl, k)
  BY SuppliedPairs, OldPairs
<1>4. /\ Authority(pl, k).statement = Com(pl) /\ Authority(pl, k).id = OldId(pl, k)
      /\ Authority(pl, k).note = OldId(pl, k) /\ Authority(pl, k).bundle = OldNote(pl, k).bundle
      /\ Authority(pl, k).key = pl.notes[k].key
      /\ Authority(pl, k).signature
           = Signature(pl.notes[k].key, SpendMessage(Com(pl), OldId(pl, k), OldNote(pl, k).bundle))
  BY DEF Authority
<1>5. /\ OldWitness(pl, k).id = OldId(pl, k) /\ OldWitness(pl, k).note = OldNote(pl, k)
      /\ OldNote(pl, k).owner = OwnerCommitment(pl.notes[k].key)
  BY DEF OldWitness, OldNote, MakeNote
<1>6. KeyParses(pl.notes[k].key) BY DEF HonestPlan
<1> HIDE DEF w
<1>7. /\ w.statement = Com(pl) /\ w.id = OldId(pl, k) /\ w.note = OldId(pl, k) /\ w.bundle = OldNote(pl, k).bundle
      /\ w.key = pl.notes[k].key /\ w.signature = Signature(w.key, SpendMessage(Com(pl), w.note, w.bundle))
  BY <1>3, <1>4
<1>8. found # <<>> /\ found[1].id = OldId(pl, k) /\ found[1].note = OldNote(pl, k) BY <1>3, <1>5, <1>7
<1> HIDE DEF found
<1>9. ~a.fails /\ ~b.fails BY <1>2, <1>3, <1>7, <1>8 DEF Check, NamesNote
<1>10. ~c.fails /\ ~e.fails BY <1>5, <1>7, <1>8 DEF Check, NamesBundle
<1>11. ~f.fails /\ ~g.fails BY <1>2, <1>6, <1>7 DEF Check
<1> HIDE DEF a, b, c, e, f, g
<1> QED BY <1>1, <1>9, <1>10, <1>11, PassingSix

\* Every consumed note has its owner's signature.
LEMMA AuthorityOfPlan ==
  ASSUME NEW pl, HonestPlan(pl), NEW m \in Nat, NEW d \in Nat, NEW n \in Nat, Sizes(pl, m, d, n),
         NEW i, Supplied(pl, i, m, d, n)
  PROVE  Passes(AuthorityChecks(i))
<1> DEFINE count == CountChecks(Len(i.authorities), Len(i.consumed), "consumed-authority",
                                "authority-material-missing", "authority-material-malformed")
           lists == [k \in DOMAIN i.authorities |-> AuthorityItemChecks(i, k)]
           flat == FlattenSeq(lists)
<1>1. AuthorityChecks(i) = count \o flat BY DEF AuthorityChecks, ForEach
<1>2. Len(i.authorities) = 2 /\ Len(i.consumed) = 2 /\ DOMAIN i.authorities = 1..2
  <2>1. SuppliedPairsAre(pl, i) BY SuppliedPairs
  <2> QED BY <2>1 DEF SuppliedPairsAre, PairOf
<1>3. Passes(count)
  <2>1. 2 \in Nat OBVIOUS
  <2> QED BY <1>2, <2>1, PassingCount
<1>4. Passes(flat)
  <2>1. \A k \in 1..2 : Passes(AuthorityItemChecks(i, k)) BY AuthorityItemOfPlan
  <2>2. lists = [k \in 1..2 |-> lists[k]] /\ \A k \in 1..2 : Passes(lists[k]) BY <1>2, <2>1
  <2>3. 2 \in Nat OBVIOUS
  <2> HIDE DEF lists
  <2> QED BY <2>2, <2>3, PassingFlat
<1> HIDE DEF count, flat
<1> QED BY <1>1, <1>3, <1>4, PassingJoined

\* The nullifiers derived are those of the statement.
LEMMA DerivedOfPlan ==
  ASSUME NEW pl, NEW m, NEW d, NEW n, NEW i, Supplied(pl, i, m, d, n)
  PROVE  PairOf(DerivedNullifiers(i), PlanNullifier(pl, 1), PlanNullifier(pl, 2))
<1> DEFINE derived == DerivedNullifiers(i)
<1>1. SuppliedPairsAre(pl, i) BY SuppliedPairs
<1>2. DOMAIN i.nullifiers = 1..2 BY <1>1 DEF SuppliedPairsAre, PairOf
<1>3. derived = [k \in 1..2 |-> DerivedNullifier(i.nullifiers[k], Opening(i.consumed, i.nullifiers[k].id))]
  BY <1>2 DEF DerivedNullifiers
<1>4. ASSUME NEW k \in 1..2
      PROVE  DerivedNullifier(i.nullifiers[k], Opening(i.consumed, i.nullifiers[k].id)) = PlanNullifier(pl, k)
  <2>1. /\ i.nullifiers[k] = Spent(pl, k) /\ Opening(i.consumed, OldId(pl, k)) # <<>>
        /\ Opening(i.consumed, OldId(pl, k))[1] = OldWitness(pl, k)
    BY <1>1, OldPairs
  <2>2. Spent(pl, k).id = OldId(pl, k) /\ Spent(pl, k).key = pl.notes[k].key BY DEF Spent
  <2>3. OldWitness(pl, k).id = OldId(pl, k) /\ OldWitness(pl, k).note = OldNote(pl, k) BY DEF OldWitness
  <2> QED BY <2>1, <2>2, <2>3 DEF DerivedNullifier, PlanNullifier
<1>5. derived = [k \in 1..2 |-> PlanNullifier(pl, k)] BY <1>3, <1>4
<1>6. IsList(derived) /\ Len(derived) = 2 /\ DOMAIN derived = 1..2
  <2>1. derived = [k \in 1..2 |-> derived[k]] BY <1>5
  <2>2. 2 \in Nat OBVIOUS
  <2> HIDE DEF derived
  <2> QED BY <2>1, <2>2, IntervalIsList
<1>7. derived[1] = PlanNullifier(pl, 1) /\ derived[2] = PlanNullifier(pl, 2) BY <1>5
<1> HIDE DEF derived
<1>8. PairOf(derived, PlanNullifier(pl, 1), PlanNullifier(pl, 2)) BY <1>6, <1>7 DEF PairOf
<1> QED BY <1>8 DEF derived

LEMMA DerivedItem ==
  ASSUME NEW pl, NEW derived, PairOf(derived, PlanNullifier(pl, 1), PlanNullifier(pl, 2)), NEW k \in 1..2
  PROVE  derived[k] = PlanNullifier(pl, k) /\ ~RepeatsEarlier(derived, k)
<1>1. k = 1 \/ k = 2 OBVIOUS
<1>2. derived[1] = PlanNullifier(pl, 1) /\ derived[2] = PlanNullifier(pl, 2) BY DEF PairOf
<1>3. PlanNullifier(pl, 1) # PlanNullifier(pl, 2) BY IdsDiffer
<1>4. ~RepeatsEarlier(derived, k)
  <2>1. ASSUME NEW j \in 1..(k - 1) PROVE derived[j] # derived[k]
    <3>1. j = 1 /\ k = 2 BY <1>1
    <3> QED BY <1>2, <1>3, <3>1
  <2> QED BY <2>1 DEF RepeatsEarlier
<1> QED BY <1>1, <1>2, <1>4

LEMMA NullifierItemOfPlan ==
  ASSUME NEW pl, HonestPlan(pl), NEW m \in Nat, NEW d \in Nat, NEW n \in Nat, Sizes(pl, m, d, n),
         NEW i, Supplied(pl, i, m, d, n), NEW k \in 1..2
  PROVE  Passes(NullifierItemChecks(i, k))
<1> DEFINE w == i.nullifiers[k]
           found == Opening(i.consumed, w.id)
           derived == DerivedNullifiers(i)
           owned == \E x \in ToSet(i.authorities) : x.id = w.id /\ x.key = w.key
           a == Check(w.statement # StatementCommitment(i.statement),
                      "consumed-nullifier", "nullifier-statement-mismatch")
           b == Check(~NamesNote(w, found), "consumed-nullifier", "nullifier-note-mismatch")
           c == Check(~NamesBundle(w, found), "consumed-nullifier", "nullifier-bundle-mismatch")
           e == Check(~owned \/ derived[k] # w.nullifier, "consumed-nullifier", "nullifier-derivation-mismatch")
           f == Check(RepeatsEarlier(IdsOf(i.nullifiers), k) \/ RepeatsEarlier(derived, k),
                      "consumed-nullifier", "nullifier-duplicate")
<1>1. NullifierItemChecks(i, k) = <<a, b, c, e, f>> BY DEF NullifierItemChecks
<1>2. StatementCommitment(i.statement) = Com(pl) BY ComOfPlan
<1>3. /\ w = Spent(pl, k) /\ ~RepeatsEarlier(IdsOf(i.nullifiers), k)
      /\ Opening(i.consumed, OldId(pl, k)) # <<>>
      /\ Opening(i.consumed, OldId(pl, k))[1] = OldWitness(pl, k)
      /\ i.authorities[k] = Authority(pl, k)
  BY SuppliedPairs, OldPairs
<1>4. /\ Spent(pl, k).statement = Com(pl) /\ Spent(pl, k).id = OldId(pl, k)
      /\ Spent(pl, k).note = OldId(pl, k) /\ Spent(pl, k).bundle = OldNote(pl, k).bundle
      /\ Spent(pl, k).key = pl.notes[k].key /\ Spent(pl, k).nullifier = PlanNullifier(pl, k)
  BY DEF Spent
<1>5. /\ OldWitness(pl, k).id = OldId(pl, k) /\ OldWitness(pl, k).note = OldNote(pl, k)
      /\ Authority(pl, k).id = OldId(pl, k) /\ Authority(pl, k).key = pl.notes[k].key
  BY DEF OldWitness, Authority
<1>6. derived[k] = PlanNullifier(pl, k) /\ ~RepeatsEarlier(derived, k)
  <2>1. PairOf(DerivedNullifiers(i), PlanNullifier(pl, 1), PlanNullifier(pl, 2)) BY DerivedOfPlan
  <2> QED BY <2>1, DerivedItem
<1>7. k \in DOMAIN i.authorities
  <2>1. SuppliedPairsAre(pl, i) BY SuppliedPairs
  <2> QED BY <2>1 DEF SuppliedPairsAre, PairOf
<1> HIDE DEF w, derived
<1>8. /\ w.statement = Com(pl) /\ w.id = OldId(pl, k) /\ w.note = OldId(pl, k) /\ w.bundle = OldNote(pl, k).bundle
      /\ w.key = pl.notes[k].key /\ w.nullifier = PlanNullifier(pl, k)
  BY <1>3, <1>4
<1>9. found # <<>> /\ found[1].id = OldId(pl, k) /\ found[1].note = OldNote(pl, k) BY <1>3, <1>5, <1>8
<1>10. owned
  <2>1. i.authorities[k] \in ToSet(i.authorities) BY <1>7 DEF ToSet
  <2>2. i.authorities[k].id = w.id /\ i.authorities[k].key = w.key BY <1>3, <1>5, <1>8
  <2> QED BY <2>1, <2>2
<1> HIDE DEF found, owned
<1>11. ~a.fails /\ ~b.fails BY <1>2, <1>8, <1>9 DEF Check, NamesNote
<1>12. ~c.fails BY <1>8, <1>9 DEF Check, NamesBundle
<1>13. ~e.fails /\ ~f.fails BY <1>3, <1>6, <1>8, <1>10 DEF Check
<1> HIDE DEF a, b, c, e, f
<1> QED BY <1>1, <1>11, <1>12, <1>13, PassingFive

\* What the nullifiers are compared with as a whole.
NullifiersMatch(i) ==
    LET derived == DerivedNullifiers(i)
    IN  /\ ToSet(derived) = {i.statement.consumed[k].nullifier : k \in DOMAIN i.statement.consumed}
        /\ \A k \in DOMAIN i.nullifiers :
               \E t \in ToSet(i.statement.consumed) : t.note = i.nullifiers[k].id /\ t.nullifier = derived[k]

LEMMA NullifiersCorrespond ==
  ASSUME NEW pl, HonestPlan(pl), NEW m \in Nat, NEW d \in Nat, NEW n \in Nat, Sizes(pl, m, d, n),
         NEW i, Supplied(pl, i, m, d, n)
  PROVE  NullifiersMatch(i)
<1> DEFINE derived == DerivedNullifiers(i)
           public == {i.statement.consumed[k].nullifier : k \in DOMAIN i.statement.consumed}
<1>1. SuppliedPairsAre(pl, i) BY SuppliedPairs
<1>2. PairOf(derived, PlanNullifier(pl, 1), PlanNullifier(pl, 2)) BY DerivedOfPlan
<1>3. DOMAIN derived = 1..2 /\ \A k \in 1..2 : derived[k] = PlanNullifier(pl, k) BY <1>2, DerivedItem DEF PairOf
<1>4. /\ DOMAIN i.statement.consumed = 1..2
      /\ \A j \in 1..2 : /\ i.statement.consumed[j].note = OldId(pl, j)
                         /\ i.statement.consumed[j].nullifier = PlanNullifier(pl, j)
  <2>1. PublicNotesAre(pl, Public(pl)) BY PublicItems
  <2>2. i.statement = Public(pl) BY DEF Supplied
  <2> QED BY <2>1, <2>2 DEF PublicNotesAre
<1>5. public = {PlanNullifier(pl, k) : k \in 1..2} BY <1>4
<1>6. ToSet(derived) = {PlanNullifier(pl, k) : k \in 1..2} BY <1>3 DEF ToSet
<1>7. ASSUME NEW k \in DOMAIN i.nullifiers
      PROVE  \E t \in ToSet(i.statement.consumed) : t.note = i.nullifiers[k].id /\ t.nullifier = derived[k]
  <2>1. k \in 1..2 BY <1>1 DEF SuppliedPairsAre, PairOf
  <2>2. i.nullifiers[k] = Spent(pl, k) BY <1>1, <2>1, OldPairs
  <2>3. i.nullifiers[k].id = OldId(pl, k) BY <2>2 DEF Spent
  <2>4. i.statement.consumed[k] \in ToSet(i.statement.consumed) BY <1>4, <2>1 DEF ToSet
  <2>5. i.statement.consumed[k].note = i.nullifiers[k].id /\ i.statement.consumed[k].nullifier = derived[k]
    BY <1>3, <1>4, <2>1, <2>3
  <2> QED BY <2>4, <2>5
<1> QED BY <1>5, <1>6, <1>7 DEF NullifiersMatch

\* No check of a nullifier fails.
LEMMA NullifiersOfPlan ==
  ASSUME NEW pl, HonestPlan(pl), NEW m \in Nat, NEW d \in Nat, NEW n \in Nat, Sizes(pl, m, d, n),
         NEW i, Supplied(pl, i, m, d, n)
  PROVE  Passes(NullifierChecks(i))
<1> DEFINE derived == DerivedNullifiers(i)
           public == {i.statement.consumed[k].nullifier : k \in DOMAIN i.statement.consumed}
           stage == "statement-nullifier-correspondence"
           count == CountChecks(Len(i.nullifiers), Len(i.consumed), stage,
                                "statement-nullifier-missing", "statement-nullifier-extra")
           lists == [k \in DOMAIN i.nullifiers |-> NullifierItemChecks(i, k)]
           flat == FlattenSeq(lists)
           all == \A k \in DOMAIN i.nullifiers :
                      \E t \in ToSet(i.statement.consumed) : t.note = i.nullifiers[k].id /\ t.nullifier = derived[k]
           a == Check(~ToSet(derived) \subseteq public, stage, "statement-nullifier-missing")
           b == Check(~public \subseteq ToSet(derived), stage, "statement-nullifier-extra")
           c == Check(\E k \in DOMAIN i.nullifiers :
                        ~\E t \in ToSet(i.statement.consumed) :
                            t.note = i.nullifiers[k].id /\ t.nullifier = derived[k],
                      stage, "statement-nullifier-mismatch")
<1>1. NullifierChecks(i) = count \o flat \o <<a, b, c>> BY DEF NullifierChecks, ForEach
<1>2. Len(i.nullifiers) = 2 /\ Len(i.consumed) = 2 /\ DOMAIN i.nullifiers = 1..2
  <2>1. SuppliedPairsAre(pl, i) BY SuppliedPairs
  <2> QED BY <2>1 DEF SuppliedPairsAre, PairOf
<1>3. Passes(count)
  <2>1. 2 \in Nat OBVIOUS
  <2> QED BY <1>2, <2>1, PassingCount
<1>4. Passes(flat)
  <2>1. \A k \in 1..2 : Passes(NullifierItemChecks(i, k)) BY NullifierItemOfPlan
  <2>2. lists = [k \in 1..2 |-> lists[k]] /\ \A k \in 1..2 : Passes(lists[k]) BY <1>2, <2>1
  <2>3. 2 \in Nat OBVIOUS
  <2> HIDE DEF lists
  <2> QED BY <2>2, <2>3, PassingFlat
<1>5. ToSet(derived) = public /\ all
  <2>1. NullifiersMatch(i) BY NullifiersCorrespond
  <2> QED BY <2>1 DEF NullifiersMatch
<1>6. ~a.fails /\ ~b.fails /\ ~c.fails
  <2>1. a.fails = ~(ToSet(derived) \subseteq public) /\ b.fails = ~(public \subseteq ToSet(derived)) /\ c.fails = ~all
    BY DEF Check
  <2> HIDE DEF a, b, c, derived, public, all
  <2> QED BY <1>5, <2>1
<1> HIDE DEF a, b, c, count, flat
<1>7. Passes(<<a, b, c>>) BY <1>6, PassingThree
<1> QED BY <1>1, <1>3, <1>4, <1>7, PassingJoinedThree

(***************************************************************************)
(* Recovery: the packets in the carriers are those of the created notes.   *)
(***************************************************************************)

\* What the recovery looks up is the pair that was created.
LEMMA NewPairs ==
  ASSUME NEW pl, NEW i, SuppliedPairsAre(pl, i), NEW k \in 1..2
  PROVE  /\ i.recovery[k] = Evidence(pl, k) /\ ~RepeatsEarlier(IdsOf(i.recovery), k)
         /\ Opening(i.created, NewId(pl, k)) # <<>>
         /\ Opening(i.created, NewId(pl, k))[1] = NewWitness(pl, k)
<1>1. /\ PairOf(i.created, NewWitness(pl, 1), NewWitness(pl, 2))
      /\ PairOf(i.recovery, Evidence(pl, 1), Evidence(pl, 2))
  BY DEF SuppliedPairsAre
<1>2. NewId(pl, 1) # NewId(pl, 2) BY IdsDiffer
<1>3. \A j \in 1..2 : NewWitness(pl, j).id = NewId(pl, j) /\ Evidence(pl, j).id = NewId(pl, j)
  BY DEF NewWitness, Evidence
<1>4. i.created[k] = NewWitness(pl, k) /\ i.recovery[k] = Evidence(pl, k)
  <2>1. k = 1 \/ k = 2 OBVIOUS
  <2> QED BY <1>1, <2>1 DEF PairOf
<1>5. Opening(i.created, i.created[k].id) # <<>> /\ Opening(i.created, i.created[k].id)[1] = i.created[k]
  <2>1. NewWitness(pl, 1).id # NewWitness(pl, 2).id BY <1>2, <1>3
  <2> QED BY <1>1, <2>1, PairFound
<1>6. ~RepeatsEarlier(IdsOf(i.recovery), k)
  <2>1. Evidence(pl, 1).id # Evidence(pl, 2).id BY <1>2, <1>3
  <2> QED BY <1>1, <2>1, PairFound
<1>7. i.created[k].id = NewId(pl, k) BY <1>3, <1>4
<1> QED BY <1>4, <1>5, <1>6, <1>7

\* The packet a sender's evidence rebuilds is the one the plan sends.
LEMMA RebuiltOfPlan ==
  ASSUME NEW pl, NEW i, SuppliedPairsAre(pl, i), NEW k \in 1..2
  PROVE  RebuiltPacket(i, i.recovery[k]) = PlanPacket(pl, k)
<1>1. /\ i.recovery[k] = Evidence(pl, k)
      /\ Opening(i.created, NewId(pl, k)) # <<>>
      /\ Opening(i.created, NewId(pl, k))[1] = NewWitness(pl, k)
  BY NewPairs
<1>2. /\ Evidence(pl, k).id = NewId(pl, k) /\ Evidence(pl, k).packet = k - 1
      /\ Evidence(pl, k).descriptor = Descriptor(pl, k) /\ Evidence(pl, k).seed = Seed(pl, k)
  BY DEF Evidence
<1>3. NewWitness(pl, k).note = NewNote(pl, k) /\ NewWitness(pl, k).bundle = NewBundle(pl, k) BY DEF NewWitness
<1>4. NewBundle(pl, k).scope = Scope(pl) BY DEF NewBundle, MakeBundle
<1> QED BY <1>1, <1>2, <1>3, <1>4 DEF RebuiltPacket, PlanPacket

\* The public tuple of a created note.
TuplesFor(i, id) == Kept(i.statement.created, {j \in DOMAIN i.statement.created : i.statement.created[j].note = id})

\* A created note has one tuple in the statement.
LEMMA TupleOfPlan ==
  ASSUME NEW pl, HonestPlan(pl), NEW m \in Nat, NEW d \in Nat, NEW n \in Nat, Sizes(pl, m, d, n),
         NEW i, Supplied(pl, i, m, d, n), NEW k \in 1..2
  PROVE  LET public == TuplesFor(i, NewId(pl, k))
         IN  /\ public # <<>> /\ public[1].note = NewId(pl, k) /\ public[1].packet = k - 1
             /\ public[1].hash = PacketHash(PlanPacket(pl, k))
<1> DEFINE tuples == i.statement.created
           picked == {j \in DOMAIN tuples : tuples[j].note = NewId(pl, k)}
<1>1. /\ IsList(tuples) /\ DOMAIN tuples = 1..2
      /\ \A j \in 1..2 : /\ tuples[j].note = NewId(pl, j) /\ tuples[j].packet = j - 1
                         /\ tuples[j].hash = PacketHash(PlanPacket(pl, j))
  <2>1. PublicNotesAre(pl, Public(pl)) BY PublicItems
  <2>2. i.statement = Public(pl) BY DEF Supplied
  <2> QED BY <2>1, <2>2 DEF PublicNotesAre
<1> HIDE DEF tuples
<1>2. picked = {k}
  <2>1. \A j \in 1..2 : NewId(pl, j) = NewId(pl, k) => j = k BY IdsSeparate
  <2> QED BY <1>1, <2>1
<1> HIDE DEF picked
<1>3. Kept(tuples, picked) # <<>> /\ Kept(tuples, picked)[1] = tuples[k] BY <1>1, <1>2, KeptOne
<1>4. /\ Kept(tuples, picked) # <<>> /\ Kept(tuples, picked)[1].note = NewId(pl, k)
      /\ Kept(tuples, picked)[1].packet = k - 1
      /\ Kept(tuples, picked)[1].hash = PacketHash(PlanPacket(pl, k))
  BY <1>1, <1>3
<1>5. TuplesFor(i, NewId(pl, k)) = Kept(tuples, picked) BY DEF TuplesFor, tuples, picked
<1> QED BY <1>4, <1>5

LEMMA DescriptorsOfPlan ==
  ASSUME NEW pl, HonestPlan(pl), NEW i, SuppliedPairsAre(pl, i), NEW k \in 1..2
  PROVE  ~ReusesDescriptor(i, k)
<1>1. \A j \in 1..2 : i.recovery[j].descriptor.kem = pl.newNotes[j].kem
  <2>1. \A j \in 1..2 : i.recovery[j] = Evidence(pl, j) BY NewPairs
  <2>2. \A j \in 1..2 : Evidence(pl, j).descriptor.kem = pl.newNotes[j].kem BY DEF Evidence, Descriptor
  <2> QED BY <2>1, <2>2
<1>2. pl.newNotes[1].kem # pl.newNotes[2].kem BY DEF HonestPlan
<1>3. ASSUME NEW j \in 1..(k - 1) PROVE i.recovery[j].descriptor.kem # i.recovery[k].descriptor.kem
  <2>1. j = 1 /\ k = 2
    <3>1. k = 1 \/ k = 2 OBVIOUS
    <3> QED BY <3>1
  <2> QED BY <1>1, <1>2, <2>1
<1> QED BY <1>3 DEF ReusesDescriptor

\* No check of a note's recovery evidence fails.
LEMMA RecoveryItemOfPlan ==
  ASSUME NEW pl, HonestPlan(pl), NEW m \in Nat, NEW d \in Nat, NEW n \in Nat, Sizes(pl, m, d, n),
         NEW i, Supplied(pl, i, m, d, n), NEW k \in 1..2
  PROVE  Passes(RecoveryItemChecks(i, k))
<1> DEFINE w == i.recovery[k]
           found == Opening(i.created, w.id)
           tuples == i.statement.created
           public == Kept(tuples, {j \in DOMAIN tuples : tuples[j].note = w.id})
           known == found # <<>> /\ public # <<>>
           stage == "recovery-consistency"
           a == Check(w.statement # StatementCommitment(i.statement), stage, "recovery-statement-reference-mismatch")
           b == Check(RepeatsEarlier(IdsOf(i.recovery), k), stage, "recovery-evidence-duplicate")
           c == Check(\/ ~known \/ w.note # public[1].note \/ w.note # NoteCommitment(found[1].note),
                      stage, "recovery-packet-note-mismatch")
           e == Check(known /\ w.packet # public[1].packet, stage, "recovery-packet-index-mismatch")
           f == Check(\/ w.scope # i.statement.scope
                      \/ known /\ w.scope # found[1].bundle.scope
                      \/ w.descriptor.network # i.statement.network
                      \/ ReusesDescriptor(i, k),
                      stage, "recovery-sender-evidence-mismatch")
           g == Check(known /\ OwnerCommitment(w.descriptor.key) # found[1].note.owner,
                      stage, "recovery-owner-authority-mismatch")
           h == Check(known /\ PacketHash(RebuiltPacket(i, w)) # public[1].hash,
                      stage, "recovery-packet-digest-mismatch")
<1>1. RecoveryItemChecks(i, k) = <<a, b, c, e, f, g, h>> BY DEF RecoveryItemChecks
<1>2. StatementCommitment(i.statement) = Com(pl) BY ComOfPlan
<1>3. SuppliedPairsAre(pl, i) BY SuppliedPairs
<1>4. /\ w = Evidence(pl, k) /\ ~RepeatsEarlier(IdsOf(i.recovery), k)
      /\ Opening(i.created, NewId(pl, k)) # <<>>
      /\ Opening(i.created, NewId(pl, k))[1] = NewWitness(pl, k)
  BY <1>3, NewPairs
<1>5. /\ Evidence(pl, k).statement = Com(pl) /\ Evidence(pl, k).id = NewId(pl, k)
      /\ Evidence(pl, k).note = NewId(pl, k) /\ Evidence(pl, k).scope = Scope(pl) /\ Evidence(pl, k).packet = k - 1
      /\ Evidence(pl, k).descriptor.network = "regtest" /\ Evidence(pl, k).descriptor.key = pl.newNotes[k].key
  BY DEF Evidence, Descriptor
<1>6. /\ NewWitness(pl, k).note = NewNote(pl, k) /\ NewWitness(pl, k).bundle.scope = Scope(pl)
      /\ NewNote(pl, k).owner = OwnerCommitment(pl.newNotes[k].key) /\ NoteCommitment(NewNote(pl, k)) = NewId(pl, k)
  BY DEF NewWitness, NewNote, NewBundle, MakeNote, MakeBundle, NewId
<1>7. RebuiltPacket(i, w) = PlanPacket(pl, k) BY <1>3, RebuiltOfPlan
<1>8. i.statement.scope = Scope(pl) /\ i.statement.network = "regtest"
  <2>1. Public(pl).scope = Scope(pl) /\ Public(pl).network = "regtest" BY PublicOfPlan
  <2>2. i.statement = Public(pl) BY DEF Supplied
  <2> QED BY <2>1, <2>2
<1>9. ~ReusesDescriptor(i, k) BY <1>3, DescriptorsOfPlan
<1> HIDE DEF w
<1>10. /\ w.statement = Com(pl) /\ w.id = NewId(pl, k) /\ w.note = NewId(pl, k) /\ w.scope = Scope(pl)
       /\ w.packet = k - 1 /\ w.descriptor.network = "regtest" /\ w.descriptor.key = pl.newNotes[k].key
  BY <1>4, <1>5
<1>11. /\ public # <<>> /\ public[1].note = NewId(pl, k) /\ public[1].packet = k - 1
       /\ public[1].hash = PacketHash(PlanPacket(pl, k))
  <2> DEFINE own == TuplesFor(i, NewId(pl, k))
  <2>1. public = own BY <1>10 DEF TuplesFor
  <2>2. /\ own # <<>> /\ own[1].note = NewId(pl, k) /\ own[1].packet = k - 1
        /\ own[1].hash = PacketHash(PlanPacket(pl, k))
    BY TupleOfPlan
  <2> HIDE DEF own, public
  <2> QED BY <2>1, <2>2
<1>12. /\ found # <<>> /\ found[1].note = NewNote(pl, k) /\ found[1].bundle.scope = Scope(pl)
  BY <1>4, <1>6, <1>10
<1> HIDE DEF found, public
<1>13. ~a.fails /\ ~b.fails /\ ~c.fails BY <1>2, <1>4, <1>6, <1>10, <1>11, <1>12 DEF Check
<1>14. ~e.fails /\ ~g.fails BY <1>6, <1>10, <1>11, <1>12 DEF Check
<1>15. ~f.fails BY <1>8, <1>9, <1>10, <1>12 DEF Check
<1>16. ~h.fails BY <1>7, <1>11 DEF Check
<1> HIDE DEF a, b, c, e, f, g, h
<1> QED BY <1>1, <1>13, <1>14, <1>15, <1>16, PassingSeven

LEMMA PairAsFunction ==
  ASSUME NEW f, f = [k \in 1..2 |-> f[k]], NEW a, NEW b, f[1] = a, f[2] = b
  PROVE  f = <<a, b>>
<1>1. DOMAIN <<a, b>> = 1..2 /\ <<a, b>>[1] = a /\ <<a, b>>[2] = b BY PairIsList
<1>2. <<a, b>> = [k \in 1..2 |-> <<a, b>>[k]]
  <2>1. <<a, b>> \in Seq({a, b}) /\ Len(<<a, b>>) = 2 OBVIOUS
  <2> QED BY <2>1
<1>3. \A k \in 1..2 : f[k] = <<a, b>>[k]
  <2>1. \A k \in 1..2 : k = 1 \/ k = 2 OBVIOUS
  <2> QED BY <1>1, <2>1
<1>4. [k \in 1..2 |-> f[k]] = [k \in 1..2 |-> <<a, b>>[k]] BY <1>3
<1> QED BY <1>2, <1>4

\* The two packets have different kem keys, and so differ.
LEMMA PacketsDiffer ==
  ASSUME NEW pl
  PROVE  PacketHash(PlanPacket(pl, 1)) # PacketHash(PlanPacket(pl, 2))
<1>1. PlanPacket(pl, 1)[2].plaintext.packet = 0 /\ PlanPacket(pl, 2)[2].plaintext.packet = 1
  BY DEF PlanPacket, Packet, Plaintext, Hash
<1>2. PlanPacket(pl, 1) # PlanPacket(pl, 2) BY <1>1
<1>3. PacketHash(PlanPacket(pl, 1))[2] = PlanPacket(pl, 1) /\ PacketHash(PlanPacket(pl, 2))[2] = PlanPacket(pl, 2)
  BY DEF PacketHash, Hash
<1> QED BY <1>2, <1>3

\* What the evidence rebuilds is what the table holds, packet by packet.
LEMMA TableOfPlan ==
  ASSUME NEW pl, NEW m, NEW d, NEW n, NEW i, Supplied(pl, i, m, d, n)
  PROVE  LET packets == [k \in DOMAIN i.recovery |-> RebuiltPacket(i, i.recovery[k])]
         IN  /\ packets = Packets(pl)
             /\ [k \in DOMAIN packets |-> PacketHash(packets[k])]
                  = <<PacketHash(PlanPacket(pl, 1)), PacketHash(PlanPacket(pl, 2))>>
<1> DEFINE packets == [k \in DOMAIN i.recovery |-> RebuiltPacket(i, i.recovery[k])]
           hashes == [k \in DOMAIN packets |-> PacketHash(packets[k])]
<1>1. SuppliedPairsAre(pl, i) BY SuppliedPairs
<1>2. DOMAIN i.recovery = 1..2 BY <1>1 DEF SuppliedPairsAre, PairOf
<1>3. packets = [k \in 1..2 |-> packets[k]] /\ packets[1] = PlanPacket(pl, 1) /\ packets[2] = PlanPacket(pl, 2)
  <2>1. packets = [k \in 1..2 |-> packets[k]] BY <1>2
  <2>2. 1 \in 1..2 /\ 2 \in 1..2 OBVIOUS
  <2>3. packets[1] = RebuiltPacket(i, i.recovery[1]) /\ packets[2] = RebuiltPacket(i, i.recovery[2]) BY <1>2, <2>2
  <2>4. RebuiltPacket(i, i.recovery[1]) = PlanPacket(pl, 1) BY <1>1, <2>2, RebuiltOfPlan
  <2>5. RebuiltPacket(i, i.recovery[2]) = PlanPacket(pl, 2) BY <1>1, <2>2, RebuiltOfPlan
  <2> QED BY <2>1, <2>3, <2>4, <2>5
<1>4. DOMAIN packets = 1..2 BY <1>2
<1> HIDE DEF packets
<1>5. packets = Packets(pl) BY <1>3, PairAsFunction DEF Packets
<1>6. hashes = [k \in 1..2 |-> hashes[k]] /\ hashes[1] = PacketHash(PlanPacket(pl, 1))
      /\ hashes[2] = PacketHash(PlanPacket(pl, 2))
  BY <1>3, <1>4
<1> HIDE DEF hashes
<1>7. hashes = <<PacketHash(PlanPacket(pl, 1)), PacketHash(PlanPacket(pl, 2))>> BY <1>6, PairAsFunction
<1> QED BY <1>5, <1>7 DEF packets, hashes

\* The carriers hold the slices of the bin, in order.
LEMMA CarriersOfPlan ==
  ASSUME NEW pl, HonestPlan(pl), NEW m \in Nat, NEW d \in Nat, NEW n \in Nat, Sizes(pl, m, d, n),
         NEW i, Supplied(pl, i, m, d, n)
  PROVE  /\ Len(OfRole(i.statement.outputs, "carrier")) = i.profile.carrierCount
         /\ \A k \in DOMAIN OfRole(i.statement.outputs, "carrier") :
               /\ ~OfRole(i.statement.outputs, "carrier")[k].slot
               /\ OfRole(i.statement.outputs, "carrier")[k].lock = CarrierLock(Bin(pl), k)
<1>1. PICK f \in Nat : f = FeeOutputs(pl) BY DEF FeeOutputs
<1>2. OutputRolesAre(Outputs(pl, Bin(pl)), Bin(pl), n, f)
  <2>1. HasOutputs(pl, n, f) BY <1>1 DEF Sizes, HasOutputs
  <2> QED BY <2>1, RolesOfOutputs
<1>3. i.statement.outputs = Outputs(pl, Bin(pl))
  <2>1. Public(pl).outputs = Outputs(pl, Bin(pl)) BY PublicOfPlan
  <2>2. i.statement = Public(pl) BY DEF Supplied
  <2> QED BY <2>1, <2>2
<1>4. i.profile.carrierCount = 15
  <2>1. ProfileParses(pl.profile) BY DEF HonestPlan
  <2>2. i.profile = pl.profile BY DEF Supplied
  <2> QED BY <2>1, <2>2 DEF ProfileParses
<1> QED BY <1>2, <1>3, <1>4 DEF OutputRolesAre

\* The packet table is the one in the carriers.
LEMMA TableChecksOfPlan ==
  ASSUME NEW pl, HonestPlan(pl), NEW m \in Nat, NEW d \in Nat, NEW n \in Nat, Sizes(pl, m, d, n),
         NEW i, Supplied(pl, i, m, d, n)
  PROVE  Passes(TableChecks(i))
<1> DEFINE stage == "recovery-consistency"
           packets == [k \in DOMAIN i.recovery |-> RebuiltPacket(i, i.recovery[k])]
           hashes == [k \in DOMAIN packets |-> PacketHash(packets[k])]
           supplied == [k \in DOMAIN i.table.packets |-> PacketHash(i.table.packets[k])]
           carriers == OfRole(i.statement.outputs, "carrier")
           bin == PacketBin(packets)
           shifted == \E k \in DOMAIN i.recovery : i.recovery[k].packet # k - 1
           foreign == \E k \in DOMAIN carriers : carriers[k].slot \/ carriers[k].lock # CarrierLock(bin, k)
           a == Check(shifted, stage, "recovery-packet-index-mismatch")
           b == Check(Len(i.table.packets) < Len(packets) \/ Len(i.table.hashes) < Len(packets),
                      stage, "recovery-evidence-missing")
           c == Check(Len(i.table.packets) > Len(packets) \/ Len(i.table.hashes) > Len(packets),
                      stage, "recovery-evidence-extra")
           e == Check(~Distinct(supplied) \/ ~Distinct(i.table.hashes), stage, "recovery-evidence-duplicate")
           f == Check(i.table.packets # packets \/ i.table.hashes # hashes,
                      stage, "recovery-packet-digest-mismatch")
           g == Check(i.table.bin # bin \/ i.table.root # BinRoot(bin), stage, "recovery-bin-root-mismatch")
           h == Check(i.statement.root # BinRoot(bin), stage, "recovery-packet-table-commitment-mismatch")
           j == Check(Len(carriers) # i.profile.carrierCount, stage, "recovery-carrier-count-mismatch")
           l == Check(foreign, stage, "recovery-carrier-lock-mismatch")
<1>1. TableChecks(i) = <<a, b, c, e, f, g, h, j, l>> BY DEF TableChecks
<1>2. SuppliedPairsAre(pl, i) BY SuppliedPairs
<1>3. /\ Len(i.table.packets) = 2 /\ Len(i.table.hashes) = 2 /\ DOMAIN i.recovery = 1..2
      /\ DOMAIN i.table.packets = 1..2 /\ DOMAIN i.table.hashes = 1..2
      /\ i.table.packets[1] = PlanPacket(pl, 1) /\ i.table.packets[2] = PlanPacket(pl, 2)
      /\ i.table.hashes[1] = PacketHash(PlanPacket(pl, 1)) /\ i.table.hashes[2] = PacketHash(PlanPacket(pl, 2))
  BY <1>2 DEF SuppliedPairsAre, PairOf
<1>4. packets = Packets(pl) /\ hashes = <<PacketHash(PlanPacket(pl, 1)), PacketHash(PlanPacket(pl, 2))>>
  BY TableOfPlan
<1>5. /\ i.table.packets = Packets(pl)
      /\ i.table.hashes = <<PacketHash(PlanPacket(pl, 1)), PacketHash(PlanPacket(pl, 2))>>
      /\ i.table.bin = Bin(pl) /\ i.table.root = BinRoot(Bin(pl))
  BY DEF Supplied
<1>6. i.statement.root = BinRoot(Bin(pl))
  <2>1. Public(pl).root = BinRoot(Bin(pl)) BY PublicOfPlan
  <2>2. i.statement = Public(pl) BY DEF Supplied
  <2> QED BY <2>1, <2>2
<1>7. Len(carriers) = i.profile.carrierCount
      /\ \A k \in DOMAIN carriers : ~carriers[k].slot /\ carriers[k].lock = CarrierLock(Bin(pl), k)
  BY CarriersOfPlan
<1> HIDE DEF packets, hashes, carriers
<1>8. bin = Bin(pl) BY <1>4 DEF Bin
<1> HIDE DEF bin
<1>9. ~shifted
  <2>1. \A k \in 1..2 : i.recovery[k] = Evidence(pl, k) BY <1>2, NewPairs
  <2>2. \A k \in 1..2 : Evidence(pl, k).packet = k - 1 BY DEF Evidence
  <2> QED BY <1>3, <2>1, <2>2
<1>10. ~foreign BY <1>7, <1>8
<1>11. Distinct(i.table.hashes)
  <2> SUFFICES ASSUME NEW x \in 1..2, NEW y \in 1..2, i.table.hashes[x] = i.table.hashes[y] PROVE x = y
    BY <1>3 DEF Distinct
  <2>1. (x = 1 \/ x = 2) /\ (y = 1 \/ y = 2) OBVIOUS
  <2> QED BY <1>3, <2>1, PacketsDiffer
<1>12. Distinct(supplied)
  <2>1. DOMAIN supplied = 1..2 /\ supplied[1] = i.table.hashes[1] /\ supplied[2] = i.table.hashes[2] BY <1>3
  <2> HIDE DEF supplied
  <2> SUFFICES ASSUME NEW x \in 1..2, NEW y \in 1..2, supplied[x] = supplied[y] PROVE x = y
    BY <2>1 DEF Distinct
  <2>2. (x = 1 \/ x = 2) /\ (y = 1 \/ y = 2) OBVIOUS
  <2> QED BY <1>3, <2>1, <2>2, PacketsDiffer
<1>13. Len(packets) = 2 BY <1>3, <1>4, <1>5
<1> HIDE DEF supplied, shifted, foreign
<1>14. ~a.fails /\ ~e.fails /\ ~l.fails BY <1>9, <1>10, <1>11, <1>12 DEF Check
<1>15. ~b.fails /\ ~c.fails
  <2>1. /\ ~(Len(i.table.packets) < Len(packets) \/ Len(i.table.hashes) < Len(packets))
        /\ ~(Len(i.table.packets) > Len(packets) \/ Len(i.table.hashes) > Len(packets))
    BY <1>3, <1>13
  <2> QED BY <2>1 DEF Check
<1>16. ~f.fails BY <1>4, <1>5 DEF Check
<1>17. ~g.fails /\ ~h.fails /\ ~j.fails BY <1>5, <1>6, <1>7, <1>8 DEF Check
<1> HIDE DEF a, b, c, e, f, g, h, j, l
<1> QED BY <1>1, <1>14, <1>15, <1>16, <1>17, PassingNine

\* No check of the recovery fails.
LEMMA RecoveryOfPlan ==
  ASSUME NEW pl, HonestPlan(pl), NEW m \in Nat, NEW d \in Nat, NEW n \in Nat, Sizes(pl, m, d, n),
         NEW i, Supplied(pl, i, m, d, n)
  PROVE  Passes(RecoveryChecks(i))
<1> DEFINE count == CountChecks(Len(i.recovery), Len(i.created), "recovery-consistency",
                                "recovery-evidence-missing", "recovery-evidence-extra")
           lists == [k \in DOMAIN i.recovery |-> RecoveryItemChecks(i, k)]
           flat == FlattenSeq(lists)
           a == Check(i.table.statement # StatementCommitment(i.statement),
                      "recovery-consistency", "recovery-statement-reference-mismatch")
           b == Check(\/ Len(i.statement.created) # i.profile.packetCount
                      \/ Len(i.statement.createdCells) > i.profile.maxRecoveryCells,
                      "recovery-consistency", "recovery-packet-table-commitment-mismatch")
<1>1. RecoveryChecks(i) = count \o <<a, b>> \o flat \o TableChecks(i) BY DEF RecoveryChecks, ForEach
<1>2. Len(i.recovery) = 2 /\ Len(i.created) = 2 /\ DOMAIN i.recovery = 1..2
  <2>1. SuppliedPairsAre(pl, i) BY SuppliedPairs
  <2> QED BY <2>1 DEF SuppliedPairsAre, PairOf
<1>3. Passes(count)
  <2>1. 2 \in Nat OBVIOUS
  <2> QED BY <1>2, <2>1, PassingCount
<1>4. Passes(flat)
  <2>1. \A k \in 1..2 : Passes(RecoveryItemChecks(i, k)) BY RecoveryItemOfPlan
  <2>2. lists = [k \in 1..2 |-> lists[k]] /\ \A k \in 1..2 : Passes(lists[k]) BY <1>2, <2>1
  <2>3. 2 \in Nat OBVIOUS
  <2> HIDE DEF lists
  <2> QED BY <2>2, <2>3, PassingFlat
<1>5. ~a.fails
  <2>1. StatementCommitment(i.statement) = Com(pl) BY ComOfPlan
  <2>2. i.table.statement = Com(pl) BY DEF Supplied
  <2> QED BY <2>1, <2>2 DEF Check
<1>6. ~b.fails
  <2>1. i.statement = Public(pl) /\ i.profile = pl.profile BY DEF Supplied
  <2>2. Len(Public(pl).created) = 2
    <3>1. PublicNotesAre(pl, Public(pl)) BY PublicItems
    <3> QED BY <3>1 DEF PublicNotesAre
  <2>3. Len(Public(pl).createdCells) = n
    <3>1. PublicCellsAre(pl, Public(pl), m, d, n) BY PublicItems
    <3> QED BY <3>1 DEF PublicCellsAre
  <2>4. pl.profile.packetCount = 2 /\ pl.profile.maxRecoveryCells = 8
    <3>1. ProfileParses(pl.profile) BY DEF HonestPlan
    <3> QED BY <3>1 DEF ProfileParses
  <2>5. n \in 5..8 BY MoneyOfPlan DEF Money
  <2>6. ~(n > 8) BY <2>5
  <2> QED BY <2>1, <2>2, <2>3, <2>4, <2>6 DEF Check
<1> HIDE DEF a, b, count, flat
<1>7. Passes(<<a, b>>) BY <1>5, <1>6, PassingTwo
<1>8. Passes(TableChecks(i)) BY TableChecksOfPlan
<1> QED BY <1>1, <1>3, <1>4, <1>7, <1>8, PassingJoinedFour

(***************************************************************************)
(* The verdict.                                                            *)
(***************************************************************************)

\* Notes, bundles and openings are well formed.
LEMMA NotesOfPlanParse ==
  ASSUME NEW pl, HonestPlan(pl), NEW k \in 1..2
  PROVE  /\ NoteParses(OldWitness(pl, k).note) /\ BundleParses(OldWitness(pl, k).bundle)
         /\ NoteParses(NewWitness(pl, k).note) /\ BundleParses(NewWitness(pl, k).bundle)
<1>1. PICK old : old = [j \in 1..Len(pl.cells) |-> OldCell(pl, j)] OBVIOUS
<1>2. NoteOfSide(pl.cells, pl.profile.cellValue, OldOpenings(pl), k, OldWitness(pl, k), old) BY <1>1, OldNoteOfSide
<1>3. PICK new : new = [j \in 1..Len(pl.newCells) |-> NewCell(pl, j)] OBVIOUS
<1>4. NoteOfSide(pl.newCells, pl.profile.cellValue, NewOnes(pl), k, NewWitness(pl, k), new) BY <1>3, NewNoteOfSide
<1>5. BundleParses(OldWitness(pl, k).bundle) BY <1>2, BundleOfSide
<1>6. BundleParses(NewWitness(pl, k).bundle) BY <1>4, BundleOfSide
<1>7. OldWitness(pl, k).note.value \in 1..MaxMoney BY <1>2 DEF NoteOfSide
<1>8. NewWitness(pl, k).note.value \in 1..MaxMoney BY <1>4 DEF NoteOfSide
<1>9. HasFields(OldWitness(pl, k).note, {"asset", "value", "owner", "bundle", "nonce"})
  BY DEF OldWitness, OldNote, MakeNote, HasFields
<1>10. HasFields(NewWitness(pl, k).note, {"asset", "value", "owner", "bundle", "nonce"})
  BY DEF NewWitness, NewNote, MakeNote, HasFields
<1> QED BY <1>5, <1>6, <1>7, <1>8, <1>9, <1>10 DEF NoteParses

LEMMA CellsOfPlanParse ==
  ASSUME NEW pl, HonestPlan(pl), NEW m \in Nat, NEW d \in Nat, NEW n \in Nat, Sizes(pl, m, d, n),
         NEW i, Supplied(pl, i, m, d, n)
  PROVE  /\ \A w \in ToSet(i.consumedCells) \cup ToSet(i.createdCells) : OpeningParses(w.opening)
         /\ ByIndex(i.consumedCells) /\ ByIndex(i.createdCells) /\ ByIndex(i.exits)
<1> DEFINE c == pl.profile.cellValue
<1>1. SuppliedCellsAre(pl, i, m, d, n) BY SuppliedCells
<1>2. c \in 1..MaxMoney
  <2>1. c \in Nat /\ c >= 1 /\ c <= MaxMoney /\ MaxMoney \in Nat BY MoneyOfPlan DEF Money
  <2> QED BY <2>1
<1>3. /\ DOMAIN i.consumedCells = 1..m /\ Len(i.consumedCells) = m
      /\ \A k \in 1..m : i.consumedCells[k] = OldCell(pl, k) /\ i.consumedCells[k].index = IndexAt(m, d, k)
  BY <1>1 DEF SuppliedCellsAre
<1>4. /\ DOMAIN i.createdCells = 1..n /\ Len(i.createdCells) = n
      /\ \A k \in 1..n : i.createdCells[k] = NewCell(pl, k) /\ i.createdCells[k].index = k - 1
  BY <1>1 DEF SuppliedCellsAre
<1>5. Len(i.exits) = n /\ \A k \in 1..n : i.exits[k].index = k - 1 BY <1>1 DEF SuppliedCellsAre
<1> HIDE DEF c
<1> DEFINE fields == {"scope", "slot", "value", "profile", "blinder"}
<1>6. \A k \in 1..m : OldCell(pl, k).opening.value = c /\ HasFields(OldCell(pl, k).opening, fields)
  <2>1. UniformCells(pl.cells, c) BY DEF HonestPlan, c
  <2>2. DOMAIN pl.cells = 1..m BY HonestNumbers DEF Sizes
  <2>3. ASSUME NEW k \in 1..m
        PROVE  OldCell(pl, k).opening.value = c /\ HasFields(OldCell(pl, k).opening, fields)
    <3>1. k \in DOMAIN pl.cells /\ pl.cells[k].value = c BY <2>1, <2>2 DEF UniformCells
    <3>2. OldOpenings(pl)[k].value = c BY <3>1 DEF OldOpenings
    <3>3. HasFields(OldOpenings(pl)[k], fields) BY <3>1 DEF OldOpenings, HasFields
    <3> QED BY <3>2, <3>3 DEF OldCell
  <2> QED BY <2>3
<1>7. \A k \in 1..n : NewCell(pl, k).opening.value = c /\ HasFields(NewCell(pl, k).opening, fields)
  <2>1. UniformCells(pl.newCells, c) BY DEF HonestPlan, c
  <2>2. DOMAIN pl.newCells = 1..n BY HonestNumbers DEF Sizes
  <2>3. ASSUME NEW k \in 1..n
        PROVE  NewCell(pl, k).opening.value = c /\ HasFields(NewCell(pl, k).opening, fields)
    <3>1. k \in DOMAIN pl.newCells /\ pl.newCells[k].value = c BY <2>1, <2>2 DEF UniformCells
    <3>2. NewOnes(pl)[k].value = c BY <3>1 DEF NewOnes, NewOpenings
    <3>3. HasFields(NewOnes(pl)[k], fields) BY <3>1 DEF NewOnes, NewOpenings, HasFields
    <3> QED BY <3>2, <3>3 DEF NewCell
  <2> QED BY <2>3
<1>8. \A w \in ToSet(i.consumedCells) : OpeningParses(w.opening)
  BY <1>2, <1>3, <1>6 DEF ToSet, OpeningParses
<1>9. \A w \in ToSet(i.createdCells) : OpeningParses(w.opening)
  BY <1>2, <1>4, <1>7 DEF ToSet, OpeningParses
<1>10. ByIndex(i.consumedCells)
  <2>1. ASSUME NEW k \in 1..(m - 1) PROVE i.consumedCells[k].index <= i.consumedCells[k + 1].index
    <3>1. k \in 1..m /\ k + 1 \in 1..m /\ k < k + 1 OBVIOUS
    <3>2. i.consumedCells[k].index = IndexAt(m, d, k) /\ i.consumedCells[k + 1].index = IndexAt(m, d, k + 1)
      BY <1>3, <3>1
    <3>3. /\ IndexAt(m, d, k) < IndexAt(m, d, k + 1)
          /\ IndexAt(m, d, k) \in Nat /\ IndexAt(m, d, k + 1) \in Nat
      BY <3>1, IndexesApart
    <3> QED BY <3>2, <3>3
  <2> QED BY <1>3, <2>1 DEF ByIndex
<1>11. ByIndex(i.createdCells)
  <2>1. ASSUME NEW k \in 1..(n - 1) PROVE i.createdCells[k].index <= i.createdCells[k + 1].index
    <3>1. k \in 1..n /\ k + 1 \in 1..n OBVIOUS
    <3>2. i.createdCells[k].index = k - 1 /\ i.createdCells[k + 1].index = (k + 1) - 1 BY <1>4, <3>1
    <3> QED BY <3>2
  <2> QED BY <1>4, <2>1 DEF ByIndex
<1>12. ByIndex(i.exits)
  <2>1. ASSUME NEW k \in 1..(n - 1) PROVE i.exits[k].index <= i.exits[k + 1].index
    <3>1. k \in 1..n /\ k + 1 \in 1..n OBVIOUS
    <3>2. i.exits[k].index = k - 1 /\ i.exits[k + 1].index = (k + 1) - 1 BY <1>5, <3>1
    <3> QED BY <3>2
  <2> QED BY <1>5, <2>1 DEF ByIndex
<1> QED BY <1>8, <1>9, <1>10, <1>11, <1>12

\* The honest batch parses.
LEMMA InputOfPlan ==
  ASSUME NEW pl, HonestPlan(pl), NEW m \in Nat, NEW d \in Nat, NEW n \in Nat, Sizes(pl, m, d, n),
         NEW i, Supplied(pl, i, m, d, n)
  PROVE  InputParses(i)
<1>1. SuppliedPairsAre(pl, i) BY SuppliedPairs
<1>2. SuppliedCellsAre(pl, i, m, d, n) BY SuppliedCells
<1>3. ProfileParses(i.profile) /\ StatementParses(i.statement, i.profile)
  <2>1. i.profile = pl.profile /\ i.statement = Public(pl) BY DEF Supplied
  <2>2. ProfileParses(pl.profile) BY DEF HonestPlan
  <2>3. StatementParses(Public(pl), pl.profile) BY StatementOfPlan
  <2> QED BY <2>1, <2>2, <2>3
<1>4. \A c \in {i.consumed, i.created, i.consumedCells, i.createdCells, i.exits,
                i.authorities, i.nullifiers, i.recovery, i.table.packets, i.table.hashes} : IsList(c)
  <2>1. IsList(i.consumed) /\ IsList(i.created) /\ IsList(i.authorities) /\ IsList(i.nullifiers)
        /\ IsList(i.recovery) /\ IsList(i.table.packets) /\ IsList(i.table.hashes)
    BY <1>1 DEF SuppliedPairsAre, PairOf
  <2>2. IsList(i.consumedCells) /\ IsList(i.createdCells) /\ IsList(i.exits) BY <1>2 DEF SuppliedCellsAre
  <2> QED BY <2>1, <2>2
<1>5. \A w \in ToSet(i.consumed) \cup ToSet(i.created) : NoteParses(w.note) /\ BundleParses(w.bundle)
  <2>1. /\ PairOf(i.consumed, OldWitness(pl, 1), OldWitness(pl, 2))
        /\ PairOf(i.created, NewWitness(pl, 1), NewWitness(pl, 2))
    BY <1>1 DEF SuppliedPairsAre
  <2>2. \A w \in ToSet(i.consumed) : w = OldWitness(pl, 1) \/ w = OldWitness(pl, 2)
    <3>1. DOMAIN i.consumed = 1..2 BY <2>1 DEF PairOf
    <3>2. \A j \in 1..2 : i.consumed[j] = OldWitness(pl, 1) \/ i.consumed[j] = OldWitness(pl, 2) BY <2>1, PairItems
    <3> QED BY <3>1, <3>2 DEF ToSet
  <2>3. \A w \in ToSet(i.created) : w = NewWitness(pl, 1) \/ w = NewWitness(pl, 2)
    <3>1. DOMAIN i.created = 1..2 BY <2>1 DEF PairOf
    <3>2. \A j \in 1..2 : i.created[j] = NewWitness(pl, 1) \/ i.created[j] = NewWitness(pl, 2) BY <2>1, PairItems
    <3> QED BY <3>1, <3>2 DEF ToSet
  <2>4. 1 \in 1..2 /\ 2 \in 1..2 OBVIOUS
  <2> QED BY <2>2, <2>3, <2>4, NotesOfPlanParse
<1>6. \A k \in 1..(Len(i.recovery) - 1) : i.recovery[k].packet <= i.recovery[k + 1].packet
  <2>1. Len(i.recovery) = 2 BY <1>1 DEF SuppliedPairsAre, PairOf
  <2>2. i.recovery[1].packet = 0 /\ i.recovery[2].packet = 1
    <3>1. 1 \in 1..2 /\ 2 \in 1..2 OBVIOUS
    <3>2. i.recovery[1] = Evidence(pl, 1) /\ i.recovery[2] = Evidence(pl, 2) BY <1>1, <3>1, NewPairs
    <3>3. Evidence(pl, 1).packet = 0 /\ Evidence(pl, 2).packet = 1 BY DEF Evidence
    <3> QED BY <3>2, <3>3
  <2>3. \A k \in 1..(2 - 1) : k = 1 OBVIOUS
  <2> QED BY <2>1, <2>2, <2>3
<1>7. /\ \A w \in ToSet(i.consumedCells) \cup ToSet(i.createdCells) : OpeningParses(w.opening)
      /\ ByIndex(i.consumedCells) /\ ByIndex(i.createdCells) /\ ByIndex(i.exits)
  BY CellsOfPlanParse
<1> QED BY <1>3, <1>4, <1>5, <1>6, <1>7 DEF InputParses

\* All stages together: the batch of an honest plan is accepted.
LEMMA AcceptedPlan ==
  ASSUME NEW pl, HonestPlan(pl)
  PROVE  Verdict(HonestBatch(pl)) = Accepted
<1>1. PICK m \in Nat, d \in Nat, n \in Nat : Sizes(pl, m, d, n) BY PlanHasSizes
<1>2. PICK i : i = HonestBatch(pl) OBVIOUS
<1>3. Supplied(pl, i, m, d, n) BY <1>1, <1>2, SuppliedOfPlan
<1> DEFINE r == FirstFailure(RecoveryChecks(i), Accepted)
           u == FirstFailure(NullifierChecks(i), r)
           a == FirstFailure(AuthorityChecks(i), u)
           c == FirstFailure(ConservationChecks(i), a)
           b == FirstFailure(BundleChecks(i.created, i.createdCells,
                                          IndexesOf(i.statement.createdCells), "created-bundle"), c)
           o == FirstFailure(BundleChecks(i.consumed, i.consumedCells,
                                          IndexesOf(i.statement.consumedCells), "consumed-bundle"), b)
           e == FirstFailure(ExitChecks(i), o)
           f == FirstFailure(CellChecks(i), e)
           g == FirstFailure(LogicalChecks(i), f)
           x == Check(i.expected # StatementCommitment(i.statement),
                      "statement-boundary", "expected-statement-commitment-mismatch")
<1>4. Evaluation(i) = FirstFailure(<<x>>, g) BY DEF Evaluation
<1>5. r = Accepted BY <1>1, <1>3, RecoveryOfPlan, PassingFirst
<1> HIDE DEF r
<1>6. u = r BY <1>1, <1>3, NullifiersOfPlan, PassingFirst
<1> HIDE DEF u
<1>7. a = u BY <1>1, <1>3, AuthorityOfPlan, PassingFirst
<1> HIDE DEF a
<1>8. c = a BY <1>1, <1>3, ConservationOfPlan, PassingFirst
<1> HIDE DEF c
<1>9. b = c BY <1>1, <1>3, BundlesOfPlan, PassingFirst
<1> HIDE DEF b
<1>10. o = b BY <1>1, <1>3, BundlesOfPlan, PassingFirst
<1> HIDE DEF o
<1>11. e = o BY <1>1, <1>3, ExitsOfPlan, PassingFirst
<1> HIDE DEF e
<1>12. f = e BY <1>1, <1>3, CellsOfPlan, PassingFirst
<1> HIDE DEF f
<1>13. g = f BY <1>1, <1>3, LogicalOfPlan, PassingFirst
<1> HIDE DEF g
<1>14. ~x.fails
  <2>1. StatementCommitment(i.statement) = Com(pl) BY <1>3, ComOfPlan
  <2>2. i.expected = Com(pl) BY <1>3 DEF Supplied
  <2> QED BY <2>1, <2>2 DEF Check
<1> HIDE DEF x
<1>15. FirstFailure(<<x>>, g) = g BY <1>14, PassingOne, PassingFirst
<1>16. Evaluation(i) = Accepted BY <1>4, <1>5, <1>6, <1>7, <1>8, <1>9, <1>10, <1>11, <1>12, <1>13, <1>15
<1>17. InputParses(i) BY <1>1, <1>3, InputOfPlan
<1> QED BY <1>2, <1>16, <1>17 DEF Verdict

(***************************************************************************)
(* The plans a host can reach, and their batches when nothing goes wrong.  *)
(***************************************************************************)

\* A fold over no edits changes nothing.
LEMMA NothingMisstated ==
  ASSUME NEW st, NEW other
  PROVE  AllMisstated(st, other, <<>>) = st
<1> DEFINE Applied(f, s) == Misstated(f[s \ {Max(s)}], other, <<>>[Max(s)])
           Grown(f) == [s \in SUBSET DOMAIN <<>> |-> IF s = {} THEN st ELSE Applied(f, s)]
           all == CHOOSE f : f = Grown(f)
<1>1. AllMisstated(st, other, <<>>) = all[DOMAIN <<>>] BY DEF AllMisstated, FoldLeft, MapThenFoldSet
<1>2. DOMAIN <<>> = {} OBVIOUS
<1>3. \E f : f = Grown(f)
  <2>1. PICK f : f = [s \in SUBSET DOMAIN <<>> |-> st] OBVIOUS
  <2>2. \A s \in SUBSET DOMAIN <<>> : s = {} BY <1>2
  <2> HIDE DEF Applied
  <2>3. f = Grown(f) BY <2>1, <2>2
  <2> QED BY <2>3
<1>4. all = Grown(all)
  <2> HIDE DEF Grown
  <2> QED BY <1>3
<1> HIDE DEF all, Applied
<1>5. all[{}] = st BY <1>2, <1>4
<1> QED BY <1>1, <1>2, <1>5

LEMMA NothingTampered ==
  ASSUME NEW material, NEW other
  PROVE  AllTampered(material, other, <<>>) = material
<1> DEFINE Applied(f, s) == Tampered(f[s \ {Max(s)}], other, <<>>[Max(s)])
           Grown(f) == [s \in SUBSET DOMAIN <<>> |-> IF s = {} THEN material ELSE Applied(f, s)]
           all == CHOOSE f : f = Grown(f)
<1>1. AllTampered(material, other, <<>>) = all[DOMAIN <<>>] BY DEF AllTampered, FoldLeft, MapThenFoldSet
<1>2. DOMAIN <<>> = {} OBVIOUS
<1>3. \E f : f = Grown(f)
  <2>1. PICK f : f = [s \in SUBSET DOMAIN <<>> |-> material] OBVIOUS
  <2>2. \A s \in SUBSET DOMAIN <<>> : s = {} BY <1>2
  <2> HIDE DEF Applied
  <2>3. f = Grown(f) BY <2>1, <2>2
  <2> QED BY <2>3
<1>4. all = Grown(all)
  <2> HIDE DEF Grown
  <2> QED BY <1>3
<1> HIDE DEF all, Applied
<1>5. all[{}] = material BY <1>2, <1>4
<1> QED BY <1>1, <1>2, <1>5

\* Where nothing goes wrong, what arrives is the honest batch of the plan.
LEMMA NothingGoneWrong ==
  ASSUME false = <<>>, lapses = <<>>
  PROVE  input = HonestBatch(plan)
<1> DEFINE other == HonestBatch(OtherBatch(plan))
           parts == Parts(plan)
           st == Statement(plan, parts, Outputs(plan, PacketBin(parts.packets)))
<1>1. HonestBatch(plan) = Committed(plan, parts, st) BY DEF HonestBatch, Batch, Written
<1>2. input = AllTampered(Committed(plan, parts, AllMisstated(st, other.statement, <<>>)), other, <<>>)
  BY DEF input, GoneWrong, Batch, Written
<1> HIDE DEF other, parts, st
<1>3. AllMisstated(st, other.statement, <<>>) = st BY NothingMisstated
<1> QED BY <1>1, <1>2, <1>3, NothingTampered

\* Replacing an item keeps a list a list.
LEMMA ReplacedList ==
  ASSUME NEW s, IsList(s), NEW k, NEW e, NEW t, t = [s EXCEPT ![k] = e]
  PROVE  /\ IsList(t) /\ Len(t) = Len(s) /\ DOMAIN t = DOMAIN s
         /\ \A j \in DOMAIN s : t[j] = IF j = k THEN e ELSE s[j]
<1>1. DOMAIN s = 1..Len(s) /\ Len(s) \in Nat BY IsListShape
<1>2. DOMAIN t = DOMAIN s /\ \A j \in DOMAIN s : t[j] = IF j = k THEN e ELSE s[j]
  OBVIOUS
<1>3. t = [j \in DOMAIN s |-> t[j]] BY <1>2
<1>4. PICK c \in Nat : c = Len(s) BY <1>1
<1>5. t = [j \in 1..c |-> t[j]] BY <1>1, <1>3, <1>4
<1>6. IsList(t) /\ Len(t) = c BY <1>5, IntervalIsList
<1> QED BY <1>2, <1>4, <1>6

(***************************************************************************)
(* The shape of a plan, whatever the host has changed: two notes on each   *)
(* side with a number for their value, and lists of cells that each belong *)
(* to one of the two.                                                      *)
(***************************************************************************)

PlanFields ==
    {"profile", "padding", "notes", "cells", "newNotes", "newCells", "networkFee", "serviceFee"}
IsNotePair(s) ==
    /\ IsList(s) /\ Len(s) = 2 /\ DOMAIN s = 1..2
    /\ \A n \in 1..2 : "value" \in DOMAIN s[n] /\ s[n].value \in Int
HoldsCells(s) == IsList(s) /\ \A k \in DOMAIN s : "note" \in DOMAIN s[k] /\ s[k].note \in 1..2
PlanShape(pl) ==
    /\ PlanFields \subseteq DOMAIN pl
    /\ IsNotePair(pl.notes) /\ IsNotePair(pl.newNotes)
    /\ HoldsCells(pl.cells) /\ HoldsCells(pl.newCells)
    /\ pl.networkFee \in Int /\ pl.profile.cellValue \in Int

\* Changing notes, cells or fees keeps the shape, when what is changed does.
LEMMA NotesReplaced ==
  ASSUME NEW pl, PlanShape(pl), NEW side \in {"notes", "newNotes"}, NEW s, IsNotePair(s)
  PROVE  PlanShape([pl EXCEPT ![side] = s])
<1> DEFINE new == [pl EXCEPT ![side] = s]
<1>1. DOMAIN new = DOMAIN pl /\ \A f \in DOMAIN pl : new[f] = IF f = side THEN s ELSE pl[f] OBVIOUS
<1>2. PlanFields \subseteq DOMAIN pl BY DEF PlanShape
<1> HIDE DEF new
<1>3. /\ new.cells = pl.cells /\ new.newCells = pl.newCells /\ new.networkFee = pl.networkFee
      /\ new.profile = pl.profile
      /\ new.notes = (IF side = "notes" THEN s ELSE pl.notes)
      /\ new.newNotes = (IF side = "newNotes" THEN s ELSE pl.newNotes)
  BY <1>1, <1>2 DEF PlanFields
<1>4. PlanShape(new) BY <1>1, <1>3 DEF PlanShape
<1> QED BY <1>4 DEF new

LEMMA CellsReplaced ==
  ASSUME NEW pl, PlanShape(pl), NEW side \in {"cells", "newCells"}, NEW s, HoldsCells(s)
  PROVE  PlanShape([pl EXCEPT ![side] = s])
<1> DEFINE new == [pl EXCEPT ![side] = s]
<1>1. DOMAIN new = DOMAIN pl /\ \A f \in DOMAIN pl : new[f] = IF f = side THEN s ELSE pl[f] OBVIOUS
<1>2. PlanFields \subseteq DOMAIN pl BY DEF PlanShape
<1> HIDE DEF new
<1>3. /\ new.notes = pl.notes /\ new.newNotes = pl.newNotes /\ new.networkFee = pl.networkFee
      /\ new.profile = pl.profile
      /\ new.cells = (IF side = "cells" THEN s ELSE pl.cells)
      /\ new.newCells = (IF side = "newCells" THEN s ELSE pl.newCells)
  BY <1>1, <1>2 DEF PlanFields
<1>4. PlanShape(new) BY <1>1, <1>3 DEF PlanShape
<1> QED BY <1>4 DEF new

LEMMA FeeReplaced ==
  ASSUME NEW pl, PlanShape(pl), NEW fee
  PROVE  /\ fee \in Int => PlanShape([pl EXCEPT !.networkFee = fee])
         /\ PlanShape([pl EXCEPT !.serviceFee = fee])
<1>1. PlanFields \subseteq DOMAIN pl BY DEF PlanShape
<1>2. ASSUME fee \in Int PROVE PlanShape([pl EXCEPT !.networkFee = fee])
  <2> DEFINE new == [pl EXCEPT !.networkFee = fee]
  <2>1. DOMAIN new = DOMAIN pl /\ \A f \in DOMAIN pl : new[f] = IF f = "networkFee" THEN fee ELSE pl[f] OBVIOUS
  <2> HIDE DEF new
  <2>2. /\ new.notes = pl.notes /\ new.newNotes = pl.newNotes /\ new.profile = pl.profile
        /\ new.cells = pl.cells /\ new.newCells = pl.newCells /\ new.networkFee = fee
    BY <1>1, <2>1 DEF PlanFields
  <2>3. PlanShape(new) BY <1>2, <2>1, <2>2 DEF PlanShape
  <2> QED BY <2>3 DEF new
<1>3. PlanShape([pl EXCEPT !.serviceFee = fee])
  <2> DEFINE new == [pl EXCEPT !.serviceFee = fee]
  <2>1. DOMAIN new = DOMAIN pl /\ \A f \in DOMAIN pl : new[f] = IF f = "serviceFee" THEN fee ELSE pl[f] OBVIOUS
  <2> HIDE DEF new
  <2>2. /\ new.notes = pl.notes /\ new.newNotes = pl.newNotes /\ new.profile = pl.profile
        /\ new.cells = pl.cells /\ new.newCells = pl.newCells /\ new.networkFee = pl.networkFee
    BY <1>1, <2>1 DEF PlanFields
  <2>3. PlanShape(new) BY <2>1, <2>2 DEF PlanShape
  <2> QED BY <2>3 DEF new
<1> QED BY <1>2, <1>3

\* A field of one of two notes, or of one of the cells, is replaced.
LEMMA NoteChanged ==
  ASSUME NEW s, IsNotePair(s), NEW n, NEW x, "value" \in DOMAIN x, x.value \in Int
  PROVE  IsNotePair([s EXCEPT ![n] = x])
<1> DEFINE t == [s EXCEPT ![n] = x]
<1>1. IsList(s) /\ Len(s) = 2 /\ DOMAIN s = 1..2 BY DEF IsNotePair
<1>2. /\ IsList(t) /\ Len(t) = Len(s) /\ DOMAIN t = DOMAIN s
      /\ \A j \in DOMAIN s : t[j] = IF j = n THEN x ELSE s[j]
  BY <1>1, ReplacedList
<1> HIDE DEF t
<1>3. \A j \in 1..2 : "value" \in DOMAIN t[j] /\ t[j].value \in Int BY <1>1, <1>2 DEF IsNotePair
<1>4. IsNotePair(t) BY <1>1, <1>2, <1>3 DEF IsNotePair
<1> QED BY <1>4 DEF t

\* Single changes of a list of cells.
LEMMA CellChanged ==
  ASSUME NEW s, HoldsCells(s), NEW k, NEW x, k \in DOMAIN s => ("note" \in DOMAIN x /\ x.note \in 1..2)
  PROVE  HoldsCells([s EXCEPT ![k] = x])
<1> DEFINE t == [s EXCEPT ![k] = x]
<1>1. IsList(s) BY DEF HoldsCells
<1>2. /\ IsList(t) /\ DOMAIN t = DOMAIN s
      /\ \A j \in DOMAIN s : t[j] = IF j = k THEN x ELSE s[j]
  BY <1>1, ReplacedList
<1> HIDE DEF t
<1>3. \A j \in DOMAIN t : "note" \in DOMAIN t[j] /\ t[j].note \in 1..2 BY <1>2 DEF HoldsCells
<1>4. HoldsCells(t) BY <1>2, <1>3 DEF HoldsCells
<1> QED BY <1>4 DEF t

LEMMA CellKeepsNote ==
  ASSUME NEW s, HoldsCells(s), NEW k, NEW field, field # "note", NEW e
  PROVE  HoldsCells([s EXCEPT ![k] = [s[k] EXCEPT ![field] = e]])
<1> DEFINE x == [s[k] EXCEPT ![field] = e]
<1>1. ASSUME k \in DOMAIN s PROVE "note" \in DOMAIN x /\ x.note \in 1..2
  <2>1. "note" \in DOMAIN s[k] /\ s[k].note \in 1..2 BY <1>1 DEF HoldsCells
  <2> QED BY <2>1
<1> HIDE DEF x
<1>2. HoldsCells([s EXCEPT ![k] = x]) BY <1>1, CellChanged
<1> QED BY <1>2 DEF x

LEMMA CellDropped ==
  ASSUME NEW s, HoldsCells(s), s # <<>>
  PROVE  HoldsCells(Front(s))
<1>1. IsList(s) /\ DOMAIN s = 1..Len(s) /\ Len(s) \in Nat BY IsListShape DEF HoldsCells
<1>2. PICK c \in Nat : c = Len(s) BY <1>1
<1>3. s \in Seq(Range(s)) BY <1>1 DEF IsList
<1>4. c >= 1
  <2>1. c # 0 BY <1>2, <1>3
  <2> QED BY <2>1
<1> DEFINE t == Front(s)
<1>5. t = [j \in 1..(c - 1) |-> s[j]]
  <2>1. t = SubSeq(s, 1, c - 1) BY <1>2 DEF Front
  <2>2. DOMAIN s = 1..c BY <1>1, <1>2
  <2> HIDE DEF t
  <2> QED BY <1>2, <1>3, <1>4, <2>1, <2>2
<1> HIDE DEF t
<1>6. PICK b \in Nat : b = c - 1 BY <1>4
<1>7. t = [j \in 1..b |-> t[j]] BY <1>5, <1>6
<1>8. IsList(t) /\ DOMAIN t = 1..b BY <1>7, IntervalIsList
<1>9. \A j \in 1..b : t[j] = s[j] /\ j \in DOMAIN s BY <1>1, <1>2, <1>5, <1>6
<1>10. HoldsCells(t) BY <1>8, <1>9 DEF HoldsCells
<1> QED BY <1>10 DEF t

LEMMA CellAdded ==
  ASSUME NEW s, HoldsCells(s), NEW x, "note" \in DOMAIN x, x.note \in 1..2
  PROVE  HoldsCells(Append(s, x))
<1>1. IsList(s) BY DEF HoldsCells
<1> DEFINE t == Append(s, x)
<1>2. /\ IsList(t) /\ DOMAIN t = DOMAIN s \cup {Len(s) + 1}
      /\ \A j \in DOMAIN s : t[j] = s[j]
      /\ t[Len(s) + 1] = x
  BY <1>1, AppendedList DEF IsList
<1> HIDE DEF t
<1>3. \A j \in DOMAIN t : "note" \in DOMAIN t[j] /\ t[j].note \in 1..2 BY <1>2 DEF HoldsCells
<1>4. HoldsCells(t) BY <1>2, <1>3 DEF HoldsCells
<1> QED BY <1>4 DEF t

\* One step of the host.
LEMMA ReplannedShape ==
  ASSUME PlanShape(plan), HostReplans
  PROVE  PlanShape(plan')
<1>1. /\ IsNotePair(plan.notes) /\ IsNotePair(plan.newNotes)
      /\ HoldsCells(plan.cells) /\ HoldsCells(plan.newCells)
      /\ plan.networkFee \in Int /\ plan.profile.cellValue \in Int
  BY DEF PlanShape
<1>2. \A side \in {"notes", "newNotes"} : IsNotePair(plan[side]) BY <1>1
<1>3. \A side \in {"cells", "newCells"} : HoldsCells(plan[side]) BY <1>1
<1>4. ASSUME NEW side \in {"notes", "newNotes"}, NEW n \in 1 .. 2, NEW delta \in {-1, 1},
             RevalueNote(side, n, delta)
      PROVE  PlanShape(plan')
  <2> DEFINE c == plan.profile.cellValue
             x == [plan[side][n] EXCEPT !.value = @ + delta * c]
  <2>1. plan' = [plan EXCEPT ![side] = [plan[side] EXCEPT ![n] = x]] BY <1>4 DEF RevalueNote, Replan
  <2>2. "value" \in DOMAIN plan[side][n] /\ plan[side][n].value \in Int BY <1>2 DEF IsNotePair
  <2>3. delta * c \in Int
    <3>1. c \in Int /\ delta \in Int BY <1>1
    <3> HIDE DEF c
    <3> QED BY <3>1
  <2>4. "value" \in DOMAIN x /\ x.value \in Int BY <2>2, <2>3
  <2> HIDE DEF x
  <2>5. IsNotePair(plan[side]) BY <1>2
  <2>6. IsNotePair([plan[side] EXCEPT ![n] = x]) BY <2>4, <2>5, NoteChanged
  <2> QED BY <2>1, <2>6, NotesReplaced
<1>5. ASSUME NEW side \in {"cells", "newCells"}, NEW k \in {1, Len(plan[side])}, MoveCell(side, k)
      PROVE  PlanShape(plan')
  <2> DEFINE x == [plan[side][k] EXCEPT !.note = 3 - @]
  <2>1. plan' = [plan EXCEPT ![side] = [plan[side] EXCEPT ![k] = x]] BY <1>5 DEF MoveCell, Replan
  <2>2. HoldsCells(plan[side]) BY <1>3
  <2>3. ASSUME k \in DOMAIN plan[side] PROVE "note" \in DOMAIN x /\ x.note \in 1..2
    <3>1. "note" \in DOMAIN plan[side][k] /\ plan[side][k].note \in 1..2 BY <2>2, <2>3 DEF HoldsCells
    <3>2. 3 - plan[side][k].note \in 1..2 BY <3>1
    <3> QED BY <3>1, <3>2
  <2> HIDE DEF x
  <2>4. HoldsCells([plan[side] EXCEPT ![k] = x]) BY <2>2, <2>3, CellChanged
  <2> QED BY <2>1, <2>4, CellsReplaced
<1>6. ASSUME NEW side \in {"cells", "newCells"}, NEW field \in {"sats", "value"}, RevalueCell(side, 1, field)
      PROVE  PlanShape(plan')
  <2> DEFINE e == plan[side][1][field] + 1
  <2>1. plan' = [plan EXCEPT ![side] = [plan[side] EXCEPT ![1] = [plan[side][1] EXCEPT ![field] = e]]]
    BY <1>6 DEF RevalueCell, Replan
  <2>2. HoldsCells(plan[side]) /\ field # "note" BY <1>3
  <2> HIDE DEF e
  <2>3. HoldsCells([plan[side] EXCEPT ![1] = [plan[side][1] EXCEPT ![field] = e]]) BY <2>2, CellKeepsNote
  <2> QED BY <2>1, <2>3, CellsReplaced
<1>7. ASSUME NEW side \in {"cells", "newCells"}, DropCell(side)
      PROVE  PlanShape(plan')
  <2>1. plan[side] # <<>> /\ plan' = [plan EXCEPT ![side] = Front(plan[side])] BY <1>7 DEF DropCell, Replan
  <2>2. HoldsCells(plan[side]) BY <1>3
  <2>3. HoldsCells(Front(plan[side])) BY <2>1, <2>2, CellDropped
  <2> QED BY <2>1, <2>3, CellsReplaced
<1>8. ASSUME ReuseExitKey \/ MalformExitKey
      PROVE  PlanShape(plan')
  <2>1. "exit" # "note" OBVIOUS
  <2>2. PICK k, e : plan' = [plan EXCEPT !.newCells = [plan.newCells EXCEPT ![k] = [plan.newCells[k] EXCEPT !.exit = e]]]
    BY <1>8 DEF ReuseExitKey, MalformExitKey, Replan
  <2>3. HoldsCells([plan.newCells EXCEPT ![k] = [plan.newCells[k] EXCEPT !.exit = e]])
    BY <1>1, <2>1, CellKeepsNote
  <2> QED BY <2>2, <2>3, CellsReplaced
<1>9. ASSUME ReuseDescriptor
      PROVE  PlanShape(plan')
  <2> DEFINE x == [plan.newNotes[2] EXCEPT !.kem = plan.newNotes[1].kem]
  <2>1. plan' = [plan EXCEPT !.newNotes = [plan.newNotes EXCEPT ![2] = x]] BY <1>9 DEF ReuseDescriptor, Replan
  <2>2. "value" \in DOMAIN x /\ x.value \in Int BY <1>1 DEF IsNotePair
  <2> HIDE DEF x
  <2>3. IsNotePair([plan.newNotes EXCEPT ![2] = x]) BY <1>1, <2>2, NoteChanged
  <2> QED BY <2>1, <2>3, NotesReplaced
<1>10. ASSUME MalformOwnerKey
      PROVE  PlanShape(plan')
  <2> DEFINE x == [plan.notes[1] EXCEPT !.key = -1]
  <2>1. plan' = [plan EXCEPT !.notes = [plan.notes EXCEPT ![1] = x]] BY <1>10 DEF MalformOwnerKey, Replan
  <2>2. "value" \in DOMAIN x /\ x.value \in Int BY <1>1 DEF IsNotePair
  <2> HIDE DEF x
  <2>3. IsNotePair([plan.notes EXCEPT ![1] = x]) BY <1>1, <2>2, NoteChanged
  <2> QED BY <2>1, <2>3, NotesReplaced
<1>11. ASSUME NEW delta \in {-1, 1}, ChangeNetworkFee(delta)
      PROVE  PlanShape(plan')
  <2> DEFINE c == plan.profile.cellValue
             fee == plan.networkFee + delta * c
  <2>1. plan' = [plan EXCEPT !.networkFee = fee] BY <1>11 DEF ChangeNetworkFee, Replan
  <2>2. delta * c \in Int
    <3>1. c \in Int /\ delta \in Int BY <1>1
    <3> HIDE DEF c
    <3> QED BY <3>1
  <2>3. fee \in Int BY <1>1, <2>2
  <2> HIDE DEF fee
  <2> QED BY <2>1, <2>3, FeeReplaced
<1>12. ASSUME ChangeServiceFee
      PROVE  PlanShape(plan')
  <2>1. PICK fee : plan' = [plan EXCEPT !.serviceFee = fee] BY <1>12 DEF ChangeServiceFee, Replan
  <2> QED BY <2>1, FeeReplaced
<1>13. ASSUME AddCell
      PROVE  PlanShape(plan')
  <2>1. PICK e : /\ plan.newCells # <<>>
                 /\ plan' = [plan EXCEPT !.newCells = Append(plan.newCells, [plan.newCells[1] EXCEPT !.exit = e])]
    BY <1>13 DEF AddCell, Replan
  <2> DEFINE x == [plan.newCells[1] EXCEPT !.exit = e]
  <2>2. "note" \in DOMAIN plan.newCells[1] /\ plan.newCells[1].note \in 1..2
    <3>1. IsList(plan.newCells) BY <1>1 DEF HoldsCells
    <3>2. /\ DOMAIN plan.newCells = 1..Len(plan.newCells) /\ Len(plan.newCells) \in Nat
          /\ plan.newCells \in Seq(Range(plan.newCells))
      BY <3>1, IsListShape DEF IsList
    <3>3. Len(plan.newCells) # 0 BY <2>1, <3>2
    <3>4. 1 \in DOMAIN plan.newCells BY <3>2, <3>3
    <3> QED BY <1>1, <3>4 DEF HoldsCells
  <2>3. "note" \in DOMAIN x /\ x.note \in 1..2 BY <2>2
  <2> HIDE DEF x
  <2>4. HoldsCells(Append(plan.newCells, x)) BY <1>1, <2>3, CellAdded
  <2>5. plan' = [plan EXCEPT !.newCells = Append(plan.newCells, x)] BY <2>1 DEF x
  <2> QED BY <2>4, <2>5, CellsReplaced
<1> QED BY <1>4, <1>5, <1>6, <1>7, <1>8, <1>9, <1>10, <1>11, <1>12, <1>13 DEF HostReplans

\* A number of cells is a number.
LEMMA IntervalCount ==
  ASSUME NEW count \in Nat, NEW half, NEW n
  PROVE  Cardinality({k \in 1..count : Share(k, half) = n}) \in Nat
<1> DEFINE own == {k \in 1..count : Share(k, half) = n}
<1>1. IsFiniteSet(1..count) BY FS_Interval
<1>2. own \in SUBSET (1..count) OBVIOUS
<1> HIDE DEF own
<1>3. IsFiniteSet(own) BY <1>1, <1>2, FS_Subset
<1>4. Cardinality(own) \in Nat BY <1>3, FS_CardinalityType
<1> QED BY <1>4 DEF own

\* A plan starts with the shape.
LEMMA BasePlanShape ==
  ASSUME NEW p, ProfileParses(p), NEW padding, NEW tag
  PROVE  PlanShape(BasePlan(p, padding, tag))
<1> DEFINE pl == BasePlan(p, padding, tag)
           cells == CellsFor(p)
           created == p.minCreatedCells
           Holding(count, half, n) == p.cellValue * Cardinality({k \in 1 .. count : Share(k, half) = n})
<1>1. /\ pl.profile = p /\ pl.networkFee = p.cellValue /\ PlanFields \subseteq DOMAIN pl
      /\ pl.notes = [n \in 1..2 |-> [value |-> Holding(cells, cells \div 2, n), key |-> tag + n]]
      /\ pl.newNotes = [n \in 1..2 |-> [value |-> Holding(created, created \div 2, n),
                                        key |-> tag + 10 + n, kem |-> tag + 20 + n]]
      /\ pl.cells = [k \in 1..cells |-> [note |-> Share(k, cells \div 2), sats |-> p.cellValue, value |-> p.cellValue]]
      /\ pl.newCells = [k \in 1..created |-> [note |-> Share(k, created \div 2), sats |-> p.cellValue,
                                              value |-> p.cellValue, exit |-> tag + 30 + k]]
  BY DEF BasePlan, PlanFields
<1>2. p.cellValue \in Nat /\ p.cellValue >= 1 /\ p.flatFee \in Nat /\ created \in Nat
  BY MaxMoneyAssumption DEF ProfileParses
<1>3. cells \in Nat
  <2>1. PICK u \in Nat : u = 2 * p.flatFee BY <1>2
  <2>2. u \div p.cellValue \in Nat BY <1>2, <2>1
  <2> QED BY <1>2, <2>1, <2>2 DEF CellsFor
<1> HIDE DEF pl, cells, created
<1>4. \A k, half : Share(k, half) \in 1..2 BY DEF Share
<1>5. ASSUME NEW count \in Nat, NEW half, NEW n
      PROVE  Holding(count, half, n) \in Int
  <2>1. Cardinality({k \in 1 .. count : Share(k, half) = n}) \in Nat BY IntervalCount
  <2>2. PICK e \in Nat : e = Cardinality({k \in 1 .. count : Share(k, half) = n}) BY <2>1
  <2>3. p.cellValue * e \in Int BY <1>2
  <2> QED BY <2>2, <2>3
<1> HIDE DEF Holding
<1>6. 2 \in Nat OBVIOUS
<1>7. IsNotePair(pl.notes)
  <2>1. pl.notes = [n \in 1..2 |-> pl.notes[n]] BY <1>1
  <2>2. IsList(pl.notes) /\ Len(pl.notes) = 2 /\ DOMAIN pl.notes = 1..2 BY <1>6, <2>1, IntervalIsList
  <2>3. \A n \in 1..2 : "value" \in DOMAIN pl.notes[n] /\ pl.notes[n].value = Holding(cells, cells \div 2, n) BY <1>1
  <2>4. \A n \in 1..2 : Holding(cells, cells \div 2, n) \in Int BY <1>3, <1>5
  <2> QED BY <2>2, <2>3, <2>4 DEF IsNotePair
<1>8. IsNotePair(pl.newNotes)
  <2>1. pl.newNotes = [n \in 1..2 |-> pl.newNotes[n]] BY <1>1
  <2>2. IsList(pl.newNotes) /\ Len(pl.newNotes) = 2 /\ DOMAIN pl.newNotes = 1..2 BY <1>6, <2>1, IntervalIsList
  <2>3. \A n \in 1..2 : "value" \in DOMAIN pl.newNotes[n] /\ pl.newNotes[n].value = Holding(created, created \div 2, n)
    BY <1>1
  <2>4. \A n \in 1..2 : Holding(created, created \div 2, n) \in Int BY <1>2, <1>5
  <2> QED BY <2>2, <2>3, <2>4 DEF IsNotePair
<1>9. HoldsCells(pl.cells)
  <2>1. pl.cells = [k \in 1..cells |-> pl.cells[k]] BY <1>1
  <2>2. IsList(pl.cells) /\ DOMAIN pl.cells = 1..cells BY <1>3, <2>1, IntervalIsList
  <2>3. \A k \in 1..cells : "note" \in DOMAIN pl.cells[k] /\ pl.cells[k].note = Share(k, cells \div 2) BY <1>1
  <2> QED BY <1>4, <2>2, <2>3 DEF HoldsCells
<1>10. HoldsCells(pl.newCells)
  <2>1. pl.newCells = [k \in 1..created |-> pl.newCells[k]] BY <1>1
  <2>2. IsList(pl.newCells) /\ DOMAIN pl.newCells = 1..created BY <1>2, <2>1, IntervalIsList
  <2>3. \A k \in 1..created : "note" \in DOMAIN pl.newCells[k] /\ pl.newCells[k].note = Share(k, created \div 2)
    BY <1>1
  <2> QED BY <1>4, <2>2, <2>3 DEF HoldsCells
<1>11. PlanShape(pl) BY <1>1, <1>2, <1>7, <1>8, <1>9, <1>10 DEF PlanShape
<1> QED BY <1>11 DEF pl

\* The shape is an invariant: the host changes values, keys and lengths only.
LEMMA PlansKeepTheirShape == Spec => []PlanShape(plan)
<1>1. Init => PlanShape(plan)
  <2> SUFFICES ASSUME Init PROVE PlanShape(plan) OBVIOUS
  <2>1. PICK p \in Profiles, padding \in Paddings : plan = BasePlan(p, padding, 0) BY DEF Init
  <2>2. ProfileParses(p) BY BatchAssumption
  <2> QED BY <2>1, <2>2, BasePlanShape
<1>2. PlanShape(plan) /\ [Next]_vars => PlanShape(plan)'
  <2> SUFFICES ASSUME PlanShape(plan), [Next]_vars PROVE PlanShape(plan)' OBVIOUS
  <2>1. CASE HostReplans BY <2>1, ReplannedShape
  <2>2. CASE StatementGoesWrong
    <3>1. plan' = plan BY <2>2 DEF StatementGoesWrong, MisstateTuple, MisstateHash, MisstateNumber, Misstate
    <3> QED BY <3>1
  <2>3. CASE MaterialGoesWrong
    <3>1. plan' = plan
      BY <2>3 DEF MaterialGoesWrong, GraftMaterial, LoseMaterial, RepeatMaterial, GraftTable, GraftExpected, Lapse
    <3> QED BY <3>1
  <2>4. CASE Evaluate
    <3>1. plan' = plan BY <2>4 DEF Evaluate
    <3> QED BY <3>1
  <2>5. CASE UNCHANGED vars
    <3>1. plan' = plan BY <2>5 DEF vars
    <3> QED BY <3>1
  <2> QED BY <2>1, <2>2, <2>3, <2>4, <2>5 DEF Next
<1> QED BY <1>1, <1>2, PTL DEF Spec

\* What the host means by an honest plan is what the batch of it needs.
LEMMA BackedNotes ==
  ASSUME NEW notes, NEW cells, NEW c \in Int, IsNotePair(notes), UniformCells(cells, c),
         \A n \in DOMAIN notes :
            CellsOfNote(cells, n) # <<>> /\ notes[n].value = Sum(CellsOfNote(cells, n), LAMBDA k : cells[k].value)
  PROVE  NotesBacked(notes, cells, c)
<1>1. ASSUME NEW n \in 1..2
      PROVE  CellsOfNote(cells, n) # <<>> /\ notes[n].value = Len(CellsOfNote(cells, n)) * c
  <2> DEFINE own == CellsOfNote(cells, n)
             values == [j \in DOMAIN own |-> cells[own[j]].value]
  <2>1. n \in DOMAIN notes BY DEF IsNotePair
  <2>2. own # <<>> /\ notes[n].value = Sum(own, LAMBDA k : cells[k].value) BY <2>1
  <2>3. Sum(own, LAMBDA k : cells[k].value) = TotalOf(values) BY DEF Sum
  <2>4. IsList(cells) /\ \A k \in DOMAIN cells : cells[k].value = c BY DEF UniformCells
  <2>5. DOMAIN cells = 1..Len(cells) BY <2>4, IsListShape
  <2>6. Len(own) \in Nat /\ DOMAIN own = 1..Len(own) /\ \A j \in 1..Len(own) : own[j] \in 1..Len(cells)
    BY <2>4, OwnCells
  <2> HIDE DEF own
  <2>7. PICK e \in Nat : e = Len(own) BY <2>6
  <2>8. values = [j \in 1..e |-> c] BY <2>4, <2>5, <2>6, <2>7
  <2> HIDE DEF values
  <2>9. TotalOf(values) = e * c BY <2>8, TotalOfSame
  <2> QED BY <2>2, <2>3, <2>7, <2>9 DEF own
<1> QED BY <1>1 DEF NotesBacked

(***************************************************************************)
(* What the host means by an honest plan, and the theorem.                 *)
(***************************************************************************)

\* What the host means by the worth of two notes.
LEMMA PairWorth ==
  ASSUME NEW notes, IsNotePair(notes)
  PROVE  Worth(notes) = notes[1].value + notes[2].value
<1> DEFINE values == [n \in DOMAIN notes |-> notes[n].value]
<1>1. DOMAIN notes = 1..2 /\ \A n \in 1..2 : notes[n].value \in Int BY DEF IsNotePair
<1>2. values \in [1..2 -> Int] /\ values[1] = notes[1].value /\ values[2] = notes[2].value BY <1>1
<1>3. Worth(notes) = TotalOf(values) BY DEF Worth, Sum
<1> HIDE DEF values
<1> QED BY <1>2, <1>3, PairTotal

LEMMA ListMember ==
  ASSUME NEW s, NEW k \in DOMAIN s
  PROVE  s[k] \in ToSet(s)
BY DEF ToSet

\* A plan honest in the sense of the property is one in the sense of the lemmas.
LEMMA HonestPlanOfHost ==
  ASSUME BatchInv, PlanShape(plan), PlanHonest, IndexesFitOneByte
  PROVE  HonestPlan(plan)
<1> DEFINE p == plan.profile
           c == plan.profile.cellValue
<1>1. /\ ProfileParses(p) /\ plan.padding \in Nat
  <2>1. plan.profile \in Profiles /\ plan.padding \in Paddings BY DEF BatchInv
  <2> QED BY <2>1, BatchAssumption
<1>2. /\ IsNotePair(plan.notes) /\ IsNotePair(plan.newNotes)
      /\ HoldsCells(plan.cells) /\ HoldsCells(plan.newCells)
      /\ plan.networkFee \in Int /\ c \in Int
  BY DEF PlanShape
<1>3. /\ \A x \in ToSet(plan.cells) \cup ToSet(plan.newCells) : x.sats = c /\ x.value = c
      /\ Len(plan.notes) >= p.minConsumedNotes
      /\ Len(plan.cells) >= p.minConsumedCells
      /\ Len(plan.newCells) \in p.minCreatedCells .. p.maxCreatedCells
      /\ plan.networkFee > 0
      /\ plan.serviceFee = Len(plan.notes) * p.flatFee
      /\ Worth(plan.notes) = Worth(plan.newNotes) + plan.networkFee + plan.serviceFee
      /\ ~Overflows(Worth(Inputs(plan)))
      /\ \A n \in ToSet(plan.notes) : KeyParses(n.key)
      /\ \A x \in ToSet(plan.newCells) : KeyParses(x.exit)
      /\ Distinct([k \in DOMAIN plan.newCells |-> plan.newCells[k].exit])
      /\ Distinct([n \in DOMAIN plan.newNotes |-> plan.newNotes[n].kem])
  BY DEF PlanHonest
<1>4. /\ \A n \in DOMAIN plan.notes : CellsOfNote(plan.cells, n) # <<>>
                /\ plan.notes[n].value = Sum(CellsOfNote(plan.cells, n), LAMBDA k : plan.cells[k].value)
      /\ \A n \in DOMAIN plan.newNotes : CellsOfNote(plan.newCells, n) # <<>>
                /\ plan.newNotes[n].value = Sum(CellsOfNote(plan.newCells, n), LAMBDA k : plan.newCells[k].value)
  BY DEF PlanHonest
<1>5. InputIndex(plan, Len(plan.cells)) < 256 BY DEF IndexesFitOneByte
<1>6. Len(plan.notes) = 2 /\ DOMAIN plan.notes = 1..2 /\ DOMAIN plan.newNotes = 1..2 BY <1>2 DEF IsNotePair
<1>7. p.minConsumedNotes = 2
  <2>1. p.minConsumedNotes \in Nat /\ p.minConsumedNotes >= 2 BY <1>1 DEF ProfileParses
  <2> QED BY <1>3, <1>6, <2>1
<1> HIDE DEF p
<1>8. UniformCells(plan.cells, c) BY <1>2, <1>3, ListMember DEF UniformCells, HoldsCells
<1>9. UniformCells(plan.newCells, c) BY <1>2, <1>3, ListMember DEF UniformCells, HoldsCells
<1>10. NotesBacked(plan.notes, plan.cells, c) BY <1>2, <1>4, <1>8, BackedNotes
<1>11. NotesBacked(plan.newNotes, plan.newCells, c) BY <1>2, <1>4, <1>9, BackedNotes
<1>12. plan.serviceFee = 2 * p.flatFee BY <1>3, <1>6
<1>13. plan.notes[1].value + plan.notes[2].value
         = plan.newNotes[1].value + plan.newNotes[2].value + plan.networkFee + plan.serviceFee
  <2>1. Worth(plan.notes) = plan.notes[1].value + plan.notes[2].value BY <1>2, PairWorth
  <2>2. Worth(plan.newNotes) = plan.newNotes[1].value + plan.newNotes[2].value BY <1>2, PairWorth
  <2> QED BY <1>3, <2>1, <2>2
<1>14. \A n \in 1..2 : KeyParses(plan.notes[n].key) BY <1>3, <1>6, ListMember
<1>15. \A k \in DOMAIN plan.newCells : KeyParses(plan.newCells[k].exit) BY <1>3, ListMember
<1>16. plan.newNotes[1].kem # plan.newNotes[2].kem
  <2> DEFINE kems == [n \in DOMAIN plan.newNotes |-> plan.newNotes[n].kem]
  <2>1. DOMAIN kems = 1..2 /\ kems[1] = plan.newNotes[1].kem /\ kems[2] = plan.newNotes[2].kem BY <1>6
  <2>2. Distinct(kems) BY <1>3
  <2> HIDE DEF kems
  <2>3. kems[1] = kems[2] => 1 = 2 BY <2>1, <2>2 DEF Distinct
  <2> QED BY <2>1, <2>3
<1> QED
  BY <1>1, <1>2, <1>3, <1>5, <1>7, <1>8, <1>9, <1>10, <1>11, <1>12, <1>13, <1>14, <1>15, <1>16
  DEF HonestPlan, p

\* Completeness (HonestBatchIsAccepted): whatever number of cells, fees and notes'
\* values the host plans, as long as the plan is an honest one, and nothing is
\* misstated and nothing goes wrong with the material, the relation's thirty-odd
\* checks have nothing to object.
THEOREM HonestBatchIsAlwaysAccepted == Spec => []HonestBatchIsAccepted
<1>1. BatchInv /\ PlanShape(plan) => HonestBatchIsAccepted
  <2> SUFFICES ASSUME BatchInv, PlanShape(plan), result # Pending, PlanHonest, IndexesFitOneByte,
                      false = <<>>, lapses = <<>>
               PROVE  IsAccepted
    BY DEF HonestBatchIsAccepted
  <2>1. result = PublicResult(input) BY DEF BatchInv, Faithful
  <2>2. input = HonestBatch(plan) BY NothingGoneWrong
  <2>3. HonestPlan(plan) BY HonestPlanOfHost
  <2>4. Verdict(HonestBatch(plan)) = Accepted BY <2>3, AcceptedPlan
  <2>5. result = ResultOf(input, Accepted) BY <2>1, <2>2, <2>4 DEF PublicResult
  <2>6. Accepted # Malformed BY DEF Accepted, Malformed
  <2>7. result.verdict = Accepted BY <2>5, <2>6 DEF ResultOf
  <2> QED BY <2>7 DEF IsAccepted
<1>2. Spec => []BatchInv BY BatchInvariant
<1> QED BY <1>1, <1>2, PlansKeepTheirShape, PTL

(***************************************************************************)
(* What the statement of an honest plan fixes.                             *)
(***************************************************************************)

\* The cells an honest batch consumes have openings of different slots.
LEMMA CellsOfPlanTellApart ==
  ASSUME NEW pl, HonestPlan(pl)
  PROVE  CellsTellApart(Public(pl).consumedCells)
<1> DEFINE cells == Public(pl).consumedCells
<1>1. PICK m \in Nat, d \in Nat, n \in Nat : Sizes(pl, m, d, n) BY PlanHasSizes
<1>2. DOMAIN cells = 1..m /\ \A k \in 1..m : cells[k].cell = CellCommitment(OldOpenings(pl)[k])
  BY <1>1, PublicItems DEF PublicCellsAre
<1>3. DOMAIN pl.cells = 1..m
  <2>1. IsList(pl.cells) BY DEF HonestPlan, UniformCells
  <2> QED BY <1>1, <2>1, IsListShape DEF Sizes
<1>4. \A k \in 1..m : OldOpenings(pl)[k].slot = k BY <1>3 DEF OldOpenings
<1> HIDE DEF cells
<1>5. ASSUME NEW k \in 1..m, NEW l \in 1..m, cells[k].cell = cells[l].cell PROVE k = l
  <2>1. Hash("cell", OldOpenings(pl)[k]) = Hash("cell", OldOpenings(pl)[l])
    BY <1>2, <1>5 DEF CellCommitment
  <2>2. OldOpenings(pl)[k] = OldOpenings(pl)[l] BY <2>1 DEF Hash
  <2> QED BY <1>4, <2>2
<1> QED BY <1>2, <1>5 DEF CellsTellApart, cells

LEMMA HonestBatchIsSound ==
  ASSUME NEW pl, HonestPlan(pl)
  PROVE  Sound(HonestBatch(pl)) /\ HonestBatch(pl).statement = Public(pl)
<1>1. PICK m \in Nat, d \in Nat, n \in Nat : Sizes(pl, m, d, n) BY PlanHasSizes
<1>2. PICK i : i = HonestBatch(pl) OBVIOUS
<1>3. i.statement = Public(pl) BY <1>1, <1>2, SuppliedOfPlan DEF Supplied
<1>4. Verdict(i) = Accepted BY <1>2, AcceptedPlan
<1>5. Accepted # Malformed BY DEF Accepted, Malformed
<1>6. InputParses(i) /\ Evaluation(i) = Accepted BY <1>4, <1>5 DEF Verdict
<1>7. EveryCheckHolds(i) BY <1>6, EvaluationStages
<1> QED BY <1>2, <1>3, <1>6, <1>7 DEF Sound

\* Soundness without a bound on what goes wrong (HonestStatementFixesMaterial): however
\* many contributions are lost, repeated, swapped or left over, what is accepted for the
\* statement of an honest plan says what the honest parties would have said.
THEOREM HonestStatementAlwaysFixesMaterial == Spec => []HonestStatementFixesMaterial
<1>1. BatchInv /\ PlanShape(plan) => HonestStatementFixesMaterial
  <2> SUFFICES ASSUME BatchInv, PlanShape(plan), IsAccepted, PlanHonest, IndexesFitOneByte,
                      input.statement = HonestBatch(plan).statement
               PROVE  SameMaterial(input, HonestBatch(plan))
    BY DEF HonestStatementFixesMaterial
  <2>1. HonestPlan(plan) BY HonestPlanOfHost
  <2>2. Sound(input) BY ResultReached DEF Sound
  <2>3. Sound(HonestBatch(plan)) /\ HonestBatch(plan).statement = Public(plan)
    BY <2>1, HonestBatchIsSound
  <2>4. CellsTellApart(input.statement.consumedCells) BY <2>1, <2>3, CellsOfPlanTellApart
  <2> QED BY <2>2, <2>3, <2>4, StatementFixesMaterial
<1>2. Spec => []BatchInv BY BatchInvariant
<1> QED BY <1>1, <1>2, PlansKeepTheirShape, PTL
=============================================================================
