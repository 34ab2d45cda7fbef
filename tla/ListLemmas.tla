------------------------------ MODULE ListLemmas ------------------------------
(***************************************************************************)
(* What the proofs about lists share: induction over the naturals in a     *)
(* form the provers can use, and from it what running totals and flattened *)
(* lists are.                                                              *)
(*                                                                         *)
(* The library's induction theorems take the induction hypothesis as an    *)
(* operator.  Here it is a set, the numbers it holds of, and the induction *)
(* step says that the set is closed under successor.                       *)
(***************************************************************************)
EXTENDS Lists, SequencesExt, FiniteSetTheorems, TLAPS

\* A set of naturals has a least element: the intervals below its elements are finite
\* sets, which strict inclusion orders well.
LEMMA LeastElement ==
  ASSUME NEW S, S \subseteq Nat, S # {}
  PROVE  \E m \in S : \A n \in S : m <= n
<1> DEFINE Below(n) == 0 .. (n - 1)
           T == {Below(n) : n \in S}
<1>1. IsWellFoundedOn(StrictSubsetOrdering(Nat), FiniteSubsetsOf(Nat))
  BY FS_StrictSubsetOrderingWellFounded
<1>2. T \subseteq FiniteSubsetsOf(Nat)
  <2> SUFFICES ASSUME NEW n \in S PROVE Below(n) \in FiniteSubsetsOf(Nat)
    OBVIOUS
  <2>1. IsFiniteSet(Below(n))
    BY FS_Interval
  <2> QED BY <2>1 DEF FiniteSubsetsOf
<1>3. T # {} OBVIOUS
<1>4. PICK x \in T : \A y \in T : ~(<<y, x>> \in StrictSubsetOrdering(Nat))
  <2> HIDE DEF T
  <2> QED BY <1>1, <1>2, <1>3, WFMin
<1>5. PICK m \in S : x = Below(m) OBVIOUS
<1>6. ASSUME NEW n \in S, n < m PROVE FALSE
  <2>1. n \in Below(m) /\ n \notin Below(n) BY <1>6
  <2>2. Below(n) \subseteq Below(m) BY <1>6
  <2>3. <<Below(n), Below(m)>> \in StrictSubsetOrdering(Nat)
    <3>1. Below(n) \in SUBSET Nat /\ Below(m) \in SUBSET Nat BY <1>6
    <3> HIDE DEF Below
    <3> QED BY <3>1, <2>1, <2>2 DEF StrictSubsetOrdering
  <2> QED BY <1>4, <1>5, <2>3
<1> QED BY <1>6

\* Induction: what holds of 0, and of n + 1 if it holds of n, holds of every natural.
LEMMA Induction ==
  ASSUME NEW S, 0 \in S, \A n \in Nat : n \in S => n + 1 \in S
  PROVE  \A n \in Nat : n \in S
<1> SUFFICES ASSUME Nat \ S # {} PROVE FALSE OBVIOUS
<1>1. PICK m \in Nat \ S : \A n \in Nat \ S : m <= n BY LeastElement
<1>2. m # 0 OBVIOUS
<1>3. m - 1 \in Nat /\ m - 1 \in S BY <1>1, <1>2
<1> QED BY <1>1, <1>3

(***************************************************************************)
(* Running totals.                                                         *)
(***************************************************************************)

AreRunningTotals(total, values, last) ==
    total = [n \in 0..last |-> IF n = 0 THEN 0 ELSE total[n - 1] + values[n]]

LEMMA RunningTotalsExist ==
  ASSUME NEW values
  PROVE  \A last \in Nat : \E total : AreRunningTotals(total, values, last)
<1> DEFINE S == {last \in Nat : \E total : AreRunningTotals(total, values, last)}
<1>1. 0 \in S
  <2> DEFINE g == [n \in 0..0 |-> 0]
  <2>1. AreRunningTotals(g, values, 0) BY DEF AreRunningTotals
  <2> QED BY <2>1
<1>2. ASSUME NEW last \in Nat, last \in S PROVE last + 1 \in S
  <2>1. PICK total : AreRunningTotals(total, values, last) BY <1>2
  <2> DEFINE g == [n \in 0..(last + 1) |-> IF n = last + 1 THEN total[last] + values[n] ELSE total[n]]
  <2>2. \A n \in 0..last : total[n] = IF n = 0 THEN 0 ELSE total[n - 1] + values[n]
    BY <2>1 DEF AreRunningTotals
  <2>3. \A n \in 0..(last + 1) : g[n] = IF n = 0 THEN 0 ELSE g[n - 1] + values[n]
    <3> SUFFICES ASSUME NEW n \in 0..(last + 1)
                 PROVE  g[n] = IF n = 0 THEN 0 ELSE g[n - 1] + values[n]
      OBVIOUS
    <3>1. CASE n = last + 1 BY <3>1
    <3>2. CASE n \in 0..last
      <4>1. g[n] = total[n] BY <3>2
      <4>2. n # 0 => g[n - 1] = total[n - 1] BY <3>2
      <4> QED BY <2>2, <3>2, <4>1, <4>2
    <3> QED BY <3>1, <3>2
  <2>4. AreRunningTotals(g, values, last + 1) BY <2>3 DEF AreRunningTotals
  <2> QED BY <2>4
<1> HIDE DEF S
<1>3. \A last \in Nat : last \in S BY <1>1, <1>2, Induction
<1> QED BY <1>3 DEF S

LEMMA RunningTotalsStep ==
  ASSUME NEW values, Len(values) \in Nat
  PROVE  /\ RunningTotals(values)[0] = 0
         /\ \A n \in 1..Len(values) :
               RunningTotals(values)[n] = RunningTotals(values)[n - 1] + values[n]
<1> DEFINE f == CHOOSE total : AreRunningTotals(total, values, Len(values))
<1>1. RunningTotals(values) = f BY DEF RunningTotals, AreRunningTotals
<1>2. AreRunningTotals(f, values, Len(values)) BY RunningTotalsExist
<1> HIDE DEF f
<1> QED BY <1>1, <1>2 DEF AreRunningTotals

LEMMA RunningTotalsType ==
  ASSUME NEW values \in Seq(Int)
  PROVE  \A n \in 0..Len(values) : RunningTotals(values)[n] \in Int
<1> DEFINE S == {n \in Nat : n <= Len(values) => RunningTotals(values)[n] \in Int}
<1>1. 0 \in S BY RunningTotalsStep
<1>2. ASSUME NEW n \in Nat, n \in S PROVE n + 1 \in S
  <2> SUFFICES ASSUME n + 1 <= Len(values) PROVE RunningTotals(values)[n + 1] \in Int OBVIOUS
  <2>1. RunningTotals(values)[n] \in Int BY <1>2
  <2>2. RunningTotals(values)[n + 1] = RunningTotals(values)[n] + values[n + 1]
    <3>1. n + 1 \in 1..Len(values) OBVIOUS
    <3> QED BY <3>1, RunningTotalsStep
  <2> QED BY <2>1, <2>2
<1> HIDE DEF S
<1>3. \A n \in Nat : n \in S BY <1>1, <1>2, Induction
<1> QED BY <1>3 DEF S

LEMMA RunningTotalsNext ==
  ASSUME NEW values \in Seq(Int), NEW n \in Nat, n + 1 <= Len(values)
  PROVE  /\ RunningTotals(values)[n] \in Int
         /\ values[n + 1] \in Int
         /\ RunningTotals(values)[n + 1] = RunningTotals(values)[n] + values[n + 1]
<1>1. Len(values) \in Nat OBVIOUS
<1>2. n \in 0..Len(values) /\ n + 1 \in 1..Len(values) BY <1>1
<1>3. RunningTotals(values)[n] \in Int BY <1>2, RunningTotalsType
<1>4. values[n + 1] \in Int BY <1>2
<1>5. \A k \in 1..Len(values) :
         RunningTotals(values)[k] = RunningTotals(values)[k - 1] + values[k]
  BY <1>1, RunningTotalsStep
<1>6. RunningTotals(values)[n + 1] = RunningTotals(values)[(n + 1) - 1] + values[n + 1]
  BY <1>2, <1>5
<1>7. (n + 1) - 1 = n OBVIOUS
<1> QED BY <1>3, <1>4, <1>6, <1>7

\* The middle of a stretch leaves something on both sides.
LEMMA Middle ==
  ASSUME NEW l \in Nat, NEW h \in Nat, l # h
  PROVE  LET m == (l + h) \div 2
         IN  /\ m \in Nat
             /\ l < h => l <= m /\ m < h
             /\ h < l => h <= m /\ m < l
OBVIOUS

ArePartTotals(part, values) ==
    part = [at \in (DOMAIN values) \X (DOMAIN values) |->
               LET middle == (at[1] + at[2]) \div 2
               IN  IF at[1] = at[2] THEN values[at[1]]
                   ELSE part[<<at[1], middle>>] + part[<<middle + 1, at[2]>>]]

\* What the running totals are at the ends of a stretch is the total of the stretch.
LEMMA PartTotalsExist ==
  ASSUME NEW values \in Seq(Int)
  PROVE  \E part : ArePartTotals(part, values)
<1> DEFINE n == Len(values)
           D == DOMAIN values
           run == RunningTotals(values)
           part == [at \in D \X D |-> run[at[2]] - run[at[1] - 1]]
           Step(f, at) == LET middle == (at[1] + at[2]) \div 2
                          IN  IF at[1] = at[2] THEN values[at[1]]
                              ELSE f[<<at[1], middle>>] + f[<<middle + 1, at[2]>>]
<1>1. n \in Nat /\ D = 1..n OBVIOUS
<1>2. \A k \in 0..n : run[k] \in Int BY RunningTotalsType
<1>3. \A l, h \in D : part[<<l, h>>] = run[h] - run[l - 1] OBVIOUS
<1>4. \A k \in D : values[k] \in Int /\ run[k] = run[k - 1] + values[k]
  BY <1>1, RunningTotalsStep
<1> HIDE DEF n, D, run, part
<1>5. ASSUME NEW l \in D, NEW h \in D PROVE part[<<l, h>>] = Step(part, <<l, h>>)
  <2> DEFINE m == (l + h) \div 2
  <2>1. l \in Nat /\ h \in Nat /\ l - 1 \in 0..n /\ h \in 0..n BY <1>1
  <2>2. run[l - 1] \in Int /\ run[h] \in Int BY <1>2, <2>1
  <2>3. CASE l = h
    <3>1. Step(part, <<l, h>>) = values[l] BY <2>3
    <3>2. values[l] \in Int /\ run[l] = run[l - 1] + values[l] BY <1>4
    <3> QED BY <1>3, <2>2, <2>3, <3>1, <3>2
  <2>4. CASE l # h
    <3>1. m \in D /\ m + 1 \in D
      <4>1. m \in Nat /\ (l < h => l <= m /\ m < h) /\ (h < l => h <= m /\ m < l) BY <2>1, <2>4, Middle
      <4>2. l < h \/ h < l BY <2>1, <2>4
      <4> HIDE DEF m
      <4> QED BY <1>1, <4>1, <4>2
    <3>2. Step(part, <<l, h>>) = part[<<l, m>>] + part[<<m + 1, h>>] BY <2>4
    <3> HIDE DEF m
    <3>3. m \in 0..n /\ (m + 1) - 1 = m BY <1>1, <3>1
    <3>4. run[m] \in Int BY <1>2, <3>3
    <3>5. part[<<l, m>>] = run[m] - run[l - 1] BY <1>3, <3>1
    <3>6. part[<<m + 1, h>>] = run[h] - run[m]
      <4>1. part[<<m + 1, h>>] = run[h] - run[(m + 1) - 1] BY <1>3, <3>1
      <4> QED BY <3>3, <4>1
    <3>7. part[<<l, h>>] = run[h] - run[l - 1] BY <1>3
    <3>8. (run[m] - run[l - 1]) + (run[h] - run[m]) = run[h] - run[l - 1]
      <4> DEFINE a == run[m]
                 b == run[l - 1]
                 c == run[h]
      <4>1. a \in Int /\ b \in Int /\ c \in Int BY <2>2, <3>4
      <4> HIDE DEF a, b, c
      <4>2. (a - b) + (c - a) = c - b BY <4>1
      <4> QED BY <4>2 DEF a, b, c
    <3> QED BY <3>2, <3>5, <3>6, <3>7, <3>8
  <2> QED BY <2>3, <2>4
<1>6. \A at \in D \X D : part[at] = Step(part, at)
  <2> SUFFICES ASSUME NEW at \in D \X D PROVE part[at] = Step(part, at) OBVIOUS
  <2>1. PICK l \in D, h \in D : at = <<l, h>> OBVIOUS
  <2> QED BY <1>5, <2>1
<1>7. part = [at \in D \X D |-> part[at]] BY DEF part
<1> HIDE DEF Step
<1>8. part = [at \in D \X D |-> Step(part, at)] BY <1>6, <1>7
<1>9. ArePartTotals(part, values)
  <2> HIDE DEF part
  <2> QED BY <1>8 DEF ArePartTotals, Step, D
<1> QED BY <1>9

LEMMA PartTotalsStep ==
  ASSUME NEW values \in Seq(Int), NEW l \in DOMAIN values, NEW h \in DOMAIN values
  PROVE  PartTotals(values)[<<l, h>>] =
             LET middle == (l + h) \div 2
             IN  IF l = h THEN values[l]
                 ELSE PartTotals(values)[<<l, middle>>] + PartTotals(values)[<<middle + 1, h>>]
<1> DEFINE f == CHOOSE part : ArePartTotals(part, values)
<1>1. PartTotals(values) = f BY DEF PartTotals, ArePartTotals
<1>2. ArePartTotals(f, values) BY PartTotalsExist
<1> HIDE DEF f
<1> DEFINE D == DOMAIN values
<1>3. l \in D /\ h \in D OBVIOUS
<1>4. f = [at \in D \X D |->
             LET middle == (at[1] + at[2]) \div 2
             IN  IF at[1] = at[2] THEN values[at[1]]
                 ELSE f[<<at[1], middle>>] + f[<<middle + 1, at[2]>>]]
  BY <1>2 DEF ArePartTotals
<1> HIDE DEF D
<1>5. f[<<l, h>>] = LET middle == (l + h) \div 2
                   IN  IF l = h THEN values[l] ELSE f[<<l, middle>>] + f[<<middle + 1, h>>]
  BY <1>3, <1>4
<1> QED BY <1>1, <1>5

\* The total by halves is the last running total.
LEMMA TotalIsLast ==
  ASSUME NEW values \in Seq(Int)
  PROVE  TotalOf(values) = RunningTotals(values)[Len(values)]
<1> DEFINE n == Len(values)
           run == RunningTotals(values)
           part == PartTotals(values)
           IsPart(l, h) == part[<<l, h>>] = run[h] - run[l - 1]
           T == {d \in Nat : \A l, h \in 1..n : l <= h /\ h - l <= d => IsPart(l, h)}
<1>1. n \in Nat /\ DOMAIN values = 1..n OBVIOUS
<1>2. \A k \in 0..n : run[k] \in Int BY RunningTotalsType
<1>3. run[0] = 0 /\ \A k \in 1..n : values[k] \in Int /\ run[k] = run[k - 1] + values[k]
  BY <1>1, RunningTotalsStep
<1>4. \A l, h \in 1..n : part[<<l, h>>] =
          LET middle == (l + h) \div 2
          IN  IF l = h THEN values[l] ELSE part[<<l, middle>>] + part[<<middle + 1, h>>]
  <2> SUFFICES ASSUME NEW l \in 1..n, NEW h \in 1..n
               PROVE  part[<<l, h>>] =
                          LET middle == (l + h) \div 2
                          IN  IF l = h THEN values[l] ELSE part[<<l, middle>>] + part[<<middle + 1, h>>]
    OBVIOUS
  <2>1. l \in DOMAIN values /\ h \in DOMAIN values BY <1>1
  <2> QED BY <2>1, PartTotalsStep
<1> HIDE DEF n, run, part
<1>5. ASSUME NEW l \in 1..n PROVE IsPart(l, l)
  <2>1. part[<<l, l>>] = values[l] BY <1>4
  <2>2. l - 1 \in 0..n BY <1>1
  <2>3. run[l - 1] \in Int /\ values[l] \in Int /\ run[l] = run[l - 1] + values[l] BY <1>2, <1>3, <2>2
  <2> QED BY <2>1, <2>3
<1>6. 0 \in T
  <2> SUFFICES ASSUME NEW l \in 1..n, NEW h \in 1..n, l <= h, h - l <= 0 PROVE IsPart(l, h) OBVIOUS
  <2>1. l = h BY <1>1
  <2> HIDE DEF IsPart
  <2> QED BY <1>5, <2>1
<1>7. ASSUME NEW d \in Nat, d \in T PROVE d + 1 \in T
  <2> SUFFICES ASSUME NEW l \in 1..n, NEW h \in 1..n, l <= h, h - l <= d + 1 PROVE IsPart(l, h) OBVIOUS
  <2>1. CASE l = h
    <3> HIDE DEF IsPart
    <3> QED BY <1>5, <2>1
  <2>2. CASE l # h
    <3> DEFINE m == (l + h) \div 2
    <3>1. m \in Nat /\ l <= m /\ m < h
      <4>1. l \in Nat /\ h \in Nat /\ l < h BY <1>1, <2>2
      <4> QED BY <2>2, <4>1, Middle
    <3>2. part[<<l, h>>] = part[<<l, m>>] + part[<<m + 1, h>>] BY <1>4, <2>2
    <3> HIDE DEF m
    <3>3. m \in 1..n /\ m + 1 \in 1..n /\ m + 1 <= h /\ m - l <= d /\ h - (m + 1) <= d BY <1>1, <3>1
    <3>4. IsPart(l, m) /\ IsPart(m + 1, h)
      <4> HIDE DEF IsPart
      <4> QED BY <1>7, <3>1, <3>3
    <3>5. /\ l - 1 \in 0..n /\ m \in 0..n /\ h \in 0..n /\ (m + 1) - 1 = m BY <1>1, <3>3
    <3>6. part[<<l, m>>] = run[m] - run[l - 1] /\ part[<<m + 1, h>>] = run[h] - run[m]
      BY <3>4, <3>5
    <3>7. (run[m] - run[l - 1]) + (run[h] - run[m]) = run[h] - run[l - 1]
      <4> DEFINE a == run[m]
                 b == run[l - 1]
                 c == run[h]
      <4>1. a \in Int /\ b \in Int /\ c \in Int BY <1>2, <3>5
      <4> HIDE DEF a, b, c
      <4>2. (a - b) + (c - a) = c - b BY <4>1
      <4> QED BY <4>2 DEF a, b, c
    <3> QED BY <3>2, <3>6, <3>7
  <2> QED BY <2>1, <2>2
<1> HIDE DEF T
<1>8. \A d \in Nat : d \in T BY <1>6, <1>7, Induction
<1>9. CASE n = 0
  <2>1. TotalOf(values) = 0 BY <1>9 DEF TotalOf, n
  <2> QED BY <1>3, <1>9, <2>1 DEF n, run
<1>10. CASE n # 0
  <2>1. TotalOf(values) = part[<<1, n>>] BY <1>10 DEF TotalOf, part, n
  <2>2. 1 \in 1..n /\ n \in 1..n /\ 1 <= n /\ n - 1 <= n /\ 1 - 1 = 0 BY <1>1, <1>10
  <2>3. n \in T BY <1>1, <1>8
  <2>4. part[<<1, n>>] = run[n] - run[0] BY <2>2, <2>3 DEF T
  <2>5. run[n] \in Int BY <1>1, <1>2
  <2> QED BY <1>3, <2>1, <2>4, <2>5 DEF n, run
<1> QED BY <1>9, <1>10

LEMMA TotalOfType ==
  ASSUME NEW values \in Seq(Int)
  PROVE  TotalOf(values) \in Int
<1>1. Len(values) \in 0..Len(values) OBVIOUS
<1> QED BY <1>1, RunningTotalsType, TotalIsLast

\* Two lists that agree everywhere but at one place have totals that differ by what
\* they differ by there.
LEMMA TotalsDifferAtOne ==
  ASSUME NEW s \in Seq(Int), NEW t \in Seq(Int), Len(s) = Len(t), NEW k \in 1..Len(s),
         \A n \in 1..Len(s) : n # k => s[n] = t[n]
  PROVE  TotalOf(s) - TotalOf(t) = s[k] - t[k]
<1> DEFINE a == RunningTotals(s)
           b == RunningTotals(t)
           S == {n \in Nat : n <= Len(s) => a[n] - b[n] = IF n < k THEN 0 ELSE s[k] - t[k]}
<1>0. Len(s) \in Nat /\ Len(t) \in Nat OBVIOUS
<1>1. 0 \in S
  <2>1. a[0] = 0 BY <1>0, RunningTotalsStep
  <2>2. b[0] = 0 BY <1>0, RunningTotalsStep
  <2> QED BY <2>1, <2>2
<1>2. ASSUME NEW n \in Nat, n \in S PROVE n + 1 \in S
  <2> SUFFICES ASSUME n + 1 <= Len(s)
               PROVE  a[n + 1] - b[n + 1] = IF n + 1 < k THEN 0 ELSE s[k] - t[k]
    OBVIOUS
  <2>1. a[n] \in Int /\ s[n + 1] \in Int /\ a[n + 1] = a[n] + s[n + 1]
    BY RunningTotalsNext
  <2>2. n + 1 <= Len(t) OBVIOUS
  <2>3. b[n] \in Int /\ t[n + 1] \in Int /\ b[n + 1] = b[n] + t[n + 1]
    BY <2>2, RunningTotalsNext
  <2>4. s[k] \in Int /\ t[k] \in Int OBVIOUS
  <2>5. n + 1 # k => s[n + 1] = t[n + 1] BY <1>0
  <2>6. a[n] - b[n] = IF n < k THEN 0 ELSE s[k] - t[k] BY <1>0, <1>2
  <2>7. (a[n] + s[n + 1]) - (b[n] + t[n + 1]) = (a[n] - b[n]) + (s[n + 1] - t[n + 1])
    <3> DEFINE p == a[n]
               q == s[n + 1]
               r == b[n]
               v == t[n + 1]
    <3>1. p \in Int /\ q \in Int /\ r \in Int /\ v \in Int BY <2>1, <2>3
    <3> HIDE DEF p, q, r, v
    <3>2. (p + q) - (r + v) = (p - r) + (q - v) BY <3>1
    <3> QED BY <3>2 DEF p, q, r, v
  <2>8. s[n + 1] - t[n + 1] = IF n + 1 = k THEN s[k] - t[k] ELSE 0
    <3>1. s[n + 1] \in Int /\ t[n + 1] \in Int BY <2>1, <2>3
    <3>2. CASE n + 1 = k BY <2>4, <3>2
    <3>3. CASE n + 1 # k BY <2>5, <3>1, <3>3
    <3> QED BY <3>2, <3>3
  <2>9. a[n + 1] - b[n + 1] = (a[n] - b[n]) + (s[n + 1] - t[n + 1])
    BY <2>1, <2>3, <2>7
  <2> HIDE DEF a, b
  <2>10. s[k] - t[k] \in Int BY <2>4
  <2>11. CASE n + 1 < k
    <3>1. n < k /\ n + 1 # k BY <2>11
    <3> QED BY <2>6, <2>8, <2>9, <2>11, <3>1
  <2>12. CASE n + 1 = k
    <3>1. n < k BY <2>12
    <3> QED BY <2>6, <2>8, <2>9, <2>10, <2>12, <3>1
  <2>13. CASE k < n + 1
    <3>1. ~(n < k) /\ n + 1 # k /\ ~(n + 1 < k) BY <2>13
    <3> QED BY <2>6, <2>8, <2>9, <2>10, <3>1
  <2> QED BY <2>11, <2>12, <2>13
<1> HIDE DEF S
<1>3. \A n \in Nat : n \in S BY <1>1, <1>2, Induction
<1>4. Len(s) \in S BY <1>0, <1>3
<1> QED BY <1>4, TotalIsLast DEF S

\* The total of differences is the difference of the totals.
LEMMA TotalOfDifferences ==
  ASSUME NEW s \in Seq(Int), NEW t \in Seq(Int), NEW u \in Seq(Int),
         Len(s) = Len(t), Len(s) = Len(u),
         \A n \in 1..Len(s) : s[n] = t[n] - u[n]
  PROVE  TotalOf(s) = TotalOf(t) - TotalOf(u)
<1> DEFINE a == RunningTotals(s)
           b == RunningTotals(t)
           c == RunningTotals(u)
           S == {n \in Nat : n <= Len(s) => a[n] = b[n] - c[n]}
<1>0. Len(s) \in Nat /\ Len(t) \in Nat /\ Len(u) \in Nat OBVIOUS
<1>1. 0 \in S
  <2>1. a[0] = 0 BY <1>0, RunningTotalsStep
  <2>2. b[0] = 0 BY <1>0, RunningTotalsStep
  <2>3. c[0] = 0 BY <1>0, RunningTotalsStep
  <2> QED BY <2>1, <2>2, <2>3
<1>2. ASSUME NEW n \in Nat, n \in S PROVE n + 1 \in S
  <2> SUFFICES ASSUME n + 1 <= Len(s) PROVE a[n + 1] = b[n + 1] - c[n + 1] OBVIOUS
  <2>1. a[n] \in Int /\ s[n + 1] \in Int /\ a[n + 1] = a[n] + s[n + 1]
    BY RunningTotalsNext
  <2>2. n + 1 <= Len(t) /\ n + 1 <= Len(u) OBVIOUS
  <2>3. b[n] \in Int /\ t[n + 1] \in Int /\ b[n + 1] = b[n] + t[n + 1]
    BY <2>2, RunningTotalsNext
  <2>4. c[n] \in Int /\ u[n + 1] \in Int /\ c[n + 1] = c[n] + u[n + 1]
    BY <2>2, RunningTotalsNext
  <2>5. s[n + 1] = t[n + 1] - u[n + 1]
    <3>1. n + 1 \in 1..Len(s) BY <1>0
    <3> QED BY <3>1
  <2>6. a[n] = b[n] - c[n] BY <1>0, <1>2
  <2> HIDE DEF a, b, c
  <2>7. a[n + 1] = (b[n] - c[n]) + (t[n + 1] - u[n + 1]) BY <2>1, <2>5, <2>6
  <2>8. b[n + 1] - c[n + 1] = (b[n] + t[n + 1]) - (c[n] + u[n + 1]) BY <2>3, <2>4
  <2>9. b[n] \in Int /\ t[n + 1] \in Int BY <2>3
  <2>10. c[n] \in Int /\ u[n + 1] \in Int BY <2>4
  <2>11. (b[n] - c[n]) + (t[n + 1] - u[n + 1]) = (b[n] + t[n + 1]) - (c[n] + u[n + 1])
    <3> DEFINE p == b[n]
               q == c[n]
               r == t[n + 1]
               v == u[n + 1]
    <3>1. p \in Int /\ q \in Int /\ r \in Int /\ v \in Int BY <2>9, <2>10
    <3> HIDE DEF p, q, r, v
    <3>2. (p - q) + (r - v) = (p + r) - (q + v) BY <3>1
    <3> QED BY <3>2 DEF p, q, r, v
  <2> QED BY <2>7, <2>8, <2>11
<1> HIDE DEF S
<1>3. \A n \in Nat : n \in S BY <1>1, <1>2, Induction
<1>4. Len(s) \in S BY <1>0, <1>3
<1>5. a[Len(s)] = b[Len(s)] - c[Len(s)] BY <1>0, <1>4 DEF S
<1>6. TotalOf(s) = a[Len(s)] BY TotalIsLast
<1>7. TotalOf(t) = b[Len(s)] BY TotalIsLast
<1>8. TotalOf(u) = c[Len(s)] BY TotalIsLast
<1> QED BY <1>5, <1>6, <1>7, <1>8

(***************************************************************************)
(* Lists.                                                                  *)
(***************************************************************************)

LEMMA ListShape ==
  ASSUME NEW S, NEW s \in Seq(S)
  PROVE  /\ Len(s) \in Nat
         /\ DOMAIN s = 1..Len(s)
         /\ \A i \in 1..Len(s) : s[i] \in S
         /\ s = [i \in 1..Len(s) |-> s[i]]
OBVIOUS

LEMMA FunctionIsList ==
  ASSUME NEW n \in Nat, NEW f, f = [i \in 1..n |-> f[i]]
  PROVE  f \in Seq(Range(f)) /\ Len(f) = n /\ DOMAIN f = 1..n
<1>1. DOMAIN f = 1..n OBVIOUS
<1>2. \A i \in 1..n : f[i] \in Range(f) BY <1>1 DEF Range
<1>3. f \in [1..n -> Range(f)] BY <1>2
<1>4. f \in Seq(Range(f)) BY <1>3
<1> QED BY <1>1, <1>4

LEMMA IntervalsAlike ==
  ASSUME NEW a \in Nat, NEW b \in Nat, 1..a = 1..b
  PROVE  a = b
<1>1. a \in 1..a \/ a = 0 OBVIOUS
<1>2. b \in 1..b \/ b = 0 OBVIOUS
<1> QED BY <1>1, <1>2

LEMMA ConcatShape ==
  ASSUME NEW S, NEW s \in Seq(S), NEW t \in Seq(S)
  PROVE  /\ s \o t \in Seq(S)
         /\ Len(s \o t) = Len(s) + Len(t)
         /\ \A k \in 1..(Len(s) + Len(t)) :
               (s \o t)[k] = IF k <= Len(s) THEN s[k] ELSE t[k - Len(s)]
OBVIOUS

LEMMA AppendedList ==
  ASSUME NEW s, s \in Seq(Range(s)), NEW x
  PROVE  /\ Append(s, x) \in Seq(Range(Append(s, x)))
         /\ Len(Append(s, x)) = Len(s) + 1
         /\ DOMAIN Append(s, x) = DOMAIN s \cup {Len(s) + 1}
         /\ \A k \in DOMAIN s : Append(s, x)[k] = s[k]
         /\ Append(s, x)[Len(s) + 1] = x
<1> DEFINE t == Append(s, x)
<1>1. Len(s) \in Nat /\ DOMAIN s = 1..Len(s) BY ListShape
<1>2. /\ t = [k \in 1..(Len(s) + 1) |-> t[k]] /\ Len(t) = Len(s) + 1
      /\ \A k \in 1..Len(s) : t[k] = s[k]
      /\ t[Len(s) + 1] = x
  <2>1. t \in Seq(Range(s) \cup {x})
    <3>1. s \in Seq(Range(s) \cup {x}) BY <1>1, ListShape
    <3> QED BY <3>1
  <2>2. Len(t) = Len(s) + 1 OBVIOUS
  <2>3. \A k \in 1..Len(s) : t[k] = s[k] BY <1>1
  <2>4. t[Len(s) + 1] = x BY <1>1
  <2> HIDE DEF t
  <2>5. t = [k \in 1..Len(t) |-> t[k]] BY <2>1, ListShape
  <2> QED BY <2>2, <2>3, <2>4, <2>5
<1> HIDE DEF t
<1>3. Len(s) + 1 \in Nat BY <1>1
<1>4. t \in Seq(Range(t)) /\ DOMAIN t = 1..(Len(s) + 1) BY <1>2, <1>3, FunctionIsList
<1>5. 1..(Len(s) + 1) = (1..Len(s)) \cup {Len(s) + 1} BY <1>1
<1> QED BY <1>1, <1>2, <1>4, <1>5 DEF t

LEMMA JoinedPair ==
  ASSUME NEW a, NEW b
  PROVE  <<a>> \o <<b>> = <<a, b>>
<1>1. <<a>> \in Seq({a, b}) /\ <<b>> \in Seq({a, b}) OBVIOUS
<1> DEFINE u == <<a>> \o <<b>>
<1>2. /\ u \in Seq({a, b})
      /\ Len(u) = Len(<<a>>) + Len(<<b>>)
      /\ \A k \in 1..(Len(<<a>>) + Len(<<b>>)) :
            u[k] = IF k <= Len(<<a>>) THEN <<a>>[k] ELSE <<b>>[k - Len(<<a>>)]
  BY <1>1, ConcatShape
<1>3. Len(<<a>>) = 1 /\ Len(<<b>>) = 1 /\ <<a>>[1] = a /\ <<b>>[1] = b OBVIOUS
<1> HIDE DEF u
<1>4. Len(u) = 2 /\ u[1] = a /\ u[2] = b BY <1>2, <1>3
<1>5. u = <<a, b>> BY <1>2, <1>4
<1> QED BY <1>5 DEF u

\* The first k items of a list.
LEMMA PrefixShape ==
  ASSUME NEW S, NEW s \in Seq(S), NEW k \in 0..Len(s)
  PROVE  /\ SubSeq(s, 1, k) \in Seq(S)
         /\ Len(SubSeq(s, 1, k)) = k
         /\ DOMAIN SubSeq(s, 1, k) = 1..k
         /\ \A i \in 1..k : SubSeq(s, 1, k)[i] = s[i]
<1>1. SubSeq(s, 1, k) = [i \in 1..k |-> s[i]] OBVIOUS
<1>2. \A i \in 1..k : s[i] \in S OBVIOUS
<1>3. SubSeq(s, 1, k) \in Seq(S) BY <1>1, <1>2
<1> QED BY <1>1, <1>3

LEMMA RemoveAtShape ==
  ASSUME NEW S, NEW s \in Seq(S), NEW i \in 1..Len(s)
  PROVE  /\ RemoveAt(s, i) \in Seq(S)
         /\ Len(RemoveAt(s, i)) = Len(s) - 1
         /\ \A k \in 1..(Len(s) - 1) :
               RemoveAt(s, i)[k] = IF k < i THEN s[k] ELSE s[k + 1]
<1> DEFINE a == SubSeq(s, 1, i - 1)
           b == SubSeq(s, i + 1, Len(s))
<1>1. a \in Seq(S) /\ Len(a) = i - 1 /\ \A k \in 1..(i - 1) : a[k] = s[k]
  <2>1. i - 1 \in 0..Len(s) OBVIOUS
  <2> QED BY <2>1, PrefixShape
<1>2. b \in Seq(S) /\ Len(b) = Len(s) - i /\ \A k \in 1..(Len(s) - i) : b[k] = s[k + i]
  OBVIOUS
<1>3. RemoveAt(s, i) = a \o b BY DEF RemoveAt
<1> HIDE DEF a, b
<1>4. a \o b \in Seq(S) /\ Len(a \o b) = Len(s) - 1
  <2>1. a \o b \in Seq(S) /\ Len(a \o b) = Len(a) + Len(b) BY <1>1, <1>2, ConcatShape
  <2>2. Len(s) \in Int /\ i \in Int OBVIOUS
  <2> QED BY <1>1, <1>2, <2>1, <2>2
<1>5. ASSUME NEW k \in 1..(Len(s) - 1)
      PROVE  (a \o b)[k] = IF k < i THEN s[k] ELSE s[k + 1]
  <2>1. CASE k < i BY <1>1, <1>2, <2>1
  <2>2. CASE ~(k < i)
    <3>1. (a \o b)[k] = b[k - (i - 1)] BY <1>1, <1>2, <2>2
    <3>2. k - (i - 1) \in 1..(Len(s) - i) BY <2>2
    <3>3. b[k - (i - 1)] = s[(k - (i - 1)) + i] BY <1>2, <3>2
    <3>4. (k - (i - 1)) + i = k + 1 OBVIOUS
    <3> QED BY <2>2, <3>1, <3>3, <3>4
  <2> QED BY <2>1, <2>2
<1> QED BY <1>3, <1>4, <1>5

LEMMA InsertAtType ==
  ASSUME NEW S, NEW s \in Seq(S), NEW i \in 1..Len(s), NEW x \in S
  PROVE  InsertAt(s, i, x) \in Seq(S)
<1> DEFINE a == SubSeq(s, 1, i - 1)
           b == SubSeq(s, i, Len(s))
<1>1. a \in Seq(S) /\ b \in Seq(S) /\ <<x>> \in Seq(S)
  OBVIOUS
<1>2. InsertAt(s, i, x) = a \o <<x>> \o b BY DEF InsertAt
<1> HIDE DEF a, b
<1>3. a \o <<x>> \in Seq(S) BY <1>1, ConcatShape
<1>4. a \o <<x>> \o b \in Seq(S) BY <1>1, <1>3, ConcatShape
<1> QED BY <1>2, <1>4

LEMMA ReplaceAtType ==
  ASSUME NEW S, NEW s \in Seq(S), NEW i \in 1..Len(s), NEW x \in S
  PROVE  ReplaceAt(s, i, x) \in Seq(S)
BY DEF ReplaceAt

\* Lists of one length that are alike without the item i differ at most there.
LEMMA RemovedAlike ==
  ASSUME NEW S, NEW s \in Seq(S), NEW T, NEW t \in Seq(T), Len(s) = Len(t),
         NEW i \in 1..Len(s), RemoveAt(s, i) = RemoveAt(t, i)
  PROVE  \A k \in 1..Len(s) : k # i => s[k] = t[k]
<1> SUFFICES ASSUME NEW k \in 1..Len(s), k # i PROVE s[k] = t[k] OBVIOUS
<1>1. \A j \in 1..(Len(s) - 1) : RemoveAt(s, i)[j] = IF j < i THEN s[j] ELSE s[j + 1]
  BY RemoveAtShape
<1>2. \A j \in 1..(Len(t) - 1) : RemoveAt(t, i)[j] = IF j < i THEN t[j] ELSE t[j + 1]
  BY RemoveAtShape
<1>3. CASE k < i BY <1>1, <1>2, <1>3
<1>4. CASE k > i
  <2>1. k - 1 \in 1..(Len(s) - 1) /\ ~(k - 1 < i) /\ (k - 1) + 1 = k BY <1>4
  <2> QED BY <1>1, <1>2, <2>1
<1> QED BY <1>3, <1>4

\* Lists that are alike but for the item i are alike without it.
LEMMA AlikeRemoved ==
  ASSUME NEW S, NEW s \in Seq(S), NEW T, NEW t \in Seq(T), Len(s) = Len(t),
         NEW i \in 1..Len(s), \A k \in 1..Len(s) : k # i => s[k] = t[k]
  PROVE  RemoveAt(s, i) = RemoveAt(t, i)
<1> DEFINE a == RemoveAt(s, i)
           b == RemoveAt(t, i)
<1>1. /\ a \in Seq(S) /\ Len(a) = Len(s) - 1
      /\ \A k \in 1..(Len(s) - 1) : a[k] = IF k < i THEN s[k] ELSE s[k + 1]
  BY RemoveAtShape
<1>2. /\ b \in Seq(T) /\ Len(b) = Len(t) - 1
      /\ \A k \in 1..(Len(t) - 1) : b[k] = IF k < i THEN t[k] ELSE t[k + 1]
  BY RemoveAtShape
<1> HIDE DEF a, b
<1>3. a = [k \in 1..Len(a) |-> a[k]] BY <1>1, ListShape
<1>4. b = [k \in 1..Len(b) |-> b[k]] BY <1>2, ListShape
<1>5. \A k \in 1..(Len(s) - 1) : a[k] = b[k]
  <2> SUFFICES ASSUME NEW k \in 1..(Len(s) - 1) PROVE a[k] = b[k] OBVIOUS
  <2>1. CASE k < i BY <1>1, <1>2, <2>1
  <2>2. CASE ~(k < i)
    <3>1. k + 1 \in 1..Len(s) /\ k + 1 # i BY <2>2
    <3> QED BY <1>1, <1>2, <2>2, <3>1
  <2> QED BY <2>1, <2>2
<1> QED BY <1>1, <1>2, <1>3, <1>4, <1>5 DEF a, b

LEMMA WholePrefix ==
  ASSUME NEW S, NEW s \in Seq(S)
  PROVE  SubSeq(s, 1, Len(s)) = s
OBVIOUS

LEMMA TotalOfOne ==
  ASSUME NEW values \in Seq(Int), Len(values) = 1
  PROVE  TotalOf(values) = values[1]
<1>1. RunningTotals(values)[0] = 0 BY RunningTotalsStep
<1>2. 0 + 1 <= Len(values) /\ 0 + 1 = 1 OBVIOUS
<1>3. /\ values[0 + 1] \in Int
      /\ RunningTotals(values)[0 + 1] = RunningTotals(values)[0] + values[0 + 1]
  BY <1>2, RunningTotalsNext
<1>4. TotalOf(values) = RunningTotals(values)[1] BY TotalIsLast
<1> QED BY <1>1, <1>2, <1>3, <1>4

LEMMA MinOfTwo ==
  ASSUME NEW a \in Int, NEW b \in Int
  PROVE  Min({a, b}) = IF a <= b THEN a ELSE b
<1> DEFINE m == IF a <= b THEN a ELSE b
<1>1. m \in {a, b} /\ \A y \in {a, b} : m <= y OBVIOUS
<1>2. \A x \in {a, b} : (\A y \in {a, b} : x <= y) => x = m OBVIOUS
<1> QED BY <1>1, <1>2 DEF Min

(***************************************************************************)
(* Lists of lists, joined.                                                 *)
(***************************************************************************)

AreJoined(joined, lists, last) ==
    joined = [i \in 1..last |-> IF i = 1 THEN lists[i] ELSE joined[i - 1] \o lists[i]]
\* The first of the lists, the first two, and so on, joined.
Joins(lists) == CHOOSE joined : AreJoined(joined, lists, Len(lists))
\* How many items come before the list i.
Before(lists, i) == IF i = 1 THEN 0 ELSE Len(Joins(lists)[i - 1])

LEMMA JoinsExist ==
  ASSUME NEW lists
  PROVE  \A last \in Nat : \E joined : AreJoined(joined, lists, last)
<1> DEFINE S == {last \in Nat : \E joined : AreJoined(joined, lists, last)}
<1>1. 0 \in S
  <2> DEFINE g == [i \in 1..0 |-> lists[i]]
  <2>1. AreJoined(g, lists, 0) BY DEF AreJoined
  <2> QED BY <2>1
<1>2. ASSUME NEW last \in Nat, last \in S PROVE last + 1 \in S
  <2>1. PICK joined : AreJoined(joined, lists, last) BY <1>2
  <2> DEFINE new == IF last + 1 = 1 THEN lists[last + 1] ELSE joined[last] \o lists[last + 1]
             g == [i \in 1..(last + 1) |-> IF i = last + 1 THEN new ELSE joined[i]]
  <2>2. \A i \in 1..last : joined[i] = IF i = 1 THEN lists[i] ELSE joined[i - 1] \o lists[i]
    BY <2>1 DEF AreJoined
  <2>3. \A i \in 1..(last + 1) : g[i] = IF i = 1 THEN lists[i] ELSE g[i - 1] \o lists[i]
    <3> SUFFICES ASSUME NEW i \in 1..(last + 1)
                 PROVE  g[i] = IF i = 1 THEN lists[i] ELSE g[i - 1] \o lists[i]
      OBVIOUS
    <3>1. CASE i = last + 1
      <4>1. i # 1 => g[i - 1] = joined[last] BY <3>1
      <4> QED BY <3>1, <4>1
    <3>2. CASE i \in 1..last
      <4>1. g[i] = joined[i] BY <3>2
      <4>2. i # 1 => g[i - 1] = joined[i - 1] BY <3>2
      <4> QED BY <2>2, <3>2, <4>1, <4>2
    <3> QED BY <3>1, <3>2
  <2> HIDE DEF new
  <2>4. g = [i \in 1..(last + 1) |-> IF i = 1 THEN lists[i] ELSE g[i - 1] \o lists[i]]
    BY <2>3
  <2>5. AreJoined(g, lists, last + 1) BY <2>4 DEF AreJoined
  <2> QED BY <2>5
<1> HIDE DEF S
<1>3. \A last \in Nat : last \in S BY <1>1, <1>2, Induction
<1> QED BY <1>3 DEF S

LEMMA JoinsStep ==
  ASSUME NEW lists, Len(lists) \in Nat
  PROVE  /\ \A i \in 1..Len(lists) :
               Joins(lists)[i] = IF i = 1 THEN lists[i] ELSE Joins(lists)[i - 1] \o lists[i]
         /\ FlattenSeq(lists) = IF Len(lists) = 0 THEN lists ELSE Joins(lists)[Len(lists)]
<1>1. AreJoined(Joins(lists), lists, Len(lists)) BY JoinsExist DEF Joins
<1>2. FlattenSeq(lists) = IF Len(lists) = 0 THEN lists ELSE Joins(lists)[Len(lists)]
  BY DEF FlattenSeq, Joins, AreJoined
<1> QED BY <1>1, <1>2 DEF AreJoined

LEMMA JoinsType ==
  ASSUME NEW S, NEW lists \in Seq(Seq(S))
  PROVE  \A i \in 1..Len(lists) : Joins(lists)[i] \in Seq(S)
<1> DEFINE J == Joins(lists)
           T == {n \in Nat : n + 1 <= Len(lists) => J[n + 1] \in Seq(S)}
<1>0. /\ Len(lists) \in Nat
      /\ \A i \in 1..Len(lists) : lists[i] \in Seq(S)
  BY ListShape
<1>1. \A i \in 1..Len(lists) : J[i] = IF i = 1 THEN lists[i] ELSE J[i - 1] \o lists[i]
  BY <1>0, JoinsStep
<1> HIDE DEF J
<1>2. 0 \in T BY <1>0, <1>1
<1>3. ASSUME NEW n \in Nat, n \in T PROVE n + 1 \in T
  <2> SUFFICES ASSUME (n + 1) + 1 <= Len(lists) PROVE J[(n + 1) + 1] \in Seq(S) OBVIOUS
  <2>1. J[n + 1] \in Seq(S) BY <1>0, <1>3
  <2>2. /\ (n + 1) + 1 \in 1..Len(lists) /\ (n + 1) + 1 # 1 /\ ((n + 1) + 1) - 1 = n + 1
    BY <1>0
  <2>3. J[(n + 1) + 1] = J[n + 1] \o lists[(n + 1) + 1] BY <1>1, <2>2
  <2>4. lists[(n + 1) + 1] \in Seq(S) BY <1>0, <2>2
  <2> QED BY <2>1, <2>3, <2>4, ConcatShape
<1> HIDE DEF T
<1>4. \A n \in Nat : n \in T BY <1>2, <1>3, Induction
<1>5. ASSUME NEW i \in 1..Len(lists) PROVE J[i] \in Seq(S)
  <2>1. i - 1 \in Nat /\ (i - 1) + 1 = i BY <1>0
  <2>2. i - 1 \in T BY <1>4, <2>1
  <2> QED BY <1>0, <2>1, <2>2 DEF T
<1> QED BY <1>5 DEF J

\* The items of the list i, where they come in the first i lists joined.
LEMMA JoinedItems ==
  ASSUME NEW S, NEW lists \in Seq(Seq(S)), NEW i \in 1..Len(lists)
  PROVE  /\ Before(lists, i) \in Nat
         /\ Len(lists[i]) \in Nat
         /\ Joins(lists)[i] \in Seq(S)
         /\ Len(Joins(lists)[i]) = Before(lists, i) + Len(lists[i])
         /\ \A k \in 1..Len(lists[i]) : Joins(lists)[i][Before(lists, i) + k] = lists[i][k]
         /\ i # 1 => \A p \in 1..Before(lists, i) : Joins(lists)[i][p] = Joins(lists)[i - 1][p]
<1> DEFINE J == Joins(lists)
<1>1. Len(lists) \in Nat /\ lists[i] \in Seq(S) /\ Len(lists[i]) \in Nat BY ListShape
<1>2. J[i] \in Seq(S) /\ (i # 1 => J[i - 1] \in Seq(S))
  <2>1. \A j \in 1..Len(lists) : J[j] \in Seq(S) BY JoinsType
  <2>2. i # 1 => i - 1 \in 1..Len(lists) BY <1>1
  <2> QED BY <2>1, <2>2
<1>3. J[i] = IF i = 1 THEN lists[i] ELSE J[i - 1] \o lists[i] BY <1>1, JoinsStep
<1>4. CASE i = 1
  <2>1. Before(lists, i) = 0 BY <1>4 DEF Before
  <2>2. J[i] = lists[i] BY <1>3, <1>4
  <2> HIDE DEF J
  <2>3. \A k \in 1..Len(lists[i]) : 0 + k = k BY <1>1
  <2> QED BY <1>1, <1>2, <1>4, <2>1, <2>2, <2>3 DEF J
<1>5. CASE i # 1
  <2> DEFINE b == Len(J[i - 1])
             a == J[i - 1]
             c == lists[i]
  <2>1. Before(lists, i) = b BY <1>5 DEF Before
  <2>2. J[i] = a \o c BY <1>3, <1>5
  <2>3. a \in Seq(S) /\ c \in Seq(S) BY <1>1, <1>2, <1>5
  <2> HIDE DEF a, c, J
  <2>4. /\ Len(a \o c) = Len(a) + Len(c)
        /\ \A k \in 1..(Len(a) + Len(c)) :
              (a \o c)[k] = IF k <= Len(a) THEN a[k] ELSE c[k - Len(a)]
    BY <2>3, ConcatShape
  <2>5. Len(a) \in Nat /\ Len(c) \in Nat BY <2>3, ListShape
  <2>6. \A k \in 1..Len(c) : (a \o c)[Len(a) + k] = c[k]
    <3> SUFFICES ASSUME NEW k \in 1..Len(c) PROVE (a \o c)[Len(a) + k] = c[k] OBVIOUS
    <3>1. /\ Len(a) + k \in 1..(Len(a) + Len(c)) /\ ~(Len(a) + k <= Len(a))
          /\ (Len(a) + k) - Len(a) = k
      BY <2>5
    <3> QED BY <2>4, <3>1
  <2>7. \A p \in 1..Len(a) : (a \o c)[p] = a[p] BY <2>4, <2>5
  <2>8. b = Len(a) BY DEF a
  <2> QED BY <1>2, <2>1, <2>2, <2>4, <2>5, <2>6, <2>7, <2>8 DEF a, c, J
<1> QED BY <1>4, <1>5

\* What has been joined stays where it is.
LEMMA JoinsGrow ==
  ASSUME NEW S, NEW lists \in Seq(Seq(S)), NEW i \in 1..Len(lists), NEW n \in i..Len(lists)
  PROVE  /\ Len(Joins(lists)[i]) <= Len(Joins(lists)[n])
         /\ \A p \in 1..Len(Joins(lists)[i]) : Joins(lists)[n][p] = Joins(lists)[i][p]
<1> DEFINE J == Joins(lists)
           Keeps(m) == /\ Len(J[i]) <= Len(J[m])
                       /\ \A p \in 1..Len(J[i]) : J[m][p] = J[i][p]
           T == {m \in Nat : i + m <= Len(lists) => Keeps(i + m)}
<1>0. Len(lists) \in Nat BY ListShape
<1>1. \A j \in 1..Len(lists) : J[j] \in Seq(S) /\ Len(J[j]) \in Nat
  <2>1. \A j \in 1..Len(lists) : J[j] \in Seq(S) BY JoinsType
  <2> HIDE DEF J
  <2> QED BY <2>1, ListShape
<1>2. 0 \in T
  <2>1. i + 0 = i BY <1>0
  <2>2. Len(J[i]) \in Nat BY <1>1
  <2> HIDE DEF J
  <2> QED BY <2>1, <2>2
<1>3. ASSUME NEW m \in Nat, m \in T PROVE m + 1 \in T
  <2> SUFFICES ASSUME i + (m + 1) <= Len(lists) PROVE Keeps(i + (m + 1)) OBVIOUS
  <2> DEFINE j == i + (m + 1)
  <2>1. j \in 1..Len(lists) /\ j # 1 /\ j - 1 = i + m /\ i + m \in 1..Len(lists) BY <1>0
  <2>2. Keeps(i + m) BY <1>0, <1>3, <2>1
  <2>3. Before(lists, j) = Len(J[i + m]) BY <2>1 DEF Before
  <2> HIDE DEF j
  <2>4. /\ Len(lists[j]) \in Nat /\ Len(J[j]) = Before(lists, j) + Len(lists[j])
        /\ \A p \in 1..Before(lists, j) : J[j][p] = J[j - 1][p]
    BY <2>1, JoinedItems
  <2>5. Len(J[i]) \in Nat /\ Len(J[i + m]) \in Nat BY <1>1, <2>1
  <2> HIDE DEF J
  <2>6. Len(J[i]) <= Len(J[j])
    <3>1. Len(J[i]) <= Len(J[i + m]) BY <2>2
    <3>2. Len(J[j]) = Len(J[i + m]) + Len(lists[j]) BY <2>3, <2>4
    <3> DEFINE a == Len(J[i])
               b == Len(J[i + m])
               c == Len(lists[j])
    <3>3. a \in Nat /\ b \in Nat /\ c \in Nat /\ a <= b BY <2>4, <2>5, <3>1
    <3> HIDE DEF a, b, c
    <3>4. a <= b + c BY <3>3
    <3> QED BY <3>2, <3>4 DEF a, b, c
  <2>7. \A p \in 1..Len(J[i]) : J[j][p] = J[i][p]
    <3> SUFFICES ASSUME NEW p \in 1..Len(J[i]) PROVE J[j][p] = J[i][p] OBVIOUS
    <3>1. p \in 1..Before(lists, j) BY <2>2, <2>3, <2>5
    <3>2. J[j][p] = J[i + m][p] BY <2>1, <2>4, <3>1
    <3> QED BY <2>2, <3>2
  <2> QED BY <2>6, <2>7 DEF j
<1> HIDE DEF T
<1>4. \A m \in Nat : m \in T BY <1>2, <1>3, Induction
<1>5. n - i \in Nat /\ i + (n - i) = n /\ n <= Len(lists) BY <1>0
<1>6. n - i \in T BY <1>4, <1>5
<1>7. Keeps(n) BY <1>5, <1>6 DEF T
<1> QED BY <1>7

\* The item k of the list i is in the joined list, after what comes before that list.
LEMMA FlattenedItem ==
  ASSUME NEW S, NEW lists \in Seq(Seq(S)), NEW i \in 1..Len(lists),
         NEW k \in 1..Len(lists[i])
  PROVE  /\ Before(lists, i) + k \in 1..Len(FlattenSeq(lists))
         /\ FlattenSeq(lists)[Before(lists, i) + k] = lists[i][k]
<1> DEFINE J == Joins(lists)
           n == Len(lists)
           b == Before(lists, i)
<1>1. n \in Nat /\ n # 0 /\ n \in i..n BY ListShape
<1>2. FlattenSeq(lists) = J[n] BY <1>1, JoinsStep
<1>3. /\ b \in Nat /\ Len(lists[i]) \in Nat /\ Len(J[i]) = b + Len(lists[i])
      /\ \A l \in 1..Len(lists[i]) : J[i][b + l] = lists[i][l]
  BY JoinedItems
<1>4. Len(J[i]) <= Len(J[n]) /\ \A p \in 1..Len(J[i]) : J[n][p] = J[i][p]
  BY <1>1, JoinsGrow
<1>5. Len(J[n]) \in Nat
  <2>1. J[n] \in Seq(S) BY <1>1, JoinsType
  <2> HIDE DEF J
  <2> QED BY <2>1, ListShape
<1> HIDE DEF J, b
<1>6. b + k \in 1..Len(J[i]) /\ b + k \in 1..Len(J[n]) BY <1>3, <1>4, <1>5
<1> QED BY <1>2, <1>3, <1>4, <1>6 DEF b

\* Two items of the lists have two places in the joined list.
LEMMA PlacesApart ==
  ASSUME NEW S, NEW lists \in Seq(Seq(S)), NEW i \in 1..Len(lists), NEW j \in 1..Len(lists),
         NEW k \in 1..Len(lists[i]), NEW l \in 1..Len(lists[j]), i < j
  PROVE  Before(lists, i) + k < Before(lists, j) + l
<1> DEFINE J == Joins(lists)
<1>1. Len(lists) \in Nat BY ListShape
<1>2. /\ Before(lists, i) \in Nat /\ Len(lists[i]) \in Nat
      /\ Len(J[i]) = Before(lists, i) + Len(lists[i])
  BY JoinedItems
<1>3. Before(lists, j) \in Nat /\ Len(lists[j]) \in Nat BY JoinedItems
<1>4. j # 1 /\ Before(lists, j) = Len(J[j - 1]) BY <1>1 DEF Before
<1>5. j - 1 \in i..Len(lists) BY <1>1
<1>6. Len(J[i]) <= Len(J[j - 1]) BY <1>5, JoinsGrow
<1> HIDE DEF J
<1>7. k \in Int /\ k <= Len(lists[i]) /\ l \in Int /\ 1 <= l BY <1>2, <1>3
<1>8. Before(lists, i) + Len(lists[i]) <= Before(lists, j) BY <1>2, <1>4, <1>6
<1>9. \A a, n, b, p, q \in Int : p <= n /\ a + n <= b /\ 1 <= q => a + p < b + q OBVIOUS
<1> QED BY <1>2, <1>3, <1>7, <1>8, <1>9

LEMMA FlattenedType ==
  ASSUME NEW S, NEW lists \in Seq(Seq(S))
  PROVE  FlattenSeq(lists) \in Seq(S)
<1>1. Len(lists) \in Nat BY ListShape
<1>2. CASE Len(lists) = 0
  <2>1. lists = <<>> BY <1>2
  <2>2. FlattenSeq(lists) = lists BY <1>1, <1>2, JoinsStep
  <2>3. <<>> \in Seq(S) OBVIOUS
  <2>4. FlattenSeq(lists) = <<>> BY <2>1, <2>2
  <2> QED BY <2>3, <2>4
<1>3. CASE Len(lists) # 0
  <2>1. Len(lists) \in 1..Len(lists) BY <1>1, <1>3
  <2>2. Joins(lists)[Len(lists)] \in Seq(S) BY <2>1, JoinsType
  <2> QED BY <1>1, <1>3, <2>2, JoinsStep
<1> QED BY <1>2, <1>3

LEMMA FunctionIsListOf ==
  ASSUME NEW S, NEW n \in Nat, NEW f \in [1..n -> S]
  PROVE  f \in Seq(S) /\ Len(f) = n /\ DOMAIN f = 1..n
OBVIOUS

\* Lists of m items each, joined, are a table with rows of m items.
LEMMA JoinedRows ==
  ASSUME NEW S, NEW lists \in Seq(Seq(S)), NEW m \in Nat, Len(lists) # 0,
         \A i \in 1..Len(lists) : Len(lists[i]) = m
  PROVE  /\ Len(FlattenSeq(lists)) = Len(lists) * m
         /\ \A i \in 1..Len(lists), k \in 1..m :
               FlattenSeq(lists)[(i - 1) * m + k] = lists[i][k]
<1> DEFINE n == Len(lists)
           J == Joins(lists)
           T == {row \in Nat : row + 1 <= n => Before(lists, row + 1) = row * m}
<1>1. n \in Nat
  OBVIOUS
<1>2. \A i \in 1..n : /\ Before(lists, i) \in Nat
                      /\ Len(J[i]) = Before(lists, i) + m
  BY JoinedItems
<1>3. 0 \in T
  <2>1. Before(lists, 0 + 1) = 0 BY DEF Before
  <2>2. 0 * m = 0 OBVIOUS
  <2> QED BY <2>1, <2>2
<1>4. ASSUME NEW row \in Nat, row \in T PROVE row + 1 \in T
  <2> SUFFICES ASSUME row + 1 + 1 <= n PROVE Before(lists, row + 1 + 1) = (row + 1) * m
    OBVIOUS
  <2>1. Before(lists, row + 1 + 1) = Len(J[row + 1])
    <3>1. row + 1 + 1 # 1 /\ (row + 1 + 1) - 1 = row + 1 OBVIOUS
    <3> QED BY <3>1 DEF Before
  <2>2. row + 1 \in 1..n BY <1>1
  <2>3. Before(lists, row + 1) = row * m
    <3>1. row + 1 <= n BY <1>1
    <3>2. row + 1 <= n => Before(lists, row + 1) = row * m BY <1>4
    <3> QED BY <3>1, <3>2
  <2>4. (row + 1) * m = row * m + m OBVIOUS
  <2> HIDE DEF J, n
  <2> QED BY <1>2, <2>1, <2>2, <2>3, <2>4
<1>5. \A row \in Nat : row \in T
  <2> HIDE DEF T
  <2> QED BY <1>3, <1>4, Induction
<1>6. \A i \in 1..n : Before(lists, i) = (i - 1) * m
  <2> SUFFICES ASSUME NEW i \in 1..n PROVE Before(lists, i) = (i - 1) * m
    OBVIOUS
  <2>1. i - 1 \in Nat /\ (i - 1) + 1 = i /\ i <= n BY <1>1
  <2>2. i - 1 \in T BY <1>5, <2>1
  <2> QED BY <2>1, <2>2
<1>7. Len(FlattenSeq(lists)) = n * m
  <2>1. FlattenSeq(lists) = J[n] BY <1>1, JoinsStep
  <2>2. n \in 1..n BY <1>1
  <2>3. Len(J[n]) = (n - 1) * m + m BY <1>2, <1>6, <2>2
  <2>4. (n - 1) * m + m = n * m BY <1>1
  <2> QED BY <2>1, <2>3, <2>4
<1>8. ASSUME NEW i \in 1..n, NEW k \in 1..m
      PROVE  FlattenSeq(lists)[(i - 1) * m + k] = lists[i][k]
  <2>1. k \in 1..Len(lists[i]) /\ i \in 1..Len(lists) OBVIOUS
  <2> HIDE DEF n, J, T
  <2>2. FlattenSeq(lists)[Before(lists, i) + k] = lists[i][k] BY <2>1, FlattenedItem
  <2> QED BY <1>6, <2>2
<1> QED BY <1>7, <1>8

\* A list with as many values as places repeats none.
LEMMA CountOfInterval ==
  ASSUME NEW n \in Nat
  PROVE  IsFiniteSet(1..n) /\ Cardinality(1..n) = n
<1>1. IsFiniteSet(1..n) /\ Cardinality(1..n) = IF 1 > n THEN 0 ELSE n - 1 + 1
  <2>1. n \in Int /\ 1 \in Int OBVIOUS
  <2> QED BY ONLY <2>1, FS_Interval, Zenon
<1>2. (IF 1 > n THEN 0 ELSE n - 1 + 1) = n OBVIOUS
<1> QED BY <1>1, <1>2

LEMMA NoneRepeated ==
  ASSUME NEW S, NEW s \in Seq(S), Cardinality({s[i] : i \in DOMAIN s}) = Len(s)
  PROVE  \A i, j \in 1..Len(s) : s[i] = s[j] => i = j
<1> DEFINE D == 1..Len(s)
           T == {s[i] : i \in DOMAIN s}
<1>1. Len(s) \in Nat /\ DOMAIN s = D /\ s = [i \in D |-> s[i]] BY ListShape
<1>2. IsFiniteSet(D) /\ Cardinality(D) = Len(s)
  <2> DEFINE n == Len(s)
  <2>1. n \in Nat BY <1>1
  <2> HIDE DEF n
  <2>2. IsFiniteSet(1..n) /\ Cardinality(1..n) = n BY <2>1, CountOfInterval
  <2> QED BY <2>2 DEF n
<1>3. s \in Surjection(D, T)
  <2>1. s \in [D -> T] BY <1>1
  <2>2. \A y \in T : \E x \in D : s[x] = y BY <1>1
  <2> HIDE DEF D, T
  <2> QED BY <2>1, <2>2 DEF Surjection
<1>4. Cardinality(T) = Cardinality(D) <=> s \in Injection(D, T)
  <2> HIDE DEF D, T
  <2> QED BY <1>2, <1>3, FS_Surjection
<1>5. s \in Injection(D, T) BY <1>2, <1>4
<1> HIDE DEF D, T
<1>6. \A a, b \in D : s[a] = s[b] => a = b BY <1>5 DEF Injection, IsInjective
<1> QED BY <1>6 DEF D

(***************************************************************************)
(* What a filter keeps.                                                    *)
(***************************************************************************)

\* The ranks of picked places are the numbers up to their count, in the order of the
\* places.
LEMMA RanksOfPicked ==
  ASSUME NEW n \in Nat, NEW picked \in SUBSET (1..n)
  PROVE  /\ IsFiniteSet(picked) /\ Cardinality(picked) \in Nat
         /\ RankAmong(picked) \in [picked -> 1..Cardinality(picked)]
         /\ \A i, j \in picked : i < j => RankAmong(picked)[i] < RankAmong(picked)[j]
         /\ \A k \in 1..Cardinality(picked) : \E j \in picked : RankAmong(picked)[j] = k
<1> DEFINE m == Cardinality(picked)
           Upto(k) == {i \in picked : i <= k}
           rank == RankAmong(picked)
<1>1. IsFiniteSet(picked) /\ m \in Nat
  <2>1. IsFiniteSet(1..n) BY CountOfInterval
  <2>2. IsFiniteSet(picked) BY <2>1, FS_Subset
  <2> QED BY <2>2, FS_CardinalityType
<1>2. \A k \in picked : k \in Nat OBVIOUS
<1>3. ASSUME NEW T \in SUBSET picked, NEW R \in SUBSET T
      PROVE  /\ IsFiniteSet(R) /\ Cardinality(R) \in Nat /\ Cardinality(T) \in Nat
             /\ Cardinality(R) <= Cardinality(T)
             /\ Cardinality(R) = Cardinality(T) => R = T
  <2>1. IsFiniteSet(T) BY <1>1, <1>3, FS_Subset
  <2>2. /\ IsFiniteSet(R) /\ Cardinality(R) <= Cardinality(T)
        /\ (Cardinality(T) = Cardinality(R) => T = R)
    BY <1>3, <2>1, FS_Subset
  <2> QED BY <2>1, <2>2, FS_CardinalityType
<1>4. ASSUME NEW k \in picked
      PROVE  rank[k] = Cardinality(Upto(k)) /\ rank[k] \in 1..m
  <2>1. rank[k] = Cardinality(Upto(k)) BY DEF RankAmong
  <2>2. Upto(k) \in SUBSET picked /\ {} \in SUBSET Upto(k) /\ picked \in SUBSET picked OBVIOUS
  <2>3. k \in Upto(k) BY <1>2
  <2> HIDE DEF Upto, rank, m
  <2>4. Cardinality(Upto(k)) <= Cardinality(picked) /\ Cardinality(Upto(k)) \in Nat
    BY <1>3, <2>2
  <2>5. Cardinality(Upto(k)) # Cardinality({}) BY <1>3, <2>2, <2>3
  <2>6. Cardinality({}) = 0 BY FS_EmptySet
  <2> QED BY <2>1, <2>4, <2>5, <2>6 DEF m
<1>5. rank \in [picked -> 1..m] BY <1>4 DEF RankAmong
<1>6. ASSUME NEW i \in picked, NEW j \in picked, i < j PROVE rank[i] < rank[j]
  <2>1. i \in Nat /\ j \in Nat BY <1>2
  <2>2. Upto(j) \in SUBSET picked OBVIOUS
  <2>3. Upto(i) \in SUBSET Upto(j)
    <3> SUFFICES ASSUME NEW k \in picked, k <= i PROVE k <= j OBVIOUS
    <3>1. k \in Nat BY <1>2
    <3> QED BY <1>6, <2>1, <3>1
  <2>4. j \in Upto(j) /\ j \notin Upto(i) BY <1>6, <2>1
  <2>5. rank[i] = Cardinality(Upto(i)) /\ rank[j] = Cardinality(Upto(j)) BY <1>4
  <2> HIDE DEF Upto, rank
  <2>6. /\ Cardinality(Upto(i)) \in Nat /\ Cardinality(Upto(j)) \in Nat
        /\ Cardinality(Upto(i)) <= Cardinality(Upto(j))
        /\ Cardinality(Upto(i)) # Cardinality(Upto(j))
    BY <1>3, <2>2, <2>3, <2>4
  <2> QED BY <2>5, <2>6
<1> HIDE DEF rank, m
<1>7. rank \in Injection(picked, 1..m)
  <2>1. ASSUME NEW i \in picked, NEW j \in picked, rank[i] = rank[j] PROVE i = j
    <3>1. i \in Nat /\ j \in Nat /\ rank[i] \in Int BY <1>2, <1>5
    <3>2. ~(i < j) BY <1>6, <2>1, <3>1
    <3>3. ~(j < i) BY <1>6, <2>1, <3>1
    <3> QED BY <3>1, <3>2, <3>3
  <2> QED BY <1>5, <2>1 DEF Injection, IsInjective
<1>8. rank \in Surjection(picked, 1..m)
  <2>1. IsFiniteSet(1..m) /\ Cardinality(1..m) = m BY <1>1, CountOfInterval
  <2> QED BY <1>1, <1>7, <2>1, FS_Injection DEF m
<1>9. \A k \in 1..m : \E j \in picked : rank[j] = k BY <1>8 DEF Surjection
<1> QED BY <1>1, <1>5, <1>6, <1>9 DEF rank, m

\* place says where the items of kept are in s: once each, at the places of a set.
PlacesOf(place, kept, s, picked) ==
    /\ place \in [1..Len(kept) -> picked]
    /\ \A j \in 1..Len(kept) : kept[j] = s[place[j]]
    /\ \A i, j \in 1..Len(kept) : place[i] = place[j] => i = j
    /\ \A k \in picked : \E j \in 1..Len(kept) : place[j] = k

\* Where the kept items were, in the order of the places.
LEMMA KeptAscend ==
  ASSUME NEW n \in Nat, NEW picked \in SUBSET (1..n), NEW s
  PROVE  /\ DOMAIN Kept(s, picked) = 1..Cardinality(picked)
         /\ Len(Kept(s, picked)) = Cardinality(picked)
         /\ \E place : /\ PlacesOf(place, Kept(s, picked), s, picked)
                       /\ \A i, j \in 1..Cardinality(picked) : i < j => place[i] < place[j]
<1> DEFINE m == Cardinality(picked)
           rank == RankAmong(picked)
           place == [k \in 1..m |-> CHOOSE i \in picked : rank[i] = k]
           kept == Kept(s, picked)
<1>1. /\ m \in Nat /\ rank \in [picked -> 1..m]
      /\ \A i, j \in picked : i < j => rank[i] < rank[j]
      /\ \A k \in 1..m : \E j \in picked : rank[j] = k
  BY RanksOfPicked
<1>2. kept = [k \in 1..m |-> s[CHOOSE i \in picked : rank[i] = k]] BY DEF Kept
<1>3. \A i \in picked : i \in Nat OBVIOUS
<1> HIDE DEF rank, m
<1>4. ASSUME NEW k \in 1..m PROVE place[k] \in picked /\ rank[place[k]] = k
  <2>1. \E j \in picked : rank[j] = k BY <1>1
  <2> QED BY <2>1
<1>5. place \in [1..m -> picked]
  <2>1. \A k \in 1..m : (CHOOSE i \in picked : rank[i] = k) \in picked BY <1>4
  <2> QED BY <2>1
<1>6. \A k \in 1..m : kept[k] = s[place[k]] BY <1>2
<1>7. kept = [k \in 1..m |-> kept[k]] BY <1>2
<1> HIDE DEF place, kept
<1>8. DOMAIN kept = 1..m /\ Len(kept) = m BY <1>1, <1>7, FunctionIsList
<1>9. \A i, j \in 1..m : place[i] = place[j] => i = j BY <1>4
<1>10. ASSUME NEW i \in picked PROVE \E k \in 1..m : place[k] = i
  <2>1. rank[i] \in 1..m BY <1>1
  <2>2. PICK q \in picked : q = place[rank[i]] /\ rank[q] = rank[i] BY <1>4, <2>1
  <2>3. ~(q < i)
    <3> SUFFICES ASSUME q < i PROVE FALSE OBVIOUS
    <3>1. rank[q] < rank[i] BY <1>1
    <3> QED BY <2>1, <2>2, <3>1
  <2>4. ~(i < q)
    <3> SUFFICES ASSUME i < q PROVE FALSE OBVIOUS
    <3>1. rank[i] < rank[q] BY <1>1
    <3> QED BY <2>1, <2>2, <3>1
  <2>5. q = i BY <1>3, <2>3, <2>4
  <2> QED BY <2>1, <2>2, <2>5
<1>11. ASSUME NEW i \in 1..m, NEW j \in 1..m, i < j PROVE place[i] < place[j]
  <2>1. /\ place[i] \in picked /\ place[j] \in picked
        /\ rank[place[i]] = i /\ rank[place[j]] = j
    BY <1>4
  <2>2. ~(place[j] < place[i])
    <3> SUFFICES ASSUME place[j] < place[i] PROVE FALSE OBVIOUS
    <3>1. j < i BY <1>1, <2>1
    <3> QED BY <1>11, <3>1
  <2>3. place[i] # place[j] BY <1>9, <1>11
  <2>4. place[i] \in Nat /\ place[j] \in Nat BY <1>3, <2>1
  <2> QED BY <2>2, <2>3, <2>4
<1>12. PlacesOf(place, kept, s, picked) BY <1>5, <1>6, <1>8, <1>9, <1>10 DEF PlacesOf
<1> QED BY <1>8, <1>11, <1>12 DEF kept, m

LEMMA KeptPlaces ==
  ASSUME NEW S, NEW s \in Seq(S), NEW picked \in SUBSET (1..Len(s))
  PROVE  /\ Kept(s, picked) \in Seq(S)
         /\ \E place : PlacesOf(place, Kept(s, picked), s, picked)
<1> DEFINE kept == Kept(s, picked)
           m == Cardinality(picked)
<1>1. Len(s) \in Nat /\ \A i \in 1..Len(s) : s[i] \in S BY ListShape
<1>2. /\ DOMAIN kept = 1..m /\ Len(kept) = m
      /\ \E place : PlacesOf(place, kept, s, picked)
  BY <1>1, KeptAscend
<1>3. m \in Nat BY <1>1, RanksOfPicked
<1>4. kept = [k \in 1..m |-> kept[k]] BY DEF Kept
<1> HIDE DEF kept, m
<1>5. PICK place : PlacesOf(place, kept, s, picked) BY <1>2
<1>6. ASSUME NEW k \in 1..m PROVE kept[k] \in S
  <2>1. place[k] \in picked /\ kept[k] = s[place[k]] BY <1>2, <1>5 DEF PlacesOf
  <2> QED BY <1>1, <2>1
<1>7. kept \in [1..m -> S] BY <1>4, <1>6
<1>8. kept \in Seq(S) BY <1>3, <1>7
<1> QED BY <1>5, <1>8 DEF kept

\* What is kept, in words that need no places.
LEMMA KeptItems ==
  ASSUME NEW S, NEW s \in Seq(S), NEW picked \in SUBSET (1..Len(s))
  PROVE  /\ Kept(s, picked) \in Seq(S)
         /\ Len(Kept(s, picked)) = Cardinality(picked)
         /\ \A j \in 1..Len(Kept(s, picked)) : \E k \in picked : Kept(s, picked)[j] = s[k]
         /\ \A k \in picked : \E j \in 1..Len(Kept(s, picked)) : Kept(s, picked)[j] = s[k]
<1> DEFINE kept == Kept(s, picked)
<1>1. kept \in Seq(S) /\ \E place : PlacesOf(place, kept, s, picked) BY KeptPlaces
<1>2. PICK place : PlacesOf(place, kept, s, picked) BY <1>1
<1> HIDE DEF kept
<1> DEFINE n == Len(kept)
<1>3. n \in Nat BY <1>1, ListShape
<1>4. place \in Bijection(1..n, picked)
  <2>1. place \in [1..n -> picked] BY <1>2 DEF PlacesOf
  <2>2. \A i, j \in 1..n : place[i] = place[j] => i = j BY <1>2 DEF PlacesOf
  <2>3. \A k \in picked : \E j \in 1..n : place[j] = k BY <1>2 DEF PlacesOf
  <2>4. place \in Injection(1..n, picked) BY <2>1, <2>2 DEF Injection, IsInjective
  <2>5. place \in Surjection(1..n, picked) BY <2>1, <2>3 DEF Surjection
  <2> QED BY <2>4, <2>5 DEF Bijection
<1>5. Cardinality(picked) = n
  <2> HIDE DEF n
  <2>1. IsFiniteSet(1..n) /\ Cardinality(1..n) = n BY <1>3, CountOfInterval
  <2>2. ExistsBijection(1..n, picked) BY <1>4 DEF ExistsBijection
  <2> QED BY <2>1, <2>2, FS_Bijection
<1>6. \A j \in 1..n : place[j] \in picked /\ kept[j] = s[place[j]] BY <1>2 DEF PlacesOf
<1>7. \A k \in picked : \E j \in 1..n : place[j] = k BY <1>2 DEF PlacesOf
<1>8. \A j \in 1..n : \E k \in picked : kept[j] = s[k] BY <1>6
<1>9. \A k \in picked : \E j \in 1..n : kept[j] = s[k] BY <1>6, <1>7
<1> QED BY <1>1, <1>5, <1>8, <1>9 DEF kept

(***************************************************************************)
(* Counting.                                                               *)
(***************************************************************************)

\* The first n items of a list, and that none of them is there twice.
FirstItems(f, n) == {f[k] : k \in 1..n}
NoneTwice(f, n) == \A i, j \in 1..n : f[i] = f[j] => i = j
\* Each of them is one of the first n items of another list.
EachIn(f, g, n) == \A i \in 1..n : \E j \in 1..n : f[i] = g[j]

\* n items, none twice, are n things.
LEMMA DistinctCount ==
  ASSUME NEW n \in Nat, NEW f, NoneTwice(f, n)
  PROVE  IsFiniteSet(FirstItems(f, n)) /\ Cardinality(FirstItems(f, n)) = n
<1> DEFINE D == 1..n
           T == {f[k] : k \in D}
           g == [k \in D |-> f[k]]
<1>1. IsFiniteSet(D) /\ Cardinality(D) = n BY CountOfInterval
<1>2. g \in [D -> T] OBVIOUS
<1>3. \A i, j \in D : g[i] = g[j] => i = j BY DEF NoneTwice
<1>4. \A y \in T : \E x \in D : g[x] = y OBVIOUS
<1> HIDE DEF D, T, g
<1>5. g \in Injection(D, T) BY <1>2, <1>3 DEF Injection, IsInjective
<1>6. g \in Surjection(D, T) BY <1>2, <1>4 DEF Surjection
<1>7. g \in Bijection(D, T) BY <1>5, <1>6 DEF Bijection
<1>8. ExistsBijection(D, T) BY <1>7 DEF ExistsBijection
<1>9. IsFiniteSet(T) /\ Cardinality(T) = n BY <1>1, <1>8, FS_Bijection
<1> QED BY <1>9 DEF D, T, FirstItems

\* Of two lists of one length, none repeating an item: when every item of the first is
\* in the second, every item of the second is in the first.
LEMMA AllMatched ==
  ASSUME NEW n \in Nat, NEW f, NEW g, NoneTwice(f, n), NoneTwice(g, n), EachIn(f, g, n)
  PROVE  EachIn(g, f, n)
<1>1. IsFiniteSet(FirstItems(f, n)) /\ Cardinality(FirstItems(f, n)) = n BY DistinctCount
<1>2. IsFiniteSet(FirstItems(g, n)) /\ Cardinality(FirstItems(g, n)) = n BY DistinctCount
<1>3. FirstItems(f, n) \in SUBSET FirstItems(g, n) BY DEF FirstItems, EachIn
<1>4. FirstItems(f, n) = FirstItems(g, n) BY <1>1, <1>2, <1>3, FS_Subset
<1> SUFFICES ASSUME NEW j \in 1..n PROVE \E i \in 1..n : g[j] = f[i] BY DEF EachIn
<1>5. g[j] \in FirstItems(g, n) BY DEF FirstItems
<1>6. g[j] \in FirstItems(f, n) BY <1>4, <1>5
<1> QED BY <1>6 DEF FirstItems

\* The same of a second list that may be the shorter one.
LEMMA ShorterMatched ==
  ASSUME NEW m \in Nat, NEW n \in Nat, m <= n, NEW f, NEW g, NoneTwice(f, n), NoneTwice(g, m),
         \A i \in 1..n : \E j \in 1..m : f[i] = g[j]
  PROVE  m = n /\ EachIn(g, f, n)
<1>1. IsFiniteSet(FirstItems(f, n)) /\ Cardinality(FirstItems(f, n)) = n BY DistinctCount
<1>2. IsFiniteSet(FirstItems(g, m)) /\ Cardinality(FirstItems(g, m)) = m BY DistinctCount
<1>3. FirstItems(f, n) \in SUBSET FirstItems(g, m) BY DEF FirstItems
<1>4. n <= m BY <1>1, <1>2, <1>3, FS_Subset
<1>5. m = n BY <1>4
<1>6. EachIn(f, g, n) BY <1>5 DEF EachIn
<1> QED BY <1>5, <1>6, AllMatched

\* Lists that repeat no item and have the same items are of one length.
LEMMA SameItemsSameLength ==
  ASSUME NEW m \in Nat, NEW n \in Nat, NEW f, NEW g, NoneTwice(f, m), NoneTwice(g, n),
         FirstItems(f, m) = FirstItems(g, n)
  PROVE  m = n
<1>1. Cardinality(FirstItems(f, m)) = m BY DistinctCount
<1>2. Cardinality(FirstItems(g, n)) = n BY DistinctCount
<1> QED BY <1>1, <1>2

LEMMA TotalOfEqual ==
  ASSUME NEW values \in Seq(Int), NEW c \in Int, \A k \in 1..Len(values) : values[k] = c
  PROVE  TotalOf(values) = Len(values) * c
<1> DEFINE a == RunningTotals(values)
           S == {n \in Nat : n <= Len(values) => a[n] = n * c}
<1>0. Len(values) \in Nat OBVIOUS
<1>1. 0 \in S
  <2>1. a[0] = 0 BY <1>0, RunningTotalsStep
  <2> QED BY <2>1
<1>2. ASSUME NEW n \in Nat, n \in S PROVE n + 1 \in S
  <2> SUFFICES ASSUME n + 1 <= Len(values) PROVE a[n + 1] = (n + 1) * c OBVIOUS
  <2>1. a[n + 1] = a[n] + values[n + 1] BY RunningTotalsNext
  <2>2. values[n + 1] = c /\ a[n] = n * c BY <1>0, <1>2
  <2>3. (n + 1) * c = n * c + c OBVIOUS
  <2> HIDE DEF a
  <2> QED BY <2>1, <2>2, <2>3
<1> HIDE DEF S
<1>3. \A n \in Nat : n \in S BY <1>1, <1>2, Induction
<1>4. Len(values) \in S BY <1>0, <1>3
<1> QED BY <1>4, TotalIsLast DEF S

LEMMA OneMoreCounted ==
  ASSUME NEW n \in Nat, NEW S \in SUBSET (1..n)
  PROVE  /\ IsFiniteSet(S) /\ Cardinality(S) \in Nat
         /\ Cardinality(S \cup {n + 1}) = Cardinality(S) + 1
<1>1. IsFiniteSet(1..n) BY CountOfInterval
<1>2. IsFiniteSet(S) BY <1>1, FS_Subset
<1>3. n + 1 \notin S OBVIOUS
<1>4. Cardinality(S \cup {n + 1}) = Cardinality(S) + 1 BY <1>2, <1>3, FS_AddElement
<1> QED BY <1>2, <1>4, FS_CardinalityType

\* Some of the values, c each, are together no more than all of them.
LEMMA PartOfTotal ==
  ASSUME NEW values \in Seq(Nat), NEW c \in Nat, NEW picked \in SUBSET (1..Len(values)),
         \A k \in picked : values[k] = c
  PROVE  Cardinality(picked) * c <= TotalOf(values)
<1> DEFINE a == RunningTotals(values)
           Upto(n) == picked \cap (1..n)
           S == {n \in Nat : n <= Len(values) => Cardinality(Upto(n)) * c <= a[n]}
<1>0. Len(values) \in Nat /\ values \in Seq(Int) OBVIOUS
<1>1. 0 \in S
  <2>1. a[0] = 0 BY <1>0, RunningTotalsStep
  <2>2. Upto(0) = {} OBVIOUS
  <2>3. Cardinality(Upto(0)) = 0 BY <2>2, FS_EmptySet
  <2> HIDE DEF Upto, a
  <2> QED BY <2>1, <2>3
<1>2. ASSUME NEW n \in Nat, n \in S PROVE n + 1 \in S
  <2> SUFFICES ASSUME n + 1 <= Len(values)
               PROVE  Cardinality(Upto(n + 1)) * c <= a[n + 1]
    OBVIOUS
  <2>1. a[n] \in Int /\ a[n + 1] = a[n] + values[n + 1] BY <1>0, RunningTotalsNext
  <2>2. values[n + 1] \in Nat
    <3>1. n + 1 \in 1..Len(values) BY <1>0
    <3> QED BY <3>1
  <2>3. Cardinality(Upto(n)) * c <= a[n] BY <1>0, <1>2
  <2>4. /\ Cardinality(Upto(n)) \in Nat
        /\ Cardinality(Upto(n) \cup {n + 1}) = Cardinality(Upto(n)) + 1
    <3>1. Upto(n) \in SUBSET (1..n) OBVIOUS
    <3> HIDE DEF Upto
    <3> QED BY <3>1, OneMoreCounted
  <2>5. CASE n + 1 \in picked
    <3>1. Upto(n + 1) = Upto(n) \cup {n + 1} BY <2>5
    <3>2. values[n + 1] = c BY <2>5
    <3> HIDE DEF Upto, a
    <3>3. Cardinality(Upto(n + 1)) * c = Cardinality(Upto(n)) * c + c
      <4> DEFINE x == Cardinality(Upto(n))
      <4>1. Cardinality(Upto(n + 1)) = x + 1 /\ x \in Nat BY <2>4, <3>1
      <4> HIDE DEF x
      <4>2. (x + 1) * c = x * c + c BY <4>1
      <4> QED BY <4>1, <4>2 DEF x
    <3> DEFINE y == Cardinality(Upto(n)) * c
    <3>4. y \in Nat BY <2>4
    <3>5. y <= a[n] /\ Cardinality(Upto(n + 1)) * c = y + c BY <2>3, <3>3
    <3> HIDE DEF y
    <3> QED BY <2>1, <3>2, <3>4, <3>5
  <2>6. CASE n + 1 \notin picked
    <3>1. Upto(n + 1) = Upto(n)
      <4> SUFFICES ASSUME NEW k \in picked PROVE k \in 1..(n + 1) <=> k \in 1..n OBVIOUS
      <4>1. k # n + 1 /\ k \in Nat BY <2>6
      <4> QED BY <4>1
    <3> HIDE DEF Upto, a
    <3> DEFINE y == Cardinality(Upto(n)) * c
    <3>2. y \in Nat /\ y <= a[n] /\ Cardinality(Upto(n + 1)) * c = y BY <2>3, <2>4, <3>1
    <3> HIDE DEF y
    <3> QED BY <2>1, <2>2, <3>2
  <2> QED BY <2>5, <2>6
<1> HIDE DEF S
<1>3. \A n \in Nat : n \in S BY <1>1, <1>2, Induction
<1>4. Len(values) \in S BY <1>0, <1>3
<1>5. Upto(Len(values)) = picked OBVIOUS
<1>6. Cardinality(Upto(Len(values))) * c <= a[Len(values)] BY <1>0, <1>4 DEF S
<1> HIDE DEF Upto
<1> QED BY <1>5, <1>6, TotalIsLast

\* When m things belong to n owners, and every owner is worth c for each of its things,
\* the owners are worth c * m together.
LEMMA SharedTotal ==
  ASSUME NEW m \in Nat, NEW values \in Seq(Int), NEW c \in Int,
         NEW owner \in [1..m -> 1..Len(values)],
         \A j \in 1..Len(values) : values[j] = Cardinality({k \in 1..m : owner[k] = j}) * c
  PROVE  TotalOf(values) = m * c
<1> DEFINE a == RunningTotals(values)
           Of(j) == {k \in 1..m : owner[k] = j}
           Upto(n) == {k \in 1..m : owner[k] <= n}
           S == {n \in Nat : n <= Len(values) => a[n] = Cardinality(Upto(n)) * c}
<1>0. Len(values) \in Nat /\ \A k \in 1..m : owner[k] \in 1..Len(values) OBVIOUS
<1>1. /\ \A n \in Nat : IsFiniteSet(Upto(n)) /\ Cardinality(Upto(n)) \in Nat
      /\ \A j \in Nat : IsFiniteSet(Of(j)) /\ Cardinality(Of(j)) \in Nat
  <2>1. IsFiniteSet(1..m) BY CountOfInterval
  <2>2. \A n \in Nat : Upto(n) \in SUBSET (1..m) /\ Of(n) \in SUBSET (1..m) OBVIOUS
  <2> HIDE DEF Upto, Of
  <2>3. \A n \in Nat : IsFiniteSet(Upto(n)) /\ IsFiniteSet(Of(n)) BY <2>1, <2>2, FS_Subset
  <2> QED BY <2>3, FS_CardinalityType
<1>2. 0 \in S
  <2>1. a[0] = 0 BY <1>0, RunningTotalsStep
  <2>2. Upto(0) = {} BY <1>0
  <2>3. Cardinality(Upto(0)) = 0 BY <2>2, FS_EmptySet
  <2> HIDE DEF Upto, a
  <2> QED BY <2>1, <2>3
<1>3. ASSUME NEW n \in Nat, n \in S PROVE n + 1 \in S
  <2> SUFFICES ASSUME n + 1 <= Len(values) PROVE a[n + 1] = Cardinality(Upto(n + 1)) * c
    <3> HIDE DEF a, Upto
    <3> QED OBVIOUS
  <2>1. a[n + 1] = a[n] + values[n + 1] BY RunningTotalsNext
  <2>2. a[n] = Cardinality(Upto(n)) * c BY <1>0, <1>3
  <2>3. values[n + 1] = Cardinality(Of(n + 1)) * c
    <3>1. n + 1 \in 1..Len(values) BY <1>0
    <3> QED BY <3>1
  <2>4. Cardinality(Upto(n + 1)) = Cardinality(Upto(n)) + Cardinality(Of(n + 1))
    <3>1. Upto(n + 1) = Upto(n) \cup Of(n + 1)
      <4> SUFFICES ASSUME NEW k \in 1..m
                   PROVE  owner[k] <= n + 1 <=> owner[k] <= n \/ owner[k] = n + 1
        OBVIOUS
      <4>1. owner[k] \in Int BY <1>0
      <4> QED BY <4>1
    <3>2. Upto(n) \cap Of(n + 1) = {} OBVIOUS
    <3>3. n \in Nat /\ n + 1 \in Nat OBVIOUS
    <3> HIDE DEF Upto, Of
    <3>4. IsFiniteSet(Upto(n)) /\ IsFiniteSet(Of(n + 1)) BY <1>1, <3>3
    <3>5. Cardinality(Upto(n) \cup Of(n + 1)) =
             Cardinality(Upto(n)) + Cardinality(Of(n + 1)) - Cardinality(Upto(n) \cap Of(n + 1))
      BY <3>4, FS_Union
    <3>6. Cardinality(Upto(n) \cap Of(n + 1)) = 0 BY <3>2, FS_EmptySet
    <3>7. Cardinality(Upto(n)) \in Nat /\ Cardinality(Of(n + 1)) \in Nat BY <1>1, <3>3
    <3> DEFINE p == Cardinality(Upto(n))
               q == Cardinality(Of(n + 1))
    <3>8. Cardinality(Upto(n + 1)) = p + q - 0 BY <3>1, <3>5, <3>6
    <3>9. p \in Nat /\ q \in Nat BY <3>7
    <3> HIDE DEF p, q
    <3>10. p + q - 0 = p + q BY <3>9
    <3> QED BY <3>8, <3>10 DEF p, q
  <2>5. Cardinality(Upto(n)) \in Nat /\ Cardinality(Of(n + 1)) \in Nat
    <3>1. n \in Nat /\ n + 1 \in Nat OBVIOUS
    <3> HIDE DEF Upto, Of
    <3> QED BY <1>1, <3>1
  <2> DEFINE x == Cardinality(Upto(n))
             y == Cardinality(Of(n + 1))
  <2>6. /\ x \in Nat /\ y \in Nat /\ Cardinality(Upto(n + 1)) = x + y
        /\ a[n + 1] = x * c + y * c
    <3> HIDE DEF Upto, Of, a
    <3> QED BY <2>1, <2>2, <2>3, <2>4, <2>5
  <2> HIDE DEF x, y, Upto, Of, a
  <2>7. (x + y) * c = x * c + y * c BY <2>6
  <2> QED BY <2>6, <2>7
<1> HIDE DEF S
<1>4. \A n \in Nat : n \in S BY <1>2, <1>3, Induction
<1>5. Len(values) \in S BY <1>0, <1>4
<1>6. a[Len(values)] = Cardinality(Upto(Len(values))) * c BY <1>0, <1>5 DEF S
<1>7. Upto(Len(values)) = 1..m BY <1>0
<1>8. Cardinality(1..m) = m BY CountOfInterval
<1> HIDE DEF Upto
<1> QED BY <1>6, <1>7, <1>8, TotalIsLast
(***************************************************************************)
(* A filter of places, and sorting.                                        *)
(***************************************************************************)

\* Places are kept in their order.
LEMMA KeptNumbers ==
  ASSUME NEW n \in Nat, NEW picked \in SUBSET (1..n), NEW numbers, numbers = [k \in 1..n |-> k]
  PROVE  LET kept == Kept(numbers, picked)
         IN  /\ kept \in Seq(picked) /\ Len(kept) = Cardinality(picked)
             /\ \A k \in picked : \E j \in 1..Len(kept) : kept[j] = k
             /\ \A i, j \in 1..Len(kept) : i < j => kept[i] < kept[j]
<1> DEFINE kept == Kept(numbers, picked)
           m == Cardinality(picked)
<1>1. PICK place : /\ PlacesOf(place, kept, numbers, picked)
                   /\ \A i, j \in 1..m : i < j => place[i] < place[j]
  BY KeptAscend
<1>2. DOMAIN kept = 1..m /\ Len(kept) = m BY KeptAscend
<1>3. m \in Nat BY RanksOfPicked
<1>4. kept = [k \in 1..m |-> kept[k]] BY DEF Kept
<1> HIDE DEF kept, m
<1>5. /\ place \in [1..m -> picked]
      /\ \A j \in 1..m : kept[j] = numbers[place[j]]
      /\ \A k \in picked : \E j \in 1..m : place[j] = k
  BY <1>1, <1>2 DEF PlacesOf
<1>6. \A j \in 1..m : kept[j] = place[j] /\ kept[j] \in picked
  <2> SUFFICES ASSUME NEW j \in 1..m PROVE kept[j] = place[j] /\ kept[j] \in picked OBVIOUS
  <2>1. place[j] \in picked /\ place[j] \in 1..n BY <1>5
  <2>2. numbers[place[j]] = place[j] BY <2>1
  <2> QED BY <1>5, <2>1, <2>2
<1>7. kept \in [1..m -> picked] BY <1>4, <1>6
<1>8. kept \in Seq(picked) BY <1>3, <1>7
<1>9. \A k \in picked : \E j \in 1..m : kept[j] = k BY <1>5, <1>6
<1>10. \A i, j \in 1..m : i < j => kept[i] < kept[j] BY <1>1, <1>6
<1> QED BY <1>2, <1>8, <1>9, <1>10 DEF kept, m

\* The places before place j in the order of the keys.
PlacesBefore(keys, n, j) == {i \in 1..n : Precedes(keys, i, j)}
RankIn(keys, n) == [j \in 1..n |-> Cardinality(PlacesBefore(keys, n, j)) + 1]

\* Every place has a rank, and the ranks are the places.
LEMMA Ranks ==
  ASSUME NEW n \in Nat, NEW keys \in [1..n -> Int]
  PROVE  LET rank == RankIn(keys, n)
         IN  /\ rank \in [1..n -> 1..n]
             /\ NoneTwice(rank, n)
             /\ \A k \in 1..n : \E j \in 1..n : rank[j] = k
             /\ \A i, j \in 1..n : Precedes(keys, i, j) => rank[i] < rank[j]
<1> DEFINE rank == RankIn(keys, n)
           B(j) == PlacesBefore(keys, n, j)
           id == [k \in 1..n |-> k]
<1>1. IsFiniteSet(1..n) /\ Cardinality(1..n) = n BY CountOfInterval
<1>2. \A j \in 1..n : IsFiniteSet(B(j)) /\ Cardinality(B(j)) \in Nat /\ j \notin B(j)
  <2> SUFFICES ASSUME NEW j \in 1..n
               PROVE  IsFiniteSet(B(j)) /\ Cardinality(B(j)) \in Nat /\ j \notin B(j)
    OBVIOUS
  <2>1. B(j) \subseteq 1..n BY DEF PlacesBefore
  <2>2. IsFiniteSet(B(j)) BY <1>1, <2>1, FS_Subset
  <2>3. j \notin B(j)
    <3>1. keys[j] \in Int OBVIOUS
    <3> QED BY <3>1 DEF PlacesBefore, Precedes
  <2> QED BY <2>2, <2>3, FS_CardinalityType
\* A set of places without place j that B counts is smaller.
<1>3. ASSUME NEW S \in SUBSET (1..n), NEW R \in SUBSET S, NEW i \in S, i \notin R
      PROVE  /\ Cardinality(R) \in Nat /\ Cardinality(S) \in Nat
             /\ Cardinality(R) < Cardinality(S)
  <2>1. IsFiniteSet(S) BY <1>1, FS_Subset
  <2>2. IsFiniteSet(R) /\ Cardinality(R) <= Cardinality(S)
        /\ (Cardinality(R) = Cardinality(S) => R = S)
    BY <2>1, FS_Subset
  <2>3. R # S BY <1>3
  <2>4. Cardinality(R) \in Nat /\ Cardinality(S) \in Nat BY <2>1, <2>2, FS_CardinalityType
  <2> QED BY <2>2, <2>3, <2>4
<1>4. \A j \in 1..n : Cardinality(B(j)) < n
  <2> SUFFICES ASSUME NEW j \in 1..n PROVE Cardinality(B(j)) < n OBVIOUS
  <2>1. B(j) \in SUBSET (1..n) /\ j \notin B(j) /\ j \in 1..n /\ 1..n \in SUBSET (1..n)
    BY <1>2 DEF PlacesBefore
  <2> HIDE DEF B
  <2>2. Cardinality(B(j)) < Cardinality(1..n) BY <1>3, <2>1
  <2> QED BY <1>1, <2>2
<1>5. ASSUME NEW i \in 1..n, NEW j \in 1..n, Precedes(keys, i, j)
      PROVE  Cardinality(B(i)) < Cardinality(B(j))
  <2>1. i \in B(j) BY <1>5 DEF PlacesBefore
  <2>2. i \notin B(i) BY <1>2
  <2>3. B(i) \in SUBSET B(j)
    <3> SUFFICES ASSUME NEW k \in 1..n, Precedes(keys, k, i) PROVE Precedes(keys, k, j)
      BY DEF PlacesBefore
    <3>1. keys[i] \in Int /\ keys[j] \in Int /\ keys[k] \in Int OBVIOUS
    <3> QED BY <1>5, <3>1 DEF Precedes
  <2>4. B(j) \in SUBSET (1..n) BY DEF PlacesBefore
  <2> HIDE DEF B
  <2> QED BY <1>3, <2>1, <2>2, <2>3, <2>4
<1>6. \A j \in 1..n : rank[j] = Cardinality(B(j)) + 1 /\ rank[j] \in 1..n
  <2>1. \A j \in 1..n : rank[j] = Cardinality(B(j)) + 1 BY DEF RankIn
  <2>2. \A j \in 1..n : Cardinality(B(j)) \in Nat BY <1>2
  <2> HIDE DEF B, rank
  <2>3. ASSUME NEW j \in 1..n PROVE rank[j] = Cardinality(B(j)) + 1 /\ rank[j] \in 1..n
    <3>1. rank[j] = Cardinality(B(j)) + 1 BY <2>1
    <3>2. Cardinality(B(j)) \in Nat /\ Cardinality(B(j)) < n BY <1>4, <2>2
    <3> QED BY <3>1, <3>2
  <2> QED BY <2>3
<1>7. rank \in [1..n -> 1..n] BY <1>6 DEF RankIn
<1>8. \A i, j \in 1..n : Precedes(keys, i, j) => rank[i] < rank[j]
  <2> SUFFICES ASSUME NEW i \in 1..n, NEW j \in 1..n, Precedes(keys, i, j) PROVE rank[i] < rank[j] OBVIOUS
  <2>1. Cardinality(B(i)) < Cardinality(B(j)) BY <1>5
  <2>2. Cardinality(B(i)) \in Nat /\ Cardinality(B(j)) \in Nat BY <1>2
  <2> HIDE DEF B, rank
  <2> QED BY <1>6, <2>1, <2>2
<1>9. NoneTwice(rank, n)
  <2> SUFFICES ASSUME NEW i \in 1..n, NEW j \in 1..n, rank[i] = rank[j], i # j PROVE FALSE BY DEF NoneTwice
  <2>1. keys[i] \in Int /\ keys[j] \in Int OBVIOUS
  <2>2. Precedes(keys, i, j) \/ Precedes(keys, j, i) BY <2>1 DEF Precedes
  <2>3. rank[i] \in Int BY <1>6
  <2> HIDE DEF rank
  <2> QED BY <1>8, <2>2, <2>3
<1>10. \A k \in 1..n : \E j \in 1..n : rank[j] = k
  <2>1. EachIn(rank, id, n)
    <3> SUFFICES ASSUME NEW i \in 1..n PROVE \E j \in 1..n : rank[i] = id[j] BY DEF EachIn
    <3>1. rank[i] \in 1..n /\ id[rank[i]] = rank[i] BY <1>6
    <3> QED BY <3>1
  <2>2. NoneTwice(id, n) BY DEF NoneTwice
  <2>3. \A k \in 1..n : id[k] = k OBVIOUS
  <2> HIDE DEF rank, id
  <2>4. EachIn(id, rank, n) BY <1>9, <2>1, <2>2, AllMatched
  <2> SUFFICES ASSUME NEW k \in 1..n PROVE \E j \in 1..n : rank[j] = k OBVIOUS
  <2>5. PICK j \in 1..n : id[k] = rank[j] BY <2>4 DEF EachIn
  <2> QED BY <2>3, <2>5
<1> QED BY <1>7, <1>8, <1>9, <1>10

\* The place with a rank.
LEMMA PlaceOfRank ==
  ASSUME NEW n \in Nat, NEW keys \in [1..n -> Int], NEW k \in 1..n
  PROVE  PlaceOf(keys, k) \in 1..n /\ RankIn(keys, n)[PlaceOf(keys, k)] = k
<1> DEFINE Ranked(j) == Cardinality(PlacesBefore(keys, n, j)) = k - 1
<1>1. DOMAIN keys = 1..n OBVIOUS
<1>2. PlaceOf(keys, k) = CHOOSE j \in 1..n : Ranked(j) BY <1>1 DEF PlaceOf, PlacesBefore
<1>3. PICK j \in 1..n : RankIn(keys, n)[j] = k BY Ranks
<1>4. \A l \in 1..n : /\ RankIn(keys, n)[l] = Cardinality(PlacesBefore(keys, n, l)) + 1
                      /\ Cardinality(PlacesBefore(keys, n, l)) \in Nat
  <2> SUFFICES ASSUME NEW l \in 1..n
               PROVE  /\ RankIn(keys, n)[l] = Cardinality(PlacesBefore(keys, n, l)) + 1
                      /\ Cardinality(PlacesBefore(keys, n, l)) \in Nat
    OBVIOUS
  <2>1. PlacesBefore(keys, n, l) \subseteq 1..n BY DEF PlacesBefore
  <2>2. IsFiniteSet(PlacesBefore(keys, n, l)) BY <2>1, CountOfInterval, FS_Subset
  <2> QED BY <2>2, FS_CardinalityType DEF RankIn
<1>5. Ranked(j)
  <2>1. /\ RankIn(keys, n)[j] = Cardinality(PlacesBefore(keys, n, j)) + 1
        /\ Cardinality(PlacesBefore(keys, n, j)) \in Nat
    BY <1>4
  <2> HIDE DEF Ranked
  <2>2. k = Cardinality(PlacesBefore(keys, n, j)) + 1 BY <1>3, <2>1
  <2>3. Cardinality(PlacesBefore(keys, n, j)) = k - 1 BY <2>1, <2>2
  <2> QED BY <2>3 DEF Ranked
<1> DEFINE p == CHOOSE l \in 1..n : Ranked(l)
<1>6. p \in 1..n /\ Ranked(p)
  <2> HIDE DEF Ranked
  <2> QED BY <1>5
<1> HIDE DEF p
<1>7. RankIn(keys, n)[p] = k BY <1>4, <1>6
<1> QED BY <1>2, <1>6, <1>7 DEF p

\* A sorted array has the items of the array, in the order of their keys.
IsArray(items, n) == items = [k \in 1..n |-> items[k]]
IsSortingOrder(order, items, keys, n) ==
    /\ order \in [1..n -> 1..n] /\ NoneTwice(order, n)
    /\ \A j \in 1..n : \E k \in 1..n : order[k] = j
    /\ SortedBy(items, keys) = [k \in 1..n |-> items[order[k]]]
    /\ \A i, j \in 1..n : i < j => keys[order[i]] <= keys[order[j]]

LEMMA SortedOrder ==
  ASSUME NEW n \in Nat, NEW keys \in [1..n -> Int], NEW items, IsArray(items, n)
  PROVE  \E order : IsSortingOrder(order, items, keys, n)
<1> DEFINE order == [k \in 1..n |-> PlaceOf(keys, k)]
           rank == RankIn(keys, n)
<1>1. /\ rank \in [1..n -> 1..n] /\ NoneTwice(rank, n)
      /\ \A i, j \in 1..n : Precedes(keys, i, j) => rank[i] < rank[j]
  BY Ranks
<1>2. \A k \in 1..n : order[k] \in 1..n /\ rank[order[k]] = k BY PlaceOfRank
<1>3. SortedBy(items, keys) = [k \in 1..n |-> items[order[k]]]
  <2>1. DOMAIN items = 1..n BY DEF IsArray
  <2> QED BY <2>1 DEF SortedBy
<1>4. order \in [1..n -> 1..n] BY <1>2
<1> HIDE DEF order, rank
<1>5. NoneTwice(order, n) BY <1>2 DEF NoneTwice
<1>6. \A j \in 1..n : \E k \in 1..n : order[k] = j
  <2> SUFFICES ASSUME NEW j \in 1..n PROVE \E k \in 1..n : order[k] = j OBVIOUS
  <2>1. rank[j] \in 1..n BY <1>1
  <2>2. order[rank[j]] \in 1..n /\ rank[order[rank[j]]] = rank[j] BY <1>2, <2>1
  <2>3. order[rank[j]] = j BY <1>1, <2>2 DEF NoneTwice
  <2> QED BY <2>1, <2>3
<1>7. ASSUME NEW i \in 1..n, NEW j \in 1..n, i < j PROVE keys[order[i]] <= keys[order[j]]
  <2> DEFINE a == order[i]
             b == order[j]
  <2>1. a \in 1..n /\ b \in 1..n /\ rank[a] = i /\ rank[b] = j BY <1>2
  <2>2. keys[a] \in Int /\ keys[b] \in Int BY <2>1
  <2> HIDE DEF a, b
  <2>3. ~Precedes(keys, b, a)
    <3> SUFFICES ASSUME Precedes(keys, b, a) PROVE FALSE OBVIOUS
    <3>1. rank[b] < rank[a] BY <1>1, <2>1
    <3> QED BY <1>7, <2>1, <3>1
  <2>4. ~(keys[b] < keys[a]) BY <2>3 DEF Precedes
  <2>5. keys[a] <= keys[b] BY <2>2, <2>4
  <2> QED BY <2>5 DEF a, b
<1>8. IsSortingOrder(order, items, keys, n)
  BY <1>3, <1>4, <1>5, <1>6, <1>7 DEF IsSortingOrder
<1> QED BY <1>8

\* Sorting leaves an array that is in order as it is.
LEMMA SortedAlready ==
  ASSUME NEW n \in Nat, NEW keys \in [1..n -> Int], NEW items, IsArray(items, n),
         \A i, j \in 1..n : i < j => keys[i] <= keys[j]
  PROVE  SortedBy(items, keys) = items
<1> DEFINE rank == RankIn(keys, n)
<1>1. \A j \in 1..n : rank[j] = j
  <2> SUFFICES ASSUME NEW j \in 1..n PROVE rank[j] = j OBVIOUS
  <2>1. PlacesBefore(keys, n, j) = 1..(j - 1)
    <3> SUFFICES ASSUME NEW i \in 1..n PROVE Precedes(keys, i, j) <=> i < j BY DEF PlacesBefore
    <3>1. keys[i] \in Int /\ keys[j] \in Int OBVIOUS
    <3>2. CASE i < j
      <4>1. keys[i] <= keys[j] BY <3>2
      <4> QED BY <3>1, <3>2, <4>1 DEF Precedes
    <3>3. CASE i = j BY <3>1, <3>3 DEF Precedes
    <3>4. CASE j < i
      <4>1. keys[j] <= keys[i] BY <3>4
      <4> QED BY <3>1, <3>4, <4>1 DEF Precedes
    <3> QED BY <3>2, <3>3, <3>4
  <2>2. j - 1 \in Nat OBVIOUS
  <2>3. Cardinality(1..(j - 1)) = j - 1 BY <2>2, CountOfInterval
  <2> QED BY <2>1, <2>3 DEF RankIn
<1>2. \A k \in 1..n : PlaceOf(keys, k) = k
  <2> SUFFICES ASSUME NEW k \in 1..n PROVE PlaceOf(keys, k) = k OBVIOUS
  <2>1. PlaceOf(keys, k) \in 1..n /\ rank[PlaceOf(keys, k)] = k BY PlaceOfRank
  <2> HIDE DEF rank
  <2> QED BY <1>1, <2>1
<1>3. DOMAIN items = 1..n BY DEF IsArray
<1>4. SortedBy(items, keys) = [k \in 1..n |-> items[PlaceOf(keys, k)]] BY <1>3 DEF SortedBy
<1>5. [k \in 1..n |-> items[PlaceOf(keys, k)]] = [k \in 1..n |-> items[k]] BY <1>2
<1> QED BY <1>4, <1>5 DEF IsArray
=============================================================================
