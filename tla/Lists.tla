-------------------------------- MODULE Lists --------------------------------
(***************************************************************************)
(* Arrays, the total of an array of numbers as every loop over values in   *)
(* the repository accumulates it, what a filter keeps of an array, and an  *)
(* array sorted.  Totals are recursive functions; a filter is given the    *)
(* places it keeps instead of a test, and a sort the keys of the items     *)
(* instead of a comparison, so that they can be reasoned about.            *)
(***************************************************************************)
EXTENDS Integers, Sequences, FiniteSets, SequencesExt

IsList(items) == items \in Seq(Range(items))

\* A record of exactly these fields.
HasFields(record, fields) == record = [field \in fields |-> record[field]]

\* The running totals, from 0 before the first value on.
RunningTotals(values) ==
    LET total[n \in 0..Len(values)] == IF n = 0 THEN 0 ELSE total[n - 1] + values[n]
    IN  total

\* The last of them, by halves: the depth of its evaluation stays small on long arrays.
PartTotals(values) ==
    LET part[at \in (DOMAIN values) \X (DOMAIN values)] ==
            LET middle == (at[1] + at[2]) \div 2
            IN  IF at[1] = at[2] THEN values[at[1]]
                ELSE part[<<at[1], middle>>] + part[<<middle + 1, at[2]>>]
    IN  part
TotalOf(values) == IF Len(values) = 0 THEN 0 ELSE PartTotals(values)[<<1, Len(values)>>]

\* The items at the picked places, in their order: the rank of a place is the number
\* of picked places up to it.
RankAmong(picked) == [k \in picked |-> Cardinality({i \in picked : i <= k})]
Kept(items, picked) ==
    LET rank == RankAmong(picked)
    IN  [n \in 1..Cardinality(picked) |-> items[CHOOSE k \in picked : rank[k] = n]]

\* The items in ascending order of their keys, equal ones in the order they had.
Precedes(keys, i, j) == keys[i] < keys[j] \/ (keys[i] = keys[j] /\ i < j)
\* The place of the item that n - 1 others precede.
PlaceOf(keys, n) ==
    CHOOSE j \in DOMAIN keys : Cardinality({i \in DOMAIN keys : Precedes(keys, i, j)}) = n - 1
SortedBy(items, keys) == [n \in DOMAIN items |-> items[PlaceOf(keys, n)]]
=============================================================================
