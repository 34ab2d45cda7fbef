------------------------- MODULE TransitionBatchProofs -------------------------
(***************************************************************************)
(* What holds of every batch, however it was planned, misstated and        *)
(* supplied.  The result is always the relation's verdict on the input     *)
(* that arrived, so the properties are theorems about the relation: a      *)
(* verdict at a stage means that every check of the stages before it       *)
(* holds, and the checks of a side of the batch, taken together, say that  *)
(* its notes share out its public cells.                                   *)
(***************************************************************************)
EXTENDS TransitionBatch, ListLemmas

(***************************************************************************)
(* Lists of checks.                                                        *)
(***************************************************************************)

\* A list whose failing checks are of the stages S.
ChecksOf(checks, S) ==
    /\ IsList(checks)
    /\ \A k \in DOMAIN checks : checks[k].fails => checks[k].stage \in S
AllPass(checks) == \A k \in DOMAIN checks : ~checks[k].fails

LEMMA IsListShape ==
  ASSUME NEW s, IsList(s)
  PROVE  /\ Len(s) \in Nat /\ DOMAIN s = 1..Len(s)
         /\ s = [k \in 1..Len(s) |-> s[k]]
         /\ s \in Seq(Range(s))
<1>1. s \in Seq(Range(s)) BY DEF IsList
<1> QED BY <1>1, ListShape

LEMMA IntervalIsList ==
  ASSUME NEW n \in Nat, NEW f, f = [k \in 1..n |-> f[k]]
  PROVE  IsList(f) /\ Len(f) = n /\ DOMAIN f = 1..n
BY FunctionIsList DEF IsList

LEMMA ListOfListIsList ==
  ASSUME NEW S, NEW s \in Seq(S)
  PROVE  IsList(s)
<1>1. Len(s) \in Nat /\ s = [k \in 1..Len(s) |-> s[k]] BY ListShape
<1> QED BY <1>1, IntervalIsList

LEMMA JoinedLists ==
  ASSUME NEW a, NEW b, IsList(a), IsList(b)
  PROVE  /\ IsList(a \o b)
         /\ Len(a \o b) = Len(a) + Len(b) /\ DOMAIN (a \o b) = 1..(Len(a) + Len(b))
         /\ \A k \in 1..(Len(a) + Len(b)) : (a \o b)[k] = IF k <= Len(a) THEN a[k] ELSE b[k - Len(a)]
<1> DEFINE S == Range(a) \cup Range(b)
           c == a \o b
<1>1. a \in Seq(S) /\ b \in Seq(S)
  <2>1. a \in Seq(Range(a)) /\ b \in Seq(Range(b)) BY DEF IsList
  <2> QED BY <2>1
<1> HIDE DEF S
<1>2. /\ c \in Seq(S) /\ Len(c) = Len(a) + Len(b)
      /\ \A k \in 1..(Len(a) + Len(b)) : c[k] = IF k <= Len(a) THEN a[k] ELSE b[k - Len(a)]
  BY <1>1, ConcatShape
<1> HIDE DEF c
<1>3. IsList(c) /\ DOMAIN c = 1..Len(c)
  <2>1. Len(c) \in Nat /\ DOMAIN c = 1..Len(c) BY <1>2, ListShape
  <2>2. IsList(c) BY <1>2, ListOfListIsList
  <2> QED BY <2>1, <2>2
<1> QED BY <1>2, <1>3 DEF c

LEMMA JoinedChecks ==
  ASSUME NEW a, NEW b, NEW S, ChecksOf(a, S), ChecksOf(b, S)
  PROVE  /\ ChecksOf(a \o b, S)
         /\ AllPass(a \o b) => AllPass(a) /\ AllPass(b)
<1> DEFINE c == a \o b
           m == Len(a)
           n == Len(b)
<1>1. IsList(a) /\ IsList(b) BY DEF ChecksOf
<1>2. m \in Nat /\ DOMAIN a = 1..m /\ n \in Nat /\ DOMAIN b = 1..n BY <1>1, IsListShape
<1>3. /\ IsList(c) /\ DOMAIN c = 1..(m + n)
      /\ \A k \in 1..(m + n) : c[k] = IF k <= m THEN a[k] ELSE b[k - m]
  BY <1>1, JoinedLists
<1> HIDE DEF c, m, n
<1>4. \A k \in 1..(m + n) : c[k].fails => c[k].stage \in S
  <2> SUFFICES ASSUME NEW k \in 1..(m + n), c[k].fails PROVE c[k].stage \in S OBVIOUS
  <2>1. CASE k <= m
    <3>1. k \in DOMAIN a /\ c[k] = a[k] BY <1>2, <1>3, <2>1
    <3> QED BY <3>1 DEF ChecksOf
  <2>2. CASE ~(k <= m)
    <3>1. k - m \in DOMAIN b /\ c[k] = b[k - m] BY <1>2, <1>3, <2>2
    <3> QED BY <3>1 DEF ChecksOf
  <2> QED BY <2>1, <2>2
<1>5. ASSUME AllPass(c) PROVE AllPass(a) /\ AllPass(b)
  <2>1. ASSUME NEW k \in DOMAIN a PROVE ~a[k].fails
    <3>1. k \in 1..(m + n) /\ k <= m BY <1>2
    <3>2. c[k] = a[k] /\ ~c[k].fails BY <1>3, <1>5, <3>1 DEF AllPass
    <3> QED BY <3>2
  <2>2. ASSUME NEW k \in DOMAIN b PROVE ~b[k].fails
    <3>1. m + k \in 1..(m + n) /\ ~(m + k <= m) /\ (m + k) - m = k BY <1>2
    <3>2. c[m + k] = b[(m + k) - m] /\ ~c[m + k].fails BY <1>3, <1>5, <3>1 DEF AllPass
    <3>3. c[m + k] = b[k] BY <3>1, <3>2
    <3> QED BY <3>2, <3>3
  <2> QED BY <2>1, <2>2 DEF AllPass
<1> QED BY <1>3, <1>4, <1>5 DEF ChecksOf, c

\* The checks of every item of a collection.
LEMMA FlattenedChecks ==
  ASSUME NEW n \in Nat, NEW lists, lists = [k \in 1..n |-> lists[k]], NEW S,
         \A k \in 1..n : ChecksOf(lists[k], S)
  PROVE  /\ ChecksOf(FlattenSeq(lists), S)
         /\ AllPass(FlattenSeq(lists)) => \A k \in 1..n : AllPass(lists[k])
<1> DEFINE All == UNION {Range(lists[k]) : k \in 1..n}
           Good == {c \in All : c.fails => c.stage \in S}
           flat == FlattenSeq(lists)
<1>1. \A k \in 1..n : lists[k] \in Seq(Good)
  <2> SUFFICES ASSUME NEW k \in 1..n PROVE lists[k] \in Seq(Good) OBVIOUS
  <2> DEFINE s == lists[k]
  <2>1. IsList(s) /\ \A j \in DOMAIN s : s[j].fails => s[j].stage \in S BY DEF ChecksOf
  <2>2. Len(s) \in Nat /\ DOMAIN s = 1..Len(s) /\ s = [j \in 1..Len(s) |-> s[j]] BY <2>1, IsListShape
  <2>3. \A j \in 1..Len(s) : s[j] \in Good
    <3> SUFFICES ASSUME NEW j \in 1..Len(s) PROVE s[j] \in Good OBVIOUS
    <3>1. s[j] \in Range(s) BY <2>2 DEF Range
    <3>2. s[j] \in All BY <3>1
    <3> QED BY <2>1, <2>2, <3>2
  <2> HIDE DEF s, Good
  <2>4. s \in [1..Len(s) -> Good] BY <2>2, <2>3
  <2>5. s \in Seq(Good) BY <2>2, <2>4
  <2> QED BY <2>5 DEF s
<1> HIDE DEF All, Good
<1>2. lists \in Seq(Seq(Good)) /\ Len(lists) = n
  <2>1. lists \in [1..n -> Seq(Good)] BY <1>1
  <2> QED BY <2>1, FunctionIsListOf
<1>3. flat \in Seq(Good) BY <1>2, FlattenedType
<1>4. ChecksOf(flat, S)
  <2> HIDE DEF flat
  <2>1. IsList(flat) BY <1>3, ListOfListIsList
  <2>2. DOMAIN flat = 1..Len(flat) /\ \A k \in 1..Len(flat) : flat[k] \in Good BY <1>3, ListShape
  <2> QED BY <2>1, <2>2 DEF ChecksOf, Good
<1>5. ASSUME AllPass(flat), NEW k \in 1..n PROVE AllPass(lists[k])
  <2> SUFFICES ASSUME NEW j \in DOMAIN lists[k] PROVE ~lists[k][j].fails BY DEF AllPass
  <2>1. j \in 1..Len(lists[k])
    <3>1. lists[k] \in Seq(Good) BY <1>1
    <3> DEFINE s == lists[k]
    <3>2. DOMAIN s = 1..Len(s)
      <4> HIDE DEF s
      <4>1. s \in Seq(Good) BY <3>1 DEF s
      <4> QED BY <4>1, ListShape
    <3> QED BY <3>2
  <2>2. /\ Before(lists, k) + j \in 1..Len(flat)
        /\ flat[Before(lists, k) + j] = lists[k][j]
    BY <1>2, <2>1, FlattenedItem
  <2>3. DOMAIN flat = 1..Len(flat)
    <3> HIDE DEF flat
    <3> QED BY <1>3, ListShape
  <2> QED BY <1>5, <2>2, <2>3 DEF AllPass
<1> QED BY <1>4, <1>5
\* A failing check of a list ends the evaluation, at one of the stages of the list.
LEMMA FirstFailureStages ==
  ASSUME NEW checks, NEW S, ChecksOf(checks, S), NEW later
  PROVE  \/ AllPass(checks) /\ FirstFailure(checks, later) = later
         \/ ~AllPass(checks) /\ FirstFailure(checks, later).stage \in S
<1> DEFINE I == {k \in 1..Len(checks) : checks[k].fails}
<1>1. Len(checks) \in Nat /\ DOMAIN checks = 1..Len(checks) BY IsListShape DEF ChecksOf
<1>2. CASE I = {}
  <2>1. \A k \in DOMAIN checks : ~checks[k].fails BY <1>1, <1>2
  <2> QED BY <2>1 DEF AllPass, FirstFailure
<1>3. CASE I # {}
  <2>1. I \subseteq Nat OBVIOUS
  <2>2. \E m \in I : \A n \in I : m <= n
    <3> HIDE DEF I
    <3> QED BY <1>3, <2>1, LeastElement
  <2>3. Min(I) \in I
    <3> HIDE DEF I
    <3> QED BY <2>2 DEF Min
  <2>4. SelectInSeq(checks, LAMBDA c : c.fails) = Min(I) BY <1>3 DEF SelectInSeq
  <2>5. checks[Min(I)].fails /\ Min(I) \in DOMAIN checks BY <1>1, <2>3
  <2>6. FirstFailure(checks, later) = [stage |-> checks[Min(I)].stage, code |-> checks[Min(I)].code]
    BY <2>4, <2>5 DEF FirstFailure
  <2>7. checks[Min(I)].stage \in S BY <2>5 DEF ChecksOf
  <2> HIDE DEF I
  <2> QED BY <2>5, <2>6, <2>7 DEF AllPass
<1> QED BY <1>2, <1>3

LEMMA OneCheck ==
  ASSUME NEW c, NEW S, c.fails => c.stage \in S
  PROVE  ChecksOf(<<c>>, S) /\ (AllPass(<<c>>) => ~c.fails)
<1>1. IsList(<<c>>)
  <2>1. <<c>> \in Seq({c}) OBVIOUS
  <2> QED BY <2>1, ListOfListIsList
<1> QED BY <1>1 DEF ChecksOf, AllPass

LEMMA TwoChecks ==
  ASSUME NEW c, NEW d, NEW S, c.fails => c.stage \in S, d.fails => d.stage \in S
  PROVE  ChecksOf(<<c, d>>, S) /\ (AllPass(<<c, d>>) => ~c.fails /\ ~d.fails)
<1> DEFINE t == <<c, d>>
<1>1. IsList(t)
  <2>1. t \in Seq({c, d}) OBVIOUS
  <2> QED BY <2>1, ListOfListIsList
<1>2. DOMAIN t = {1, 2} /\ t[1] = c /\ t[2] = d OBVIOUS
<1> HIDE DEF t
<1> QED BY <1>1, <1>2 DEF ChecksOf, AllPass, t

LEMMA ThreeChecks ==
  ASSUME NEW c, NEW d, NEW e, NEW S,
         c.fails => c.stage \in S, d.fails => d.stage \in S, e.fails => e.stage \in S
  PROVE  /\ ChecksOf(<<c, d, e>>, S)
         /\ AllPass(<<c, d, e>>) => ~c.fails /\ ~d.fails /\ ~e.fails
<1> DEFINE t == <<c, d, e>>
<1>1. IsList(t)
  <2>1. t \in Seq({c, d, e}) OBVIOUS
  <2> QED BY <2>1, ListOfListIsList
<1>2. DOMAIN t = {1, 2, 3} /\ t[1] = c /\ t[2] = d /\ t[3] = e OBVIOUS
<1> HIDE DEF t
<1> QED BY <1>1, <1>2 DEF ChecksOf, AllPass, t

LEMMA FourChecks ==
  ASSUME NEW c, NEW d, NEW e, NEW f, NEW S,
         c.fails => c.stage \in S, d.fails => d.stage \in S, e.fails => e.stage \in S,
         f.fails => f.stage \in S
  PROVE  /\ ChecksOf(<<c, d, e, f>>, S)
         /\ AllPass(<<c, d, e, f>>) => ~c.fails /\ ~d.fails /\ ~e.fails /\ ~f.fails
<1> DEFINE t == <<c, d, e, f>>
<1>1. IsList(t)
  <2>1. t \in Seq({c, d, e, f}) OBVIOUS
  <2> QED BY <2>1, ListOfListIsList
<1>2. DOMAIN t = {1, 2, 3, 4} /\ t[1] = c /\ t[2] = d /\ t[3] = e /\ t[4] = f OBVIOUS
<1> HIDE DEF t
<1> QED BY <1>1, <1>2 DEF ChecksOf, AllPass, t

LEMMA FiveChecks ==
  ASSUME NEW c, NEW d, NEW e, NEW f, NEW g, NEW S,
         c.fails => c.stage \in S, d.fails => d.stage \in S, e.fails => e.stage \in S,
         f.fails => f.stage \in S, g.fails => g.stage \in S
  PROVE  /\ ChecksOf(<<c, d, e, f, g>>, S)
         /\ AllPass(<<c, d, e, f, g>>) => ~c.fails /\ ~d.fails /\ ~e.fails /\ ~f.fails /\ ~g.fails
<1> DEFINE t == <<c, d, e, f, g>>
<1>1. IsList(t)
  <2>1. t \in Seq({c, d, e, f, g}) OBVIOUS
  <2> QED BY <2>1, ListOfListIsList
<1>2. DOMAIN t = {1, 2, 3, 4, 5} /\ t[1] = c /\ t[2] = d /\ t[3] = e /\ t[4] = f /\ t[5] = g
  OBVIOUS
<1> HIDE DEF t
<1> QED BY <1>1, <1>2 DEF ChecksOf, AllPass, t

LEMMA SixChecks ==
  ASSUME NEW c, NEW d, NEW e, NEW f, NEW g, NEW h, NEW S,
         c.fails => c.stage \in S, d.fails => d.stage \in S, e.fails => e.stage \in S,
         f.fails => f.stage \in S, g.fails => g.stage \in S, h.fails => h.stage \in S
  PROVE  /\ ChecksOf(<<c, d, e, f, g, h>>, S)
         /\ AllPass(<<c, d, e, f, g, h>>) =>
               ~c.fails /\ ~d.fails /\ ~e.fails /\ ~f.fails /\ ~g.fails /\ ~h.fails
<1> DEFINE t == <<c, d, e, f, g, h>>
<1>1. IsList(t)
  <2>1. t \in Seq({c, d, e, f, g, h}) OBVIOUS
  <2> QED BY <2>1, ListOfListIsList
<1>2. /\ DOMAIN t = {1, 2, 3, 4, 5, 6}
      /\ t[1] = c /\ t[2] = d /\ t[3] = e /\ t[4] = f /\ t[5] = g /\ t[6] = h
  OBVIOUS
<1> HIDE DEF t
<1> QED BY <1>1, <1>2 DEF ChecksOf, AllPass, t

\* A list of checks all of one stage is of that stage, whatever they say.
LEMMA CountedChecks ==
  ASSUME NEW a, NEW b, NEW stage, NEW missing, NEW extra, NEW S, stage \in S
  PROVE  /\ ChecksOf(CountChecks(a, b, stage, missing, extra), S)
         /\ AllPass(CountChecks(a, b, stage, missing, extra)) => ~(a < b) /\ ~(a > b)
<1> DEFINE c == Check(a < b, stage, missing)
           d == Check(a > b, stage, extra)
<1>1. c.stage = stage /\ d.stage = stage /\ (c.fails <=> a < b) /\ (d.fails <=> a > b) BY DEF Check
<1>2. CountChecks(a, b, stage, missing, extra) = <<c, d>> BY DEF CountChecks
<1> HIDE DEF c, d
<1> QED BY <1>1, <1>2, TwoChecks
LEMMA JoinedThree ==
  ASSUME NEW a, NEW b, NEW c, NEW S, ChecksOf(a, S), ChecksOf(b, S), ChecksOf(c, S)
  PROVE  /\ ChecksOf(a \o b \o c, S)
         /\ AllPass(a \o b \o c) => AllPass(a) /\ AllPass(b) /\ AllPass(c)
<1>1. ChecksOf(a \o b, S) /\ (AllPass(a \o b) => AllPass(a) /\ AllPass(b)) BY JoinedChecks
<1>2. /\ ChecksOf(a \o b \o c, S)
      /\ AllPass(a \o b \o c) => AllPass(a \o b) /\ AllPass(c)
  BY <1>1, JoinedChecks
<1> QED BY <1>1, <1>2

LEMMA JoinedFour ==
  ASSUME NEW a, NEW b, NEW c, NEW d, NEW S,
         ChecksOf(a, S), ChecksOf(b, S), ChecksOf(c, S), ChecksOf(d, S)
  PROVE  /\ ChecksOf(a \o b \o c \o d, S)
         /\ AllPass(a \o b \o c \o d) => AllPass(a) /\ AllPass(b) /\ AllPass(c) /\ AllPass(d)
<1>1. /\ ChecksOf(a \o b \o c, S)
      /\ AllPass(a \o b \o c) => AllPass(a) /\ AllPass(b) /\ AllPass(c)
  BY JoinedThree
<1>2. /\ ChecksOf(a \o b \o c \o d, S)
      /\ AllPass(a \o b \o c \o d) => AllPass(a \o b \o c) /\ AllPass(d)
  BY <1>1, JoinedChecks
<1> QED BY <1>1, <1>2

(***************************************************************************)
(* An input that parses.                                                   *)
(***************************************************************************)

LEMMA InputLists ==
  ASSUME NEW i, InputParses(i)
  PROVE  /\ IsList(i.consumed) /\ IsList(i.created)
         /\ IsList(i.consumedCells) /\ IsList(i.createdCells)
         /\ IsList(i.exits) /\ IsList(i.authorities) /\ IsList(i.nullifiers) /\ IsList(i.recovery)
BY DEF InputParses

LEMMA StatementLists ==
  ASSUME NEW st, NEW p, StatementParses(st, p)
  PROVE  /\ IsList(st.consumed) /\ IsList(st.created)
         /\ IsList(st.consumedCells) /\ IsList(st.createdCells)
         /\ IsList(st.inputs) /\ IsList(st.outputs)
BY DEF StatementParses, CollectionsAreLists

LEMMA BundlesParse ==
  ASSUME NEW i, InputParses(i)
  PROVE  /\ \A k \in DOMAIN i.consumed : /\ NoteParses(i.consumed[k].note)
                                         /\ BundleParses(i.consumed[k].bundle)
         /\ \A k \in DOMAIN i.created : /\ NoteParses(i.created[k].note)
                                        /\ BundleParses(i.created[k].bundle)
<1>1. \A k \in DOMAIN i.consumed : i.consumed[k] \in ToSet(i.consumed) \cup ToSet(i.created)
  BY DEF ToSet
<1>2. \A k \in DOMAIN i.created : i.created[k] \in ToSet(i.consumed) \cup ToSet(i.created)
  BY DEF ToSet
<1>3. \A w \in ToSet(i.consumed) \cup ToSet(i.created) : NoteParses(w.note) /\ BundleParses(w.bundle)
  BY DEF InputParses
<1> QED BY <1>1, <1>2, <1>3

(***************************************************************************)
(* The checks of the stages, one lemma for each: which stages they end at, *)
(* and what is known when they all hold.                                   *)
(***************************************************************************)

\* A note is the one its witness names, and is backed by the bundle beside it.
NoteIsOpened(w) == BundleCommitment(w.bundle) = w.note.bundle /\ NoteCommitment(w.note) = w.id

LEMMA OpeningStage ==
  ASSUME NEW items, IsList(items), NEW mismatch
  PROVE  /\ ChecksOf(OpeningChecks(items, mismatch), {"witness-identity"})
         /\ AllPass(OpeningChecks(items, mismatch)) => \A k \in DOMAIN items : NoteIsOpened(items[k])
<1> DEFINE lists == [k \in DOMAIN items |-> OpeningItemChecks(items[k], mismatch)]
           S == {"witness-identity"}
<1>1. \A k \in DOMAIN items : ChecksOf(lists[k], S) /\ (AllPass(lists[k]) => NoteIsOpened(items[k]))
  <2> SUFFICES ASSUME NEW k \in DOMAIN items
               PROVE  ChecksOf(lists[k], S) /\ (AllPass(lists[k]) => NoteIsOpened(items[k]))
    OBVIOUS
  <2> DEFINE w == items[k]
             c == Check(BundleCommitment(w.bundle) # w.note.bundle,
                        "witness-identity", "logical-note-bundle-commitment-mismatch")
             d == Check(NoteCommitment(w.note) # w.id, "witness-identity", mismatch)
  <2>1. c.stage \in S /\ d.stage \in S BY DEF Check
  <2>2. lists[k] = <<c, d>> BY DEF OpeningItemChecks
  <2>3. ~c.fails /\ ~d.fails => NoteIsOpened(w) BY DEF Check, NoteIsOpened
  <2> HIDE DEF c, d, lists, S, w
  <2>4. ChecksOf(<<c, d>>, S) /\ (AllPass(<<c, d>>) => ~c.fails /\ ~d.fails) BY <2>1, TwoChecks
  <2> QED BY <2>2, <2>3, <2>4 DEF w
<1>2. Len(items) \in Nat /\ DOMAIN items = 1..Len(items) BY IsListShape
<1>3. lists = [k \in 1..Len(items) |-> lists[k]] BY <1>2
<1>4. OpeningChecks(items, mismatch) = FlattenSeq(lists) BY DEF OpeningChecks, ForEach
<1> HIDE DEF lists, S
<1>5. ChecksOf(FlattenSeq(lists), S) /\ (AllPass(FlattenSeq(lists)) => \A k \in 1..Len(items) : AllPass(lists[k]))
  BY <1>1, <1>2, <1>3, FlattenedChecks
<1> QED BY <1>1, <1>2, <1>4, <1>5 DEF S

\* The notes opened on each side are those the statement names, each once.
NotesMatch(notes, tuples) ==
    /\ Distinct(IdsOf(notes)) /\ Len(notes) = Len(tuples)
    /\ ToSet(IdsOf(notes)) \subseteq PublicNotes(tuples)

\* The witnesses of notes and cells are for this statement.
WitnessesAreBound(i) ==
    /\ Bound(i.consumed, i) /\ Bound(i.created, i)
    /\ Bound(i.consumedCells, i) /\ Bound(i.createdCells, i)

LEMMA LogicalStage ==
  ASSUME NEW i, InputParses(i)
  PROVE  /\ ChecksOf(LogicalChecks(i), {"witness-identity"})
         /\ AllPass(LogicalChecks(i)) =>
               /\ WitnessesAreBound(i)
               /\ NotesMatch(i.consumed, i.statement.consumed) /\ NotesMatch(i.created, i.statement.created)
               /\ \A k \in DOMAIN i.consumed : NoteIsOpened(i.consumed[k]) /\ i.consumed[k].note.asset = AssetId
               /\ \A k \in DOMAIN i.created : NoteIsOpened(i.created[k]) /\ i.created[k].note.asset = AssetId
<1> DEFINE st == i.statement
           S == {"witness-identity"}
           c1 == Check(~(/\ Bound(i.consumed, i) /\ Bound(i.created, i)
                         /\ Bound(i.consumedCells, i) /\ Bound(i.createdCells, i)),
                       "witness-identity", "witness-statement-commitment-mismatch")
           c2 == Check(~Distinct(IdsOf(i.consumed)) \/ ~Distinct(IdsOf(i.created)),
                       "witness-identity", "duplicate-logical-note-witness-identity")
           c3 == Check(\/ ~ToSet(IdsOf(i.consumed)) \subseteq PublicNotes(st.consumed)
                       \/ ~ToSet(IdsOf(i.created)) \subseteq PublicNotes(st.created),
                       "witness-identity", "logical-note-commitment-identity-mismatch")
           c4 == Check(~(AssetsOf(i.consumed) \cup AssetsOf(i.created)) \subseteq {AssetId},
                       "witness-identity", "non-canonical-asset-id")
           c5 == Check(~AssetsOf(i.created) \subseteq AssetsOf(i.consumed),
                       "witness-identity", "consumed-created-asset-id-mismatch")
           n1 == CountChecks(Len(i.consumed), Len(st.consumed), "witness-identity",
                             "missing-consumed-logical-note-witness", "extra-consumed-logical-note-witness")
           n2 == CountChecks(Len(i.created), Len(st.created), "witness-identity",
                             "missing-created-logical-note-witness", "extra-created-logical-note-witness")
           o1 == OpeningChecks(i.consumed, "consumed-logical-note-opening-commitment-mismatch")
           o2 == OpeningChecks(i.created, "created-logical-note-opening-commitment-mismatch")
<1>1. LogicalChecks(i) = <<c1, c2>> \o n1 \o n2 \o <<c3>> \o o1 \o o2 \o <<c4, c5>>
  BY DEF LogicalChecks
<1>2. c1.stage \in S /\ c2.stage \in S /\ c3.stage \in S /\ c4.stage \in S /\ c5.stage \in S
  BY DEF Check
<1>3. /\ ~c1.fails => WitnessesAreBound(i)
      /\ ~c2.fails => Distinct(IdsOf(i.consumed)) /\ Distinct(IdsOf(i.created))
      /\ ~c3.fails => /\ ToSet(IdsOf(i.consumed)) \subseteq PublicNotes(st.consumed)
                      /\ ToSet(IdsOf(i.created)) \subseteq PublicNotes(st.created)
      /\ ~c4.fails => (AssetsOf(i.consumed) \cup AssetsOf(i.created)) \subseteq {AssetId}
  BY DEF Check, WitnessesAreBound
<1>4. /\ Len(i.consumed) \in Nat /\ Len(st.consumed) \in Nat
      /\ Len(i.created) \in Nat /\ Len(st.created) \in Nat
  <2>1. IsList(i.consumed) /\ IsList(i.created) BY InputLists
  <2>2. IsList(st.consumed) /\ IsList(st.created)
    <3>1. StatementParses(st, i.profile) BY DEF InputParses
    <3> QED BY <3>1, StatementLists
  <2> HIDE DEF st
  <2> QED BY <2>1, <2>2, IsListShape
<1>5. /\ ChecksOf(o1, S) /\ (AllPass(o1) => \A k \in DOMAIN i.consumed : NoteIsOpened(i.consumed[k]))
      /\ ChecksOf(o2, S) /\ (AllPass(o2) => \A k \in DOMAIN i.created : NoteIsOpened(i.created[k]))
  BY InputLists, OpeningStage
<1>6. /\ ChecksOf(n1, S) /\ (AllPass(n1) => Len(i.consumed) = Len(st.consumed))
      /\ ChecksOf(n2, S) /\ (AllPass(n2) => Len(i.created) = Len(st.created))
  <2>1. "witness-identity" \in S OBVIOUS
  <2> HIDE DEF S
  <2>2. ChecksOf(n1, S) /\ (AllPass(n1) => ~(Len(i.consumed) < Len(st.consumed)) /\ ~(Len(i.consumed) > Len(st.consumed)))
    BY <2>1, CountedChecks
  <2>3. ChecksOf(n2, S) /\ (AllPass(n2) => ~(Len(i.created) < Len(st.created)) /\ ~(Len(i.created) > Len(st.created)))
    BY <2>1, CountedChecks
  <2> HIDE DEF n1, n2, st
  <2> QED BY <1>4, <2>2, <2>3
<1> HIDE DEF c1, c2, c3, c4, c5, n1, n2, o1, o2, S
<1>7. /\ ChecksOf(<<c1, c2>>, S) /\ (AllPass(<<c1, c2>>) => ~c1.fails /\ ~c2.fails)
      /\ ChecksOf(<<c3>>, S) /\ (AllPass(<<c3>>) => ~c3.fails)
      /\ ChecksOf(<<c4, c5>>, S) /\ (AllPass(<<c4, c5>>) => ~c4.fails)
  BY <1>2, OneCheck, TwoChecks
<1> DEFINE first == <<c1, c2>> \o n1 \o n2 \o <<c3>>
<1>8. /\ ChecksOf(first, S)
      /\ AllPass(first) => AllPass(<<c1, c2>>) /\ AllPass(n1) /\ AllPass(n2) /\ AllPass(<<c3>>)
  BY <1>6, <1>7, JoinedFour
<1>9. LogicalChecks(i) = first \o o1 \o o2 \o <<c4, c5>> BY <1>1
<1> HIDE DEF first
<1>10. /\ ChecksOf(LogicalChecks(i), S)
       /\ AllPass(LogicalChecks(i)) =>
             AllPass(first) /\ AllPass(o1) /\ AllPass(o2) /\ AllPass(<<c4, c5>>)
  BY <1>5, <1>7, <1>8, <1>9, JoinedFour
<1>11. ASSUME AllPass(LogicalChecks(i))
       PROVE  /\ WitnessesAreBound(i)
              /\ NotesMatch(i.consumed, st.consumed) /\ NotesMatch(i.created, st.created)
  BY <1>3, <1>6, <1>7, <1>8, <1>10, <1>11 DEF NotesMatch
<1>12. ASSUME AllPass(LogicalChecks(i))
       PROVE  /\ \A k \in DOMAIN i.consumed : NoteIsOpened(i.consumed[k]) /\ i.consumed[k].note.asset = AssetId
              /\ \A k \in DOMAIN i.created : NoteIsOpened(i.created[k]) /\ i.created[k].note.asset = AssetId
  <2>1. /\ \A k \in DOMAIN i.consumed : i.consumed[k].note.asset \in AssetsOf(i.consumed)
        /\ \A k \in DOMAIN i.created : i.created[k].note.asset \in AssetsOf(i.created)
    BY DEF AssetsOf
  <2>2. (AssetsOf(i.consumed) \cup AssetsOf(i.created)) \subseteq {AssetId} BY <1>3, <1>7, <1>10, <1>12
  <2>3. /\ \A k \in DOMAIN i.consumed : i.consumed[k].note.asset = AssetId
        /\ \A k \in DOMAIN i.created : i.created[k].note.asset = AssetId
    BY <2>1, <2>2
  <2> QED BY <1>5, <1>10, <1>12, <2>3
<1> QED BY <1>10, <1>11, <1>12 DEF S
\* The opening of a cell is worth what the transaction says at its index.
ValueIsProjected(w, projected) ==
    Has(projected, w.index) /\ w.opening.value = At(projected, w.index).value

\* The opening of a cell opens the public cell it names.
CellIsPublic(w, tuples) ==
    LET public == PublicCell(tuples, w.index)
    IN  /\ public # <<>>
        /\ w.cell = public[1].cell /\ w.opening.profile = public[1].profile
        /\ CellCommitment(w.opening) = w.cell

LEMMA CellOpeningStage ==
  ASSUME NEW w, NEW tuples, NEW projected, NEW valueCode, NEW S, "witness-identity" \in S
  PROVE  /\ ChecksOf(CellOpeningChecks(w, tuples, projected, valueCode), S)
         /\ AllPass(CellOpeningChecks(w, tuples, projected, valueCode)) =>
               /\ Has(projected, w.index) => ValueIsProjected(w, projected)
               /\ PublicCell(tuples, w.index) # <<>> => CellIsPublic(w, tuples)
<1> DEFINE public == PublicCell(tuples, w.index)
           named == public # <<>>
           c1 == Check(named /\ w.cell # public[1].cell,
                       "witness-identity", "backing-cell-seal-commitment-mismatch")
           c2 == Check(named /\ w.opening.profile # public[1].profile,
                       "witness-identity", "backing-cell-locking-profile-mismatch")
           c3 == Check(CellCommitment(w.opening) # w.cell,
                       "witness-identity", "backing-cell-opening-commitment-mismatch")
           c4 == Check(Has(projected, w.index) /\ w.opening.value # At(projected, w.index).value,
                       "witness-identity", valueCode)
<1>1. CellOpeningChecks(w, tuples, projected, valueCode) = <<c1, c2, c3, c4>> BY DEF CellOpeningChecks
<1>2. c1.stage \in S /\ c2.stage \in S /\ c3.stage \in S /\ c4.stage \in S BY DEF Check
<1>3. /\ ~c4.fails /\ Has(projected, w.index) => ValueIsProjected(w, projected)
      /\ ~c1.fails /\ ~c2.fails /\ ~c3.fails /\ named => CellIsPublic(w, tuples)
  BY DEF Check, ValueIsProjected, CellIsPublic
<1> HIDE DEF c1, c2, c3, c4
<1>4. /\ ChecksOf(<<c1, c2, c3, c4>>, S)
      /\ AllPass(<<c1, c2, c3, c4>>) => ~c1.fails /\ ~c2.fails /\ ~c3.fails /\ ~c4.fails
  BY <1>2, FourChecks
<1> QED BY <1>1, <1>3, <1>4

CellStages == {"witness-identity", "consumed-bundle", "created-bundle"}

\* What the checks of a cell say of it.
ConsumedCellHolds(i, w) ==
    /\ ValueIsProjected(w, i.statement.inputs) /\ CellIsPublic(w, i.statement.consumedCells)
    /\ w.source = At(i.statement.inputs, w.index).outpoint
CreatedCellHolds(i, w) ==
    /\ ValueIsProjected(w, i.statement.outputs) /\ CellIsPublic(w, i.statement.createdCells)
    /\ w.opening.slot = w.index /\ w.opening.scope = i.statement.scope

LEMMA ConsumedCellStage ==
  ASSUME NEW i, IsList(i.consumedCells)
  PROVE  /\ ChecksOf(ConsumedCellChecks(i), CellStages)
         /\ AllPass(ConsumedCellChecks(i)) =>
               \A k \in DOMAIN i.consumedCells : ConsumedCellHolds(i, i.consumedCells[k])
<1> DEFINE cells == i.consumedCells
           inputs == i.statement.inputs
           lists == [k \in DOMAIN cells |-> ConsumedCellItemChecks(i, cells[k])]
<1>1. \A k \in DOMAIN cells :
         /\ ChecksOf(lists[k], CellStages)
         /\ AllPass(lists[k]) => ConsumedCellHolds(i, cells[k])
  <2> SUFFICES ASSUME NEW k \in DOMAIN cells
               PROVE  /\ ChecksOf(lists[k], CellStages)
                      /\ AllPass(lists[k]) => ConsumedCellHolds(i, cells[k])
    OBVIOUS
  <2> DEFINE w == cells[k]
             projected == Has(inputs, w.index)
             c1 == Check(~projected, "witness-identity", "consumed-backing-cell-input-index-mismatch")
             c2 == Check(projected /\ At(inputs, w.index).outpoint # w.source,
                         "witness-identity", "consumed-backing-cell-source-outpoint-mismatch")
             c3 == Check(projected /\ At(inputs, w.index).role = "verifier-only",
                         "consumed-bundle", "verifier-input-used-as-backing")
             c4 == Check(PublicCell(i.statement.consumedCells, w.index) = <<>>,
                         "consumed-bundle", "bundle-cell-extra")
             o == CellOpeningChecks(w, i.statement.consumedCells, inputs, "consumed-cell-value-mismatch")
  <2>1. lists[k] = <<c1, c2, c3, c4>> \o o BY DEF ConsumedCellItemChecks
  <2>2. c1.stage \in CellStages /\ c2.stage \in CellStages /\ c3.stage \in CellStages /\ c4.stage \in CellStages
    BY DEF Check, CellStages
  <2>3. /\ ~c1.fails => projected
        /\ ~c1.fails /\ ~c2.fails => w.source = At(inputs, w.index).outpoint
        /\ ~c4.fails => PublicCell(i.statement.consumedCells, w.index) # <<>>
    BY DEF Check
  <2>4. /\ ChecksOf(o, CellStages)
        /\ AllPass(o) => /\ projected => ValueIsProjected(w, inputs)
                         /\ PublicCell(i.statement.consumedCells, w.index) # <<>> =>
                               CellIsPublic(w, i.statement.consumedCells)
    <3>1. "witness-identity" \in CellStages BY DEF CellStages
    <3> HIDE DEF w, inputs
    <3> QED BY <3>1, CellOpeningStage
  <2> HIDE DEF c1, c2, c3, c4, o, projected
  <2>5. /\ ChecksOf(<<c1, c2, c3, c4>>, CellStages)
        /\ AllPass(<<c1, c2, c3, c4>>) => ~c1.fails /\ ~c2.fails /\ ~c4.fails
    BY <2>2, FourChecks
  <2> DEFINE t == <<c1, c2, c3, c4>>
  <2>6. lists[k] = t \o o BY <2>1
  <2>7. ChecksOf(t, CellStages) /\ (AllPass(t) => ~c1.fails /\ ~c2.fails /\ ~c4.fails) BY <2>5
  <2>10. /\ ValueIsProjected(w, inputs) /\ CellIsPublic(w, i.statement.consumedCells)
        /\ w.source = At(inputs, w.index).outpoint
        => ConsumedCellHolds(i, cells[k])
    BY DEF ConsumedCellHolds
  <2> HIDE DEF t, lists, w, inputs
  <2>8. ChecksOf(t \o o, CellStages) /\ (AllPass(t \o o) => AllPass(t) /\ AllPass(o))
    BY <2>4, <2>7, JoinedChecks
  <2> QED BY <2>3, <2>4, <2>6, <2>7, <2>8, <2>10
<1>2. Len(cells) \in Nat /\ DOMAIN cells = 1..Len(cells) BY IsListShape
<1>3. lists = [k \in 1..Len(cells) |-> lists[k]] BY <1>2
<1>4. ConsumedCellChecks(i) = FlattenSeq(lists) BY DEF ConsumedCellChecks, ForEach
<1> HIDE DEF lists, cells, inputs
<1>5. /\ ChecksOf(FlattenSeq(lists), CellStages)
      /\ AllPass(FlattenSeq(lists)) => \A k \in 1..Len(cells) : AllPass(lists[k])
  BY <1>1, <1>2, <1>3, FlattenedChecks
<1> QED BY <1>1, <1>2, <1>4, <1>5 DEF cells, inputs

LEMMA CreatedCellStage ==
  ASSUME NEW i, IsList(i.createdCells)
  PROVE  /\ ChecksOf(CreatedCellChecks(i), CellStages)
         /\ AllPass(CreatedCellChecks(i)) =>
               \A k \in DOMAIN i.createdCells : CreatedCellHolds(i, i.createdCells[k])
<1> DEFINE cells == i.createdCells
           outputs == i.statement.outputs
           lists == [k \in DOMAIN cells |-> CreatedCellItemChecks(i, cells[k])]
<1>1. \A k \in DOMAIN cells :
         /\ ChecksOf(lists[k], CellStages)
         /\ AllPass(lists[k]) => CreatedCellHolds(i, cells[k])
  <2> SUFFICES ASSUME NEW k \in DOMAIN cells
               PROVE  /\ ChecksOf(lists[k], CellStages)
                      /\ AllPass(lists[k]) => CreatedCellHolds(i, cells[k])
    OBVIOUS
  <2> DEFINE w == cells[k]
             role == IF Has(outputs, w.index) THEN At(outputs, w.index).role ELSE "none"
             c1 == Check(role = "none", "witness-identity", "created-backing-cell-output-index-mismatch")
             c2 == Check(role # "private-backing", "created-bundle", MisusedOutput(role))
             c3 == Check(PublicCell(i.statement.createdCells, w.index) = <<>>,
                         "created-bundle", "bundle-cell-extra")
             c4 == Check(w.opening.slot # w.index,
                         "witness-identity", "created-backing-cell-output-index-mismatch")
             c5 == Check(w.opening.scope # i.statement.scope,
                         "witness-identity", "created-backing-cell-creation-scope-mismatch")
             o == CellOpeningChecks(w, i.statement.createdCells, outputs, "created-cell-value-mismatch")
  <2>1. lists[k] = <<c1, c2, c3, c4, c5>> \o o BY DEF CreatedCellItemChecks
  <2>2. /\ c1.stage \in CellStages /\ c2.stage \in CellStages /\ c3.stage \in CellStages
        /\ c4.stage \in CellStages /\ c5.stage \in CellStages
    BY DEF Check, CellStages
  <2>3. /\ ~c1.fails => Has(outputs, w.index)
        /\ ~c3.fails => PublicCell(i.statement.createdCells, w.index) # <<>>
        /\ ~c4.fails => w.opening.slot = w.index
        /\ ~c5.fails => w.opening.scope = i.statement.scope
    BY DEF Check
  <2>4. /\ ChecksOf(o, CellStages)
        /\ AllPass(o) => /\ Has(outputs, w.index) => ValueIsProjected(w, outputs)
                         /\ PublicCell(i.statement.createdCells, w.index) # <<>> =>
                               CellIsPublic(w, i.statement.createdCells)
    <3>1. "witness-identity" \in CellStages BY DEF CellStages
    <3> HIDE DEF w, outputs
    <3> QED BY <3>1, CellOpeningStage
  <2> HIDE DEF c1, c2, c3, c4, c5, o, role
  <2>5. /\ ChecksOf(<<c1, c2, c3, c4, c5>>, CellStages)
        /\ AllPass(<<c1, c2, c3, c4, c5>>) => ~c1.fails /\ ~c3.fails /\ ~c4.fails /\ ~c5.fails
    BY <2>2, FiveChecks
  <2> DEFINE t == <<c1, c2, c3, c4, c5>>
  <2>6. lists[k] = t \o o BY <2>1
  <2>7. ChecksOf(t, CellStages) /\ (AllPass(t) => ~c1.fails /\ ~c3.fails /\ ~c4.fails /\ ~c5.fails) BY <2>5
  <2>10. /\ ValueIsProjected(w, outputs) /\ CellIsPublic(w, i.statement.createdCells)
         /\ w.opening.slot = w.index /\ w.opening.scope = i.statement.scope
         => CreatedCellHolds(i, cells[k])
    BY DEF CreatedCellHolds
  <2> HIDE DEF t, lists, w, outputs
  <2>8. ChecksOf(t \o o, CellStages) /\ (AllPass(t \o o) => AllPass(t) /\ AllPass(o))
    BY <2>4, <2>7, JoinedChecks
  <2> QED BY <2>3, <2>4, <2>6, <2>7, <2>8, <2>10
<1>2. Len(cells) \in Nat /\ DOMAIN cells = 1..Len(cells) BY IsListShape
<1>3. lists = [k \in 1..Len(cells) |-> lists[k]] BY <1>2
<1>4. CreatedCellChecks(i) = FlattenSeq(lists) BY DEF CreatedCellChecks, ForEach
<1> HIDE DEF lists, cells, outputs
<1>5. /\ ChecksOf(FlattenSeq(lists), CellStages)
      /\ AllPass(FlattenSeq(lists)) => \A k \in 1..Len(cells) : AllPass(lists[k])
  BY <1>1, <1>2, <1>3, FlattenedChecks
<1> QED BY <1>1, <1>2, <1>4, <1>5 DEF cells, outputs

LEMMA CellStage ==
  ASSUME NEW i, InputParses(i)
  PROVE  /\ ChecksOf(CellChecks(i), CellStages)
         /\ AllPass(CellChecks(i)) =>
               /\ \A k \in DOMAIN i.consumedCells : ConsumedCellHolds(i, i.consumedCells[k])
               /\ \A k \in DOMAIN i.createdCells : CreatedCellHolds(i, i.createdCells[k])
<1> DEFINE c == Check(~Distinct(CellIdentities(i.consumedCells)),
                      "witness-identity", "duplicate-consumed-backing-cell-witness-identity")
           d == Check(~Distinct(CellIdentities(i.createdCells)),
                      "witness-identity", "duplicate-created-backing-cell-witness-identity")
<1>1. CellChecks(i) = <<c, d>> \o ConsumedCellChecks(i) \o CreatedCellChecks(i) BY DEF CellChecks
<1>2. c.stage \in CellStages /\ d.stage \in CellStages BY DEF Check, CellStages
<1> HIDE DEF c, d
<1>3. ChecksOf(<<c, d>>, CellStages) BY <1>2, TwoChecks
<1>4. IsList(i.consumedCells) /\ IsList(i.createdCells) BY InputLists
<1>5. /\ ChecksOf(ConsumedCellChecks(i), CellStages)
      /\ AllPass(ConsumedCellChecks(i)) =>
            \A k \in DOMAIN i.consumedCells : ConsumedCellHolds(i, i.consumedCells[k])
  BY <1>4, ConsumedCellStage
<1>6. /\ ChecksOf(CreatedCellChecks(i), CellStages)
      /\ AllPass(CreatedCellChecks(i)) =>
            \A k \in DOMAIN i.createdCells : CreatedCellHolds(i, i.createdCells[k])
  BY <1>4, CreatedCellStage
<1>7. /\ ChecksOf(CellChecks(i), CellStages)
      /\ AllPass(CellChecks(i)) => AllPass(ConsumedCellChecks(i)) /\ AllPass(CreatedCellChecks(i))
  BY <1>1, <1>3, <1>5, <1>6, JoinedThree
<1> QED BY <1>5, <1>6, <1>7

ExitStages == {"created-exit-authority"}

\* The exit witnesses are for this statement and for different cells; the one for a
\* created cell gives the key the statement commits to.
ExitItemIsGood(i, k) ==
    i.exits[k].statement = StatementCommitment(i.statement) /\ ~RepeatsEarlier(IndexesOf(i.exits), k)
ExitKeyIsGood(i, k) ==
    LET cell == i.statement.createdCells[k]
        given == ExitFor(i, cell.index)
    IN  given # <<>> /\ ExitCommitment(given[1].key) = cell.exit

LEMMA ExitItemStage ==
  ASSUME NEW i, NEW k
  PROVE  /\ ChecksOf(ExitItemChecks(i, k), ExitStages)
         /\ AllPass(ExitItemChecks(i, k)) => ExitItemIsGood(i, k)
<1> DEFINE c == Check(i.exits[k].statement # StatementCommitment(i.statement),
                      "created-exit-authority", "exit-authority-statement-mismatch")
           d == Check(RepeatsEarlier(IndexesOf(i.exits), k),
                      "created-exit-authority", "exit-authority-material-extra")
<1>1. ExitItemChecks(i, k) = <<c, d>> BY DEF ExitItemChecks
<1>2. c.stage \in ExitStages /\ d.stage \in ExitStages BY DEF Check, ExitStages
<1>3. ~c.fails /\ ~d.fails => ExitItemIsGood(i, k) BY DEF Check, ExitItemIsGood
<1> HIDE DEF c, d
<1>4. ChecksOf(<<c, d>>, ExitStages) /\ (AllPass(<<c, d>>) => ~c.fails /\ ~d.fails) BY <1>2, TwoChecks
<1> QED BY <1>1, <1>3, <1>4

LEMMA ExitKeyStage ==
  ASSUME NEW i, NEW k
  PROVE  /\ ChecksOf(ExitKeyChecks(i, k), ExitStages)
         /\ AllPass(ExitKeyChecks(i, k)) => ExitKeyIsGood(i, k)
<1> DEFINE cell == i.statement.createdCells[k]
           given == ExitFor(i, cell.index)
           key == IF given = <<>> THEN -1 ELSE given[1].key
           lock == At(i.statement.outputs, cell.index).lock
           c1 == Check(given = <<>>, "created-exit-authority", "exit-authority-material-missing")
           c2 == Check(~KeyParses(key), "created-exit-authority", "exit-authority-material-malformed")
           c3 == Check(\E j \in 1 .. k - 1 :
                          \E w \in ToSet(ExitFor(i, i.statement.createdCells[j].index)) : w.key = key,
                       "created-exit-authority", "exit-authority-public-key-duplicate")
           c4 == Check(ExitCommitment(key) # cell.exit,
                       "created-exit-authority", "exit-authority-commitment-mismatch")
           c5 == Check(~IsSeal(i.profile, lock), "created-exit-authority", "created-seal-template-mismatch")
           c6 == Check(ExitKeyHash(lock) # Hash("sha256", key),
                       "created-exit-authority", "created-seal-exit-key-hash-mismatch")
<1>1. ExitKeyChecks(i, k) = <<c1, c2, c3, c4, c5, c6>> BY DEF ExitKeyChecks
<1>2. /\ c1.stage \in ExitStages /\ c2.stage \in ExitStages /\ c3.stage \in ExitStages
      /\ c4.stage \in ExitStages /\ c5.stage \in ExitStages /\ c6.stage \in ExitStages
  BY DEF Check, ExitStages
<1>3. ~c1.fails /\ ~c4.fails => ExitKeyIsGood(i, k)
  <2>1. /\ ~c1.fails => given # <<>>
        /\ ~c4.fails => ExitCommitment(key) = cell.exit
    BY DEF Check
  <2> QED BY <2>1 DEF ExitKeyIsGood
<1> HIDE DEF c1, c2, c3, c4, c5, c6
<1>4. /\ ChecksOf(<<c1, c2, c3, c4, c5, c6>>, ExitStages)
      /\ AllPass(<<c1, c2, c3, c4, c5, c6>>) => ~c1.fails /\ ~c4.fails
  BY <1>2, SixChecks
<1> QED BY <1>1, <1>3, <1>4

LEMMA ExitStage ==
  ASSUME NEW i, InputParses(i)
  PROVE  /\ ChecksOf(ExitChecks(i), ExitStages)
         /\ AllPass(ExitChecks(i)) =>
               /\ Len(i.exits) <= Len(i.statement.createdCells)
               /\ \A k \in DOMAIN i.exits : ExitItemIsGood(i, k)
               /\ \A k \in DOMAIN i.statement.createdCells : ExitKeyIsGood(i, k)
<1> DEFINE tuples == i.statement.createdCells
           items == [k \in DOMAIN i.exits |-> ExitItemChecks(i, k)]
           keys == [k \in DOMAIN tuples |-> ExitKeyChecks(i, k)]
           c == Check(Len(i.exits) > Len(tuples), "created-exit-authority", "exit-authority-material-extra")
<1>1. ExitChecks(i) = FlattenSeq(items) \o <<c>> \o FlattenSeq(keys) BY DEF ExitChecks, ForEach
<1>2. ChecksOf(<<c>>, ExitStages) /\ (AllPass(<<c>>) => ~(Len(i.exits) > Len(tuples)))
  <2>1. c.stage \in ExitStages /\ (~c.fails => ~(Len(i.exits) > Len(tuples))) BY DEF Check, ExitStages
  <2> HIDE DEF c
  <2>2. ChecksOf(<<c>>, ExitStages) /\ (AllPass(<<c>>) => ~c.fails) BY <2>1, OneCheck
  <2> QED BY <2>1, <2>2
<1>3. /\ Len(i.exits) \in Nat /\ DOMAIN i.exits = 1..Len(i.exits)
      /\ Len(tuples) \in Nat /\ DOMAIN tuples = 1..Len(tuples)
  <2>1. StatementParses(i.statement, i.profile) BY DEF InputParses
  <2>2. IsList(tuples) BY <2>1, StatementLists
  <2>3. IsList(i.exits) BY InputLists
  <2> HIDE DEF tuples
  <2> QED BY <2>2, <2>3, IsListShape
<1>4. /\ ChecksOf(FlattenSeq(items), ExitStages)
      /\ AllPass(FlattenSeq(items)) => \A k \in 1..Len(i.exits) : AllPass(items[k])
  <2>1. \A k \in 1..Len(i.exits) : ChecksOf(items[k], ExitStages) BY <1>3, ExitItemStage
  <2>2. items = [k \in 1..Len(i.exits) |-> items[k]] BY <1>3
  <2> HIDE DEF items
  <2> QED BY <1>3, <2>1, <2>2, FlattenedChecks
<1>5. /\ ChecksOf(FlattenSeq(keys), ExitStages)
      /\ AllPass(FlattenSeq(keys)) => \A k \in 1..Len(tuples) : AllPass(keys[k])
  <2>1. \A k \in 1..Len(tuples) : ChecksOf(keys[k], ExitStages) BY <1>3, ExitKeyStage
  <2>2. keys = [k \in 1..Len(tuples) |-> keys[k]] BY <1>3
  <2> HIDE DEF keys, tuples
  <2> QED BY <1>3, <2>1, <2>2, FlattenedChecks
<1>6. /\ \A k \in DOMAIN i.exits : AllPass(items[k]) => ExitItemIsGood(i, k)
      /\ \A k \in DOMAIN tuples : AllPass(keys[k]) => ExitKeyIsGood(i, k)
  BY ExitItemStage, ExitKeyStage
<1> DEFINE flatItems == FlattenSeq(items)
           flatKeys == FlattenSeq(keys)
<1>7. ExitChecks(i) = flatItems \o <<c>> \o flatKeys BY <1>1
<1>8. /\ ChecksOf(flatItems, ExitStages)
      /\ AllPass(flatItems) => \A k \in DOMAIN i.exits : ExitItemIsGood(i, k)
  <2> HIDE DEF items
  <2> QED BY <1>3, <1>4, <1>6
<1>9. /\ ChecksOf(flatKeys, ExitStages)
      /\ AllPass(flatKeys) => \A k \in DOMAIN tuples : ExitKeyIsGood(i, k)
  <2> HIDE DEF keys, tuples
  <2> QED BY <1>3, <1>5, <1>6
<1> HIDE DEF items, keys, c, flatItems, flatKeys
<1>10. /\ ChecksOf(ExitChecks(i), ExitStages)
       /\ AllPass(ExitChecks(i)) => AllPass(flatItems) /\ AllPass(<<c>>) /\ AllPass(flatKeys)
  BY <1>2, <1>7, <1>8, <1>9, JoinedThree
<1>11. AllPass(ExitChecks(i)) => Len(i.exits) <= Len(tuples)
  <2> HIDE DEF tuples
  <2> QED BY <1>2, <1>3, <1>10
<1> QED BY <1>8, <1>9, <1>10, <1>11

(***************************************************************************)
(* Bundles.                                                                *)
(***************************************************************************)

PlacesIn(openings) == [j \in DOMAIN openings |-> <<openings[j].opening.scope, openings[j].opening.slot>>]

\* The cells assigned to a note open the members of its bundle, each one another, and
\* the members are worth the note.
BundleIsOpened(w, cells) ==
    LET assigned == AssignedTo(w, cells)
    IN  /\ Len(assigned) = Len(w.bundle.members)
        /\ \A k \in DOMAIN assigned : MatchesMember(w.bundle, assigned[k].opening)
        /\ NoneTwice(PlacesIn(assigned), Len(assigned))
        /\ w.note.value = Sum(w.bundle.members, LAMBDA m : m.value)

LEMMA NoRepeats ==
  ASSUME NEW n \in Nat, NEW f, \A k \in 1..n : ~RepeatsEarlier(f, k)
  PROVE  NoneTwice(f, n)
<1> SUFFICES ASSUME NEW i \in 1..n, NEW j \in 1..n, f[i] = f[j], i # j PROVE FALSE BY DEF NoneTwice
<1>1. CASE i < j
  <2>1. i \in 1..(j - 1) BY <1>1
  <2> QED BY <2>1 DEF RepeatsEarlier
<1>2. CASE j < i
  <2>1. j \in 1..(i - 1) BY <1>2
  <2> QED BY <2>1 DEF RepeatsEarlier
<1> QED BY <1>1, <1>2

LEMMA AssignedCells ==
  ASSUME NEW w, NEW cells, IsList(cells)
  PROVE  /\ IsList(AssignedTo(w, cells))
         /\ Len(AssignedTo(w, cells)) = Cardinality({k \in 1..Len(cells) : cells[k].id = w.id})
         /\ Len(AssignedTo(w, cells)) \in Nat
         /\ DOMAIN AssignedTo(w, cells) = 1..Len(AssignedTo(w, cells))
         /\ \A j \in 1..Len(AssignedTo(w, cells)) :
               \E k \in DOMAIN cells : AssignedTo(w, cells)[j] = cells[k] /\ cells[k].id = w.id
<1> DEFINE picked == {k \in 1..Len(cells) : cells[k].id = w.id}
           assigned == AssignedTo(w, cells)
<1>1. cells \in Seq(Range(cells)) /\ Len(cells) \in Nat /\ DOMAIN cells = 1..Len(cells) BY IsListShape
<1>2. assigned = Kept(cells, picked) BY <1>1 DEF AssignedTo
<1>3. picked \in SUBSET (1..Len(cells)) OBVIOUS
<1> HIDE DEF picked, assigned
<1>4. /\ assigned \in Seq(Range(cells)) /\ Len(assigned) = Cardinality(picked)
      /\ \A j \in 1..Len(assigned) : \E k \in picked : assigned[j] = cells[k]
  BY <1>1, <1>2, <1>3, KeptItems
<1>5. IsList(assigned) BY <1>4, ListOfListIsList
<1>6. Len(assigned) \in Nat /\ DOMAIN assigned = 1..Len(assigned) BY <1>5, IsListShape
<1>7. \A j \in 1..Len(assigned) : \E k \in DOMAIN cells : assigned[j] = cells[k] /\ cells[k].id = w.id
  BY <1>1, <1>4 DEF picked
<1> QED BY <1>4, <1>5, <1>6, <1>7 DEF picked, assigned

LEMMA NoteBundleStage ==
  ASSUME NEW w, BundleParses(w.bundle), NEW cells, IsList(cells), NEW stage, NEW S, stage \in S
  PROVE  /\ ChecksOf(NoteBundleChecks(w, cells, stage), S)
         /\ AllPass(NoteBundleChecks(w, cells, stage)) => BundleIsOpened(w, cells)
<1> DEFINE assigned == AssignedTo(w, cells)
           members == w.bundle.members
           backing == Sum(members, LAMBDA m : m.value)
           c == Check(members = <<>>, stage, "empty-bundle")
           n == CountChecks(Len(assigned), Len(members), stage, "bundle-cell-missing", "bundle-cell-extra")
           lists == [k \in DOMAIN assigned |-> AssignedCellChecks(w.bundle, assigned, k, stage)]
           d == Check(Overflows(backing), "private-value-arithmetic", "private-value-sum-overflow")
           e == Check(backing # w.note.value, stage, "note-backing-mismatch")
<1>1. NoteBundleChecks(w, cells, stage) = <<c>> \o n \o FlattenSeq(lists) \o <<d, e>>
  BY DEF NoteBundleChecks, ForEach
<1>2. /\ Len(assigned) \in Nat /\ DOMAIN assigned = 1..Len(assigned) /\ Len(members) \in Nat
  <2>1. IsList(members) BY DEF BundleParses
  <2>2. Len(members) \in Nat
    <3> HIDE DEF members
    <3> QED BY <2>1, IsListShape
  <2> QED BY <2>2, AssignedCells
<1>3. ~Overflows(backing) BY DEF BundleParses
<1>4. /\ c.stage = stage /\ ~d.fails /\ e.stage = stage /\ (~e.fails => backing = w.note.value)
  BY <1>3 DEF Check
<1>5. /\ ChecksOf(n, S)
      /\ AllPass(n) => Len(assigned) = Len(members)
  <2>1. /\ ChecksOf(n, S)
        /\ AllPass(n) => ~(Len(assigned) < Len(members)) /\ ~(Len(assigned) > Len(members))
    BY CountedChecks
  <2> HIDE DEF n, assigned, members
  <2> QED BY <1>2, <2>1
<1>6. \A k \in DOMAIN assigned :
         /\ ChecksOf(lists[k], S)
         /\ AllPass(lists[k]) => /\ MatchesMember(w.bundle, assigned[k].opening)
                                 /\ ~RepeatsEarlier(PlacesIn(assigned), k)
  <2> SUFFICES ASSUME NEW k \in DOMAIN assigned
               PROVE  /\ ChecksOf(lists[k], S)
                      /\ AllPass(lists[k]) => /\ MatchesMember(w.bundle, assigned[k].opening)
                                              /\ ~RepeatsEarlier(PlacesIn(assigned), k)
    OBVIOUS
  <2> HIDE DEF assigned
  <2> DEFINE f == Check(~MatchesMember(w.bundle, assigned[k].opening), stage, "bundle-cell-extra")
             g == Check(RepeatsEarlier(PlacesIn(assigned), k), stage, "bundle-not-disjoint")
  <2>1. lists[k] = <<f, g>> BY DEF AssignedCellChecks, PlacesIn
  <2>2. /\ f.stage = stage /\ g.stage = stage
        /\ ~f.fails => MatchesMember(w.bundle, assigned[k].opening)
        /\ ~g.fails => ~RepeatsEarlier(PlacesIn(assigned), k)
    BY DEF Check
  <2> HIDE DEF f, g, lists
  <2>3. ChecksOf(<<f, g>>, S) /\ (AllPass(<<f, g>>) => ~f.fails /\ ~g.fails)
    BY <2>2, TwoChecks
  <2> QED BY <2>1, <2>2, <2>3
<1>7. lists = [k \in 1..Len(assigned) |-> lists[k]] BY <1>2
<1>8. /\ ChecksOf(FlattenSeq(lists), S)
      /\ AllPass(FlattenSeq(lists)) => \A k \in 1..Len(assigned) : AllPass(lists[k])
  <2> HIDE DEF lists, assigned
  <2> QED BY <1>2, <1>6, <1>7, FlattenedChecks
<1> DEFINE flat == FlattenSeq(lists)
<1>9. ChecksOf(<<c>>, S)
  <2> HIDE DEF c
  <2> QED BY <1>4, OneCheck
<1>10. ChecksOf(<<d, e>>, S) /\ (AllPass(<<d, e>>) => ~e.fails)
  <2> HIDE DEF d, e
  <2> QED BY <1>4, TwoChecks
<1>11. /\ ChecksOf(NoteBundleChecks(w, cells, stage), S)
       /\ AllPass(NoteBundleChecks(w, cells, stage)) => AllPass(n) /\ AllPass(flat) /\ AllPass(<<d, e>>)
  <2>1. ChecksOf(flat, S) BY <1>8
  <2>2. NoteBundleChecks(w, cells, stage) = <<c>> \o n \o flat \o <<d, e>> BY <1>1
  <2> HIDE DEF c, n, d, e, flat, lists, assigned, members
  <2> QED BY <1>5, <1>9, <1>10, <2>1, <2>2, JoinedFour
<1>12. ASSUME AllPass(NoteBundleChecks(w, cells, stage)) PROVE BundleIsOpened(w, cells)
  <2>1. Len(assigned) = Len(members) BY <1>5, <1>11, <1>12
  <2>2. backing = w.note.value BY <1>4, <1>10, <1>11, <1>12
  <2>3. \A k \in 1..Len(assigned) : AllPass(lists[k]) BY <1>8, <1>11, <1>12
  <2>4. \A k \in DOMAIN assigned : MatchesMember(w.bundle, assigned[k].opening)
    <3> HIDE DEF lists, assigned
    <3> QED BY <1>2, <1>6, <2>3
  <2>5. NoneTwice(PlacesIn(assigned), Len(assigned))
    <3>1. \A k \in 1..Len(assigned) : ~RepeatsEarlier(PlacesIn(assigned), k)
      <4> HIDE DEF lists, assigned
      <4> QED BY <1>2, <1>6, <2>3
    <3> HIDE DEF assigned
    <3> QED BY <1>2, <3>1, NoRepeats
  <2> QED BY <2>1, <2>2, <2>4, <2>5 DEF BundleIsOpened
<1> QED BY <1>11, <1>12

\* What the checks of the bundles of one side say: every cell belongs to a note, every
\* note's bundle is opened, and the cells are the public ones.
BundlesAreOpened(notes, cells, expected) ==
    /\ ToSet(IdsOf(cells)) \subseteq ToSet(IdsOf(notes))
    /\ \A k \in DOMAIN notes : BundleIsOpened(notes[k], cells)
    /\ Distinct(IndexesOf(cells))
    /\ ToSet(expected) = ToSet(IndexesOf(cells))

LEMMA BundleStage ==
  ASSUME NEW notes, IsList(notes), \A k \in DOMAIN notes : BundleParses(notes[k].bundle),
         NEW cells, IsList(cells), NEW expected, NEW stage
  PROVE  /\ ChecksOf(BundleChecks(notes, cells, expected, stage), {stage})
         /\ AllPass(BundleChecks(notes, cells, expected, stage)) => BundlesAreOpened(notes, cells, expected)
<1> DEFINE S == {stage}
           c == Check(~ToSet(IdsOf(cells)) \subseteq ToSet(IdsOf(notes)),
                      stage, "backing-cell-logical-note-assignment-mismatch")
           lists == [k \in DOMAIN notes |-> NoteBundleChecks(notes[k], cells, stage)]
           d == Check(~Distinct(IndexesOf(cells)), stage, "bundle-not-disjoint")
           e == Check(~ToSet(expected) \subseteq ToSet(IndexesOf(cells)), stage, "bundle-cell-missing")
           f == Check(~ToSet(IndexesOf(cells)) \subseteq ToSet(expected), stage, "bundle-cell-extra")
<1>1. BundleChecks(notes, cells, expected, stage) = <<c>> \o FlattenSeq(lists) \o <<d, e, f>>
  BY DEF BundleChecks, ForEach
<1>2. stage \in S OBVIOUS
<1>3. /\ c.stage = stage /\ d.stage = stage /\ e.stage = stage /\ f.stage = stage
      /\ ~c.fails => ToSet(IdsOf(cells)) \subseteq ToSet(IdsOf(notes))
      /\ ~d.fails => Distinct(IndexesOf(cells))
      /\ ~e.fails => ToSet(expected) \subseteq ToSet(IndexesOf(cells))
      /\ ~f.fails => ToSet(IndexesOf(cells)) \subseteq ToSet(expected)
  BY DEF Check
<1>4. Len(notes) \in Nat /\ DOMAIN notes = 1..Len(notes) BY IsListShape
<1> HIDE DEF c, d, e, f, S
<1>5. \A k \in 1..Len(notes) :
         /\ ChecksOf(lists[k], S)
         /\ AllPass(lists[k]) => BundleIsOpened(notes[k], cells)
  BY <1>2, <1>4, NoteBundleStage
<1>6. lists = [k \in 1..Len(notes) |-> lists[k]] BY <1>4
<1> DEFINE flat == FlattenSeq(lists)
<1>7. ChecksOf(flat, S) /\ (AllPass(flat) => \A k \in 1..Len(notes) : AllPass(lists[k]))
  <2> HIDE DEF lists
  <2> QED BY <1>4, <1>5, <1>6, FlattenedChecks
<1>8. /\ ChecksOf(<<c>>, S) /\ (AllPass(<<c>>) => ~c.fails)
      /\ ChecksOf(<<d, e, f>>, S) /\ (AllPass(<<d, e, f>>) => ~d.fails /\ ~e.fails /\ ~f.fails)
  BY <1>2, <1>3, OneCheck, ThreeChecks
<1>9. /\ ChecksOf(BundleChecks(notes, cells, expected, stage), S)
      /\ AllPass(BundleChecks(notes, cells, expected, stage)) =>
            AllPass(<<c>>) /\ AllPass(flat) /\ AllPass(<<d, e, f>>)
  <2>1. BundleChecks(notes, cells, expected, stage) = <<c>> \o flat \o <<d, e, f>> BY <1>1
  <2> HIDE DEF flat, lists
  <2> QED BY <1>7, <1>8, <2>1, JoinedThree
<1>10. ASSUME AllPass(BundleChecks(notes, cells, expected, stage))
       PROVE  BundlesAreOpened(notes, cells, expected)
  <2>1. ~c.fails /\ ~d.fails /\ ~e.fails /\ ~f.fails BY <1>8, <1>9, <1>10
  <2>2. \A k \in DOMAIN notes : BundleIsOpened(notes[k], cells)
    <3>1. \A k \in 1..Len(notes) : AllPass(lists[k]) BY <1>7, <1>9, <1>10
    <3> HIDE DEF lists
    <3> QED BY <1>4, <1>5, <3>1
  <2>3. ToSet(expected) = ToSet(IndexesOf(cells)) BY <1>3, <2>1
  <2> QED BY <1>3, <2>1, <2>2, <2>3 DEF BundlesAreOpened
<1> QED BY <1>9, <1>10 DEF S
(***************************************************************************)
(* One side of the batch.                                                  *)
(***************************************************************************)

LEMMA ItemsOfIndexes ==
  ASSUME NEW s
  PROVE  ToSet(IndexesOf(s)) = {s[k].index : k \in DOMAIN s}
BY DEF ToSet, IndexesOf

LEMMA SumOfEqual ==
  ASSUME NEW values, NEW n \in Nat, values = [k \in 1..n |-> values[k]], NEW c \in Int,
         \A k \in 1..n : values[k] = c
  PROVE  TotalOf(values) = n * c
<1>1. values \in [1..n -> Int]
  OBVIOUS
<1>2. values \in Seq(Int) /\ Len(values) = n BY <1>1, FunctionIsListOf
<1> QED BY <1>2, TotalOfEqual

MemberOf(opening) ==
    [slot |-> opening.slot, value |-> opening.value, profile |-> opening.profile,
     blinder |-> opening.blinder]

\* Every member of an opened bundle is the opening of a cell assigned to the note.
LEMMA MembersAreOpened ==
  ASSUME NEW w, BundleParses(w.bundle), NEW cells, IsList(cells), BundleIsOpened(w, cells)
  PROVE  /\ DOMAIN w.bundle.members = 1..Len(AssignedTo(w, cells))
         /\ \A j \in DOMAIN w.bundle.members :
               \E k \in DOMAIN cells :
                  /\ w.bundle.members[j] = MemberOf(cells[k].opening)
                  /\ cells[k].id = w.id /\ cells[k].opening.scope = w.bundle.scope
<1> DEFINE assigned == AssignedTo(w, cells)
           members == w.bundle.members
           n == Len(assigned)
           Opens(k, j) == members[j] = MemberOf(assigned[k].opening)
           m == [k \in 1..n |-> CHOOSE j \in 1..n : Opens(k, j)]
           id == [j \in 1..n |-> j]
<1>1. /\ n \in Nat /\ DOMAIN assigned = 1..n
      /\ \A k \in 1..n : \E l \in DOMAIN cells : assigned[k] = cells[l] /\ cells[l].id = w.id
  BY AssignedCells
<1>2. Len(members) = n /\ DOMAIN members = 1..n
  <2>1. IsList(members) BY DEF BundleParses
  <2>2. DOMAIN members = 1..Len(members)
    <3> HIDE DEF members
    <3> QED BY <2>1, IsListShape
  <2>3. Len(members) = n BY DEF BundleIsOpened
  <2> QED BY <2>2, <2>3
<1>3. /\ \A k \in DOMAIN assigned : MatchesMember(w.bundle, assigned[k].opening)
      /\ NoneTwice(PlacesIn(assigned), n)
  BY DEF BundleIsOpened
<1> HIDE DEF assigned, members, n
<1>4. \A k \in 1..n : assigned[k].opening.scope = w.bundle.scope /\ \E j \in 1..n : Opens(k, j)
  <2> SUFFICES ASSUME NEW k \in 1..n
               PROVE  assigned[k].opening.scope = w.bundle.scope /\ \E j \in 1..n : Opens(k, j)
    OBVIOUS
  <2>1. MatchesMember(w.bundle, assigned[k].opening) BY <1>1, <1>3
  <2>2. assigned[k].opening.scope = w.bundle.scope BY <2>1 DEF MatchesMember
  <2>3. PICK j \in 1..n : members[j] = [slot |-> assigned[k].opening.slot, value |-> assigned[k].opening.value,
                                        profile |-> assigned[k].opening.profile,
                                        blinder |-> assigned[k].opening.blinder]
    BY <1>2, <2>1 DEF MatchesMember, members
  <2>4. Opens(k, j) BY <2>3 DEF MemberOf
  <2> QED BY <2>2, <2>4
<1>5. \A k \in 1..n : m[k] \in 1..n /\ Opens(k, m[k])
  <2> SUFFICES ASSUME NEW k \in 1..n PROVE m[k] \in 1..n /\ Opens(k, m[k]) OBVIOUS
  <2>1. \E j \in 1..n : Opens(k, j) BY <1>4
  <2>2. m[k] = CHOOSE j \in 1..n : Opens(k, j) OBVIOUS
  <2> HIDE DEF m, Opens
  <2> QED BY <2>1, <2>2
<1>6. NoneTwice(m, n)
  <2> SUFFICES ASSUME NEW k \in 1..n, NEW l \in 1..n, m[k] = m[l] PROVE k = l BY DEF NoneTwice
  <2> HIDE DEF m
  <2>1. MemberOf(assigned[k].opening) = MemberOf(assigned[l].opening) BY <1>5
  <2>2. assigned[k].opening.slot = assigned[l].opening.slot
    <3>1. MemberOf(assigned[k].opening).slot = MemberOf(assigned[l].opening).slot BY <2>1
    <3> QED BY <3>1 DEF MemberOf
  <2>3. assigned[k].opening.scope = assigned[l].opening.scope BY <1>4
  <2>4. PlacesIn(assigned)[k] = PlacesIn(assigned)[l] BY <1>1, <2>2, <2>3 DEF PlacesIn
  <2> QED BY <1>3, <2>4 DEF NoneTwice
<1>7. NoneTwice(id, n) BY DEF NoneTwice
<1>8. EachIn(m, id, n) BY <1>5 DEF EachIn
<1>9. EachIn(id, m, n)
  <2> HIDE DEF m, id
  <2> QED BY <1>1, <1>6, <1>7, <1>8, AllMatched
<1>10. ASSUME NEW j \in 1..n
       PROVE  \E k \in DOMAIN cells :
                 /\ members[j] = MemberOf(cells[k].opening)
                 /\ cells[k].id = w.id /\ cells[k].opening.scope = w.bundle.scope
  <2>1. id[j] = j OBVIOUS
  <2>2. PICK k \in 1..n : m[k] = j
    <3> HIDE DEF m, id
    <3> QED BY <1>9, <2>1 DEF EachIn
  <2>3. members[j] = MemberOf(assigned[k].opening)
    <3> HIDE DEF m
    <3> QED BY <1>5, <2>2
  <2>4. PICK l \in DOMAIN cells : assigned[k] = cells[l] /\ cells[l].id = w.id BY <1>1
  <2>5. cells[l].opening.scope = w.bundle.scope BY <1>4, <2>4
  <2> QED BY <2>3, <2>4, <2>5
<1> QED BY <1>2, <1>10 DEF n, assigned, members

\* A note whose bundle is opened by cells of one value is worth the cells it owns.
LEMMA NoteIsBacked ==
  ASSUME NEW w, BundleParses(w.bundle), NEW cells, IsList(cells), BundleIsOpened(w, cells),
         NEW c \in Int, \A k \in DOMAIN cells : cells[k].opening.value = c
  PROVE  w.note.value = Len(AssignedTo(w, cells)) * c
<1> DEFINE members == w.bundle.members
           values == [k \in DOMAIN members |-> members[k].value]
<1>1. PICK n \in Nat : n = Len(AssignedTo(w, cells)) BY AssignedCells
<1>2. /\ DOMAIN members = 1..n
      /\ \A j \in DOMAIN members : \E k \in DOMAIN cells : members[j] = MemberOf(cells[k].opening)
  BY <1>1, MembersAreOpened
<1> HIDE DEF members
<1>3. \A j \in 1..n : members[j].value = c
  <2> SUFFICES ASSUME NEW j \in 1..n PROVE members[j].value = c OBVIOUS
  <2>1. PICK k \in DOMAIN cells : members[j] = MemberOf(cells[k].opening) BY <1>2
  <2> QED BY <2>1 DEF MemberOf
<1>4. TotalOf(values) = n * c
  <2>1. values = [k \in 1..n |-> values[k]] /\ \A k \in 1..n : values[k] = c BY <1>2, <1>3
  <2> HIDE DEF values
  <2> QED BY <2>1, SumOfEqual
<1>5. w.note.value = TotalOf(values) BY DEF BundleIsOpened, Sum, members
<1> QED BY <1>1, <1>4, <1>5

\* The cells of one side open the bundles of all its notes and are the public ones, which
\* are worth c each.
SideIsOpened(notes, cells, tuples, projected, c) ==
    /\ IsList(notes) /\ IsList(cells) /\ IsList(tuples)
    /\ Distinct(IdsOf(notes))
    /\ \A k \in DOMAIN notes : BundleParses(notes[k].bundle)
    /\ BundlesAreOpened(notes, cells, IndexesOf(tuples))
    /\ \A k \in DOMAIN cells : ValueIsProjected(cells[k], projected)
    /\ \A k \in DOMAIN tuples : At(projected, tuples[k].index).value = c
    /\ NoneTwice(IndexesOf(tuples), Len(tuples))

\* Cells of one value that open the bundles of all notes share out the public cells.
LEMMA SideIsBacked ==
  ASSUME NEW notes, NEW cells, NEW tuples, NEW projected, NEW c \in Int,
         SideIsOpened(notes, cells, tuples, projected, c)
  PROVE  /\ SharesOut(notes, cells, tuples, projected)
         /\ Sum(notes, LAMBDA w : w.note.value) = Len(tuples) * c
<1> DEFINE count == Len(cells)
<1>0. /\ IsList(notes) /\ IsList(cells) /\ IsList(tuples)
      /\ Distinct(IdsOf(notes))
      /\ \A k \in DOMAIN notes : BundleParses(notes[k].bundle)
      /\ BundlesAreOpened(notes, cells, IndexesOf(tuples))
      /\ \A k \in DOMAIN cells : ValueIsProjected(cells[k], projected)
      /\ \A k \in DOMAIN tuples : At(projected, tuples[k].index).value = c
      /\ NoneTwice(IndexesOf(tuples), Len(tuples))
  BY DEF SideIsOpened
<1>1. /\ count \in Nat /\ DOMAIN cells = 1..count
      /\ Len(tuples) \in Nat /\ DOMAIN tuples = 1..Len(tuples)
      /\ Len(notes) \in Nat /\ DOMAIN notes = 1..Len(notes)
  BY <1>0, IsListShape
<1>2. /\ ToSet(IdsOf(cells)) \subseteq ToSet(IdsOf(notes))
      /\ \A k \in DOMAIN notes : BundleIsOpened(notes[k], cells)
      /\ Distinct(IndexesOf(cells))
      /\ ToSet(IndexesOf(tuples)) = ToSet(IndexesOf(cells))
  BY <1>0 DEF BundlesAreOpened
<1> HIDE DEF count
<1>3. {cells[k].index : k \in DOMAIN cells} = {tuples[k].index : k \in DOMAIN tuples}
  BY <1>2, ItemsOfIndexes
<1>4. count = Len(tuples)
  <2>1. NoneTwice(IndexesOf(cells), count) BY <1>1, <1>2 DEF Distinct, NoneTwice, IndexesOf
  <2>2. FirstItems(IndexesOf(cells), count) = FirstItems(IndexesOf(tuples), Len(tuples))
    BY <1>1, <1>2 DEF FirstItems, ToSet, IndexesOf
  <2> QED BY <1>0, <1>1, <2>1, <2>2, SameItemsSameLength
<1>5. \A k \in DOMAIN cells : \E n \in DOMAIN notes : cells[k].id = notes[n].id
  BY <1>2 DEF ToSet, IdsOf
<1>6. \A k \in DOMAIN cells : /\ At(projected, cells[k].index).value = c
                              /\ cells[k].opening.value = c
  <2> SUFFICES ASSUME NEW k \in DOMAIN cells
               PROVE  At(projected, cells[k].index).value = c /\ cells[k].opening.value = c
    OBVIOUS
  <2>1. PICK j \in DOMAIN tuples : cells[k].index = tuples[j].index BY <1>3
  <2>2. At(projected, cells[k].index).value = c BY <1>0, <2>1
  <2> QED BY <1>0, <2>2 DEF ValueIsProjected
<1>7. \A n \in DOMAIN notes : notes[n].note.value = Len(AssignedTo(notes[n], cells)) * c
  BY <1>0, <1>2, <1>6, NoteIsBacked
<1>8. \A n \in DOMAIN notes :
         notes[n].note.value = Sum(AssignedTo(notes[n], cells), LAMBDA x : At(projected, x.index).value)
  <2> SUFFICES ASSUME NEW n \in DOMAIN notes
               PROVE  notes[n].note.value =
                         Sum(AssignedTo(notes[n], cells), LAMBDA x : At(projected, x.index).value)
    OBVIOUS
  <2> DEFINE assigned == AssignedTo(notes[n], cells)
             m == Len(assigned)
             values == [k \in DOMAIN assigned |-> At(projected, assigned[k].index).value]
  <2>1. /\ m \in Nat /\ DOMAIN assigned = 1..m
        /\ \A j \in 1..m : \E k \in DOMAIN cells : assigned[j] = cells[k] /\ cells[k].id = notes[n].id
    BY <1>0, AssignedCells
  <2>2. notes[n].note.value = m * c BY <1>7
  <2> HIDE DEF assigned, m
  <2>3. values = [k \in 1..m |-> values[k]] /\ \A k \in 1..m : values[k] = c BY <1>6, <2>1
  <2>4. Sum(assigned, LAMBDA x : At(projected, x.index).value) = TotalOf(values) BY DEF Sum
  <2> HIDE DEF values
  <2>5. TotalOf(values) = m * c BY <2>1, <2>3, SumOfEqual
  <2>6. notes[n].note.value = Sum(assigned, LAMBDA x : At(projected, x.index).value)
    BY <2>2, <2>4, <2>5
  <2> QED BY <2>6 DEF assigned
<1>9. SharesOut(notes, cells, tuples, projected) BY <1>3, <1>4, <1>5, <1>8 DEF SharesOut, count
<1> DEFINE values == [k \in DOMAIN notes |-> notes[k].note.value]
           owner == [k \in 1..count |-> CHOOSE j \in 1..Len(notes) : notes[j].id = cells[k].id]
<1>10. \A k \in 1..count : owner[k] \in 1..Len(notes) /\ notes[owner[k]].id = cells[k].id
  <2> SUFFICES ASSUME NEW k \in 1..count
               PROVE  owner[k] \in 1..Len(notes) /\ notes[owner[k]].id = cells[k].id
    OBVIOUS
  <2>1. \E j \in 1..Len(notes) : notes[j].id = cells[k].id BY <1>1, <1>5
  <2> QED BY <2>1
<1>11. \A j \in 1..Len(notes), k \in 1..count : owner[k] = j <=> cells[k].id = notes[j].id
  <2> HIDE DEF owner
  <2>1. \A a, b \in 1..Len(notes) : notes[a].id = notes[b].id => a = b BY <1>0, <1>1 DEF Distinct, IdsOf
  <2> QED BY <1>10, <2>1
<1>12. /\ values \in Seq(Int) /\ Len(values) = Len(notes)
       /\ owner \in [1..count -> 1..Len(values)]
  <2>1. \A k \in 1..Len(notes) : notes[k].note.value \in Int
    <3> SUFFICES ASSUME NEW k \in 1..Len(notes) PROVE notes[k].note.value \in Int OBVIOUS
    <3>1. Len(AssignedTo(notes[k], cells)) \in Nat BY <1>0, AssignedCells
    <3>2. notes[k].note.value = Len(AssignedTo(notes[k], cells)) * c BY <1>1, <1>7
    <3> QED BY <3>1, <3>2
  <2>2. values \in [1..Len(notes) -> Int] BY <1>1, <2>1
  <2>3. values \in Seq(Int) /\ Len(values) = Len(notes)
    <3> HIDE DEF values
    <3> QED BY <1>1, <2>2, FunctionIsListOf
  <2> QED BY <1>10, <2>3
<1>13. \A j \in 1..Len(values) : values[j] = Cardinality({k \in 1..count : owner[k] = j}) * c
  <2> SUFFICES ASSUME NEW j \in 1..Len(notes)
               PROVE  notes[j].note.value = Cardinality({k \in 1..count : owner[k] = j}) * c
    BY <1>1, <1>12
  <2>1. Len(AssignedTo(notes[j], cells)) = Cardinality({k \in 1..count : cells[k].id = notes[j].id})
    BY <1>0, AssignedCells DEF count
  <2>2. {k \in 1..count : owner[k] = j} = {k \in 1..count : cells[k].id = notes[j].id}
    <3> HIDE DEF owner
    <3> QED BY <1>11
  <2> QED BY <1>1, <1>7, <2>1, <2>2
<1>14. Sum(notes, LAMBDA w : w.note.value) = TotalOf(values) BY DEF Sum
<1> HIDE DEF values, owner
<1>15. TotalOf(values) = count * c BY <1>1, <1>12, <1>13, SharedTotal
<1> QED BY <1>4, <1>9, <1>14, <1>15
(***************************************************************************)
(* The public statement.                                                   *)
(***************************************************************************)

\* The cells of a side are the private-backing places of the transaction, so they are
\* worth no more than all of its values.
LEMMA PublicSide ==
  ASSUME NEW tuples, IsList(tuples), NEW s, IsList(s), NEW c \in Nat,
         IndexesOf(tuples) = Positions(s, "private-backing"),
         \A k \in DOMAIN tuples : At(s, tuples[k].index).value = c,
         \A k \in DOMAIN s : s[k].value \in Nat
  PROVE  /\ NoneTwice(IndexesOf(tuples), Len(tuples))
         /\ Len(tuples) * c <= Sum(s, LAMBDA x : x.value)
<1> DEFINE n == Len(s)
           index == [k \in DOMAIN s |-> k - 1]
           picked == {k \in DOMAIN s : s[k].role = "private-backing"}
           places == Positions(s, "private-backing")
           values == [k \in DOMAIN s |-> s[k].value]
<1>1. n \in Nat /\ DOMAIN s = 1..n BY IsListShape
<1>2. /\ places \in Seq(Int) /\ \E place : PlacesOf(place, places, index, picked)
      /\ Len(places) = Cardinality(picked)
  <2>1. index \in [1..n -> Int] BY <1>1
  <2> HIDE DEF index
  <2>2. index \in Seq(Int) /\ Len(index) = n BY <1>1, <2>1, FunctionIsListOf
  <2>3. picked \in SUBSET (1..Len(index)) BY <1>1, <2>2
  <2>4. places = Kept(index, picked) BY DEF Positions, index
  <2> HIDE DEF picked, places
  <2> QED BY <2>2, <2>3, <2>4, KeptPlaces, KeptItems
<1>3. PICK place : PlacesOf(place, places, index, picked) BY <1>2
<1>4. Len(places) \in Nat /\ Len(places) = Len(tuples) /\ DOMAIN tuples = 1..Len(tuples)
  <2>1. Len(tuples) \in Nat /\ DOMAIN tuples = 1..Len(tuples) BY IsListShape
  <2>2. IndexesOf(tuples) \in Seq(Range(IndexesOf(tuples))) /\ Len(IndexesOf(tuples)) = Len(tuples)
    <3>1. IndexesOf(tuples) = [k \in 1..Len(tuples) |-> IndexesOf(tuples)[k]]
      BY <2>1 DEF IndexesOf
    <3> QED BY <2>1, <3>1, FunctionIsList
  <2> QED BY <2>1, <2>2
<1>5. \A j \in 1..Len(tuples) : tuples[j].index = places[j]
  <2> SUFFICES ASSUME NEW j \in 1..Len(tuples) PROVE tuples[j].index = places[j] OBVIOUS
  <2>1. IndexesOf(tuples)[j] = tuples[j].index BY <1>4 DEF IndexesOf
  <2> QED BY <2>1
<1>6. \A j \in 1..Len(tuples) : place[j] \in 1..n /\ places[j] = place[j] - 1
  <2> SUFFICES ASSUME NEW j \in 1..Len(tuples) PROVE place[j] \in 1..n /\ places[j] = place[j] - 1
    OBVIOUS
  <2> HIDE DEF index, picked, places
  <2>1. place[j] \in picked /\ places[j] = index[place[j]] BY <1>3, <1>4 DEF PlacesOf
  <2> QED BY <1>1, <2>1 DEF index, picked
<1>7. NoneTwice(IndexesOf(tuples), Len(tuples))
  <2> SUFFICES ASSUME NEW i \in 1..Len(tuples), NEW j \in 1..Len(tuples), places[i] = places[j]
               PROVE  i = j
    BY DEF NoneTwice
  <2> HIDE DEF index, picked, places
  <2>1. place[i] = place[j] BY <1>1, <1>6
  <2> QED BY <1>3, <1>4, <2>1 DEF PlacesOf
<1>8. \A k \in picked : s[k].value = c
  <2> SUFFICES ASSUME NEW k \in picked PROVE s[k].value = c OBVIOUS
  <2>1. \E j \in 1..Len(places) : place[j] = k
    <3> HIDE DEF index, picked, places
    <3> QED BY <1>3 DEF PlacesOf
  <2>2. PICK j \in 1..Len(tuples) : place[j] = k BY <1>4, <2>1
  <2>3. tuples[j].index = k - 1 /\ k \in 1..n
    <3> HIDE DEF index, picked, places
    <3> QED BY <1>5, <1>6, <2>2
  <2>4. At(s, tuples[j].index) = s[(k - 1) + 1] BY <2>3 DEF At
  <2>5. (k - 1) + 1 = k BY <1>1, <2>3
  <2> QED BY <1>4, <2>4, <2>5
<1>9. values \in Seq(Nat) /\ Len(values) = n
  <2>1. values \in [1..n -> Nat] BY <1>1
  <2> HIDE DEF values
  <2> QED BY <1>1, <2>1, FunctionIsListOf
<1>10. Cardinality(picked) * c <= TotalOf(values)
  <2>1. picked \in SUBSET (1..Len(values)) BY <1>1, <1>9
  <2>2. \A k \in picked : values[k] = c BY <1>8
  <2> HIDE DEF picked, values
  <2> QED BY <1>9, <2>1, <2>2, PartOfTotal
<1>11. Sum(s, LAMBDA x : x.value) = TotalOf(values) BY DEF Sum
<1> HIDE DEF values, picked, places
<1> QED BY <1>2, <1>4, <1>7, <1>10, <1>11

\* What the public statement says of its cells, its fees and its totals.
PublicMoney(st, c) ==
    LET m == Len(st.consumedCells)
        n == Len(st.createdCells)
    IN  /\ \A k \in DOMAIN st.consumedCells : At(st.inputs, st.consumedCells[k].index).value = c
        /\ \A k \in DOMAIN st.createdCells : At(st.outputs, st.createdCells[k].index).value = c
        /\ NoneTwice(IndexesOf(st.consumedCells), m) /\ NoneTwice(IndexesOf(st.createdCells), n)
        /\ m \in Nat /\ n \in Nat
        /\ st.networkFee \in Int /\ st.serviceFee \in Int
        /\ m * c = n * c + (st.networkFee + st.serviceFee)
        /\ ~Overflows(m * c) /\ ~Overflows(n * c) /\ ~Overflows(st.networkFee + st.serviceFee)

LEMMA StatementMoney ==
  ASSUME NEW p, ProfileParses(p), NEW st, StatementParses(st, p)
  PROVE  PublicMoney(st, p.cellValue)
<1> DEFINE c == p.cellValue
           m == Len(st.consumedCells)
           n == Len(st.createdCells)
<1>1. MaxMoney \in Nat /\ c \in Nat BY MaxMoneyAssumption DEF ProfileParses
<1>2. /\ IsList(st.consumed) /\ IsList(st.consumedCells) /\ IsList(st.createdCells)
      /\ IsList(st.inputs) /\ IsList(st.outputs)
  BY StatementLists
<1>3. /\ BackingCovered(st, p) /\ PrivacyMinima(st, p) /\ TotalsHold(st)
      /\ GapPaysFees(st, p) /\ ServiceFeeHolds(st, p) /\ ProjectionParses(st)
  BY DEF StatementParses, ValidStatement
<1>4. /\ IndexesOf(st.consumedCells) = Positions(st.inputs, "private-backing")
      /\ IndexesOf(st.createdCells) = Positions(st.outputs, "private-backing")
  BY <1>3 DEF BackingCovered
<1>5. /\ \A k \in DOMAIN st.consumedCells : At(st.inputs, st.consumedCells[k].index).value = c
      /\ \A k \in DOMAIN st.createdCells : At(st.outputs, st.createdCells[k].index).value = c
  BY <1>3 DEF PrivacyMinima
<1>6. /\ \A k \in DOMAIN st.inputs : st.inputs[k].value \in Nat
      /\ \A k \in DOMAIN st.outputs : st.outputs[k].value \in Nat
  BY <1>1, <1>3 DEF ProjectionParses
<1>7. /\ NoneTwice(IndexesOf(st.consumedCells), m)
      /\ m * c <= InputTotal(st)
  <2>1. m * c <= Sum(st.inputs, LAMBDA x : x.value) /\ NoneTwice(IndexesOf(st.consumedCells), m)
    <3> HIDE DEF c
    <3> QED BY <1>1, <1>2, <1>4, <1>5, <1>6, PublicSide
  <2> QED BY <2>1 DEF InputTotal
<1>8. /\ NoneTwice(IndexesOf(st.createdCells), n)
      /\ n * c <= OutputTotal(st)
  <2>1. n * c <= Sum(st.outputs, LAMBDA x : x.value) /\ NoneTwice(IndexesOf(st.createdCells), n)
    <3> HIDE DEF c
    <3> QED BY <1>1, <1>2, <1>4, <1>5, <1>6, PublicSide
  <2> QED BY <2>1 DEF OutputTotal
<1>9. InputTotal(st) \in Int /\ InputTotal(st) <= MaxMoney /\ OutputTotal(st) \in Int /\ OutputTotal(st) <= MaxMoney
  <2>1. ~(InputTotal(st) > MaxMoney) /\ ~(OutputTotal(st) > MaxMoney) BY <1>3 DEF TotalsHold, Overflows
  <2>2. InputTotal(st) \in Int
    <3> DEFINE values == [k \in DOMAIN st.inputs |-> st.inputs[k].value]
    <3>1. Len(st.inputs) \in Nat /\ DOMAIN st.inputs = 1..Len(st.inputs) BY <1>2, IsListShape
    <3>2. values \in [1..Len(st.inputs) -> Int] BY <1>6, <3>1
    <3>3. InputTotal(st) = TotalOf(values) BY DEF InputTotal, Sum
    <3> HIDE DEF values
    <3>4. values \in Seq(Int) BY <3>1, <3>2, FunctionIsListOf
    <3> QED BY <3>3, <3>4, TotalOfType
  <2>3. OutputTotal(st) \in Int
    <3> DEFINE values == [k \in DOMAIN st.outputs |-> st.outputs[k].value]
    <3>1. Len(st.outputs) \in Nat /\ DOMAIN st.outputs = 1..Len(st.outputs) BY <1>2, IsListShape
    <3>2. values \in [1..Len(st.outputs) -> Int] BY <1>6, <3>1
    <3>3. OutputTotal(st) = TotalOf(values) BY DEF OutputTotal, Sum
    <3> HIDE DEF values
    <3>4. values \in Seq(Int) BY <3>1, <3>2, FunctionIsListOf
    <3> QED BY <3>3, <3>4, TotalOfType
  <2> QED BY <1>1, <2>1, <2>2, <2>3
<1>10. m \in Nat /\ n \in Nat /\ Len(st.consumed) \in Nat BY <1>2, IsListShape
<1>11. st.networkFee \in Int /\ st.serviceFee \in Int
  <2>1. st.networkFee \in Int BY <1>3 DEF TotalsHold
  <2>2. st.serviceFee \in Int
    <3>1. CASE p.flat
      <4>1. p.flatFee \in Int BY DEF ProfileParses
      <4>2. st.serviceFee = p.flatFee * Len(st.consumed) BY <1>3, <3>1 DEF ServiceFeeHolds
      <4> QED BY <1>10, <4>1, <4>2
    <3>2. CASE ~p.flat
      <4>1. st.serviceFee = 0 BY <1>3, <3>2 DEF ServiceFeeHolds
      <4> QED BY <4>1
    <3> QED BY <3>1, <3>2
  <2> QED BY <2>1, <2>2
<1>12. (m - n) * c = st.networkFee + st.serviceFee /\ ~Overflows(st.networkFee + st.serviceFee)
  BY <1>3 DEF GapPaysFees
<1> HIDE DEF c, m, n
<1>13. m * c = n * c + (st.networkFee + st.serviceFee)
  <2>1. (m - n) * c = m * c - n * c BY <1>1, <1>10
  <2>2. m * c \in Int /\ n * c \in Int /\ st.networkFee + st.serviceFee \in Int BY <1>1, <1>10, <1>11
  <2> DEFINE x == m * c
             y == n * c
             z == st.networkFee + st.serviceFee
  <2>3. x - y = z /\ x \in Int /\ y \in Int BY <1>12, <2>1, <2>2
  <2> HIDE DEF x, y, z
  <2>4. x = y + z BY <2>3
  <2> QED BY <2>4 DEF x, y, z
<1>14. ~Overflows(m * c) /\ ~Overflows(n * c)
  <2> DEFINE x == m * c
             y == n * c
  <2>1. x \in Int /\ y \in Int /\ x <= InputTotal(st) /\ y <= OutputTotal(st)
    BY <1>1, <1>7, <1>8, <1>10
  <2> HIDE DEF x, y
  <2>2. ~(x > MaxMoney) /\ ~(y > MaxMoney) BY <1>1, <1>9, <2>1
  <2> QED BY <2>2 DEF x, y, Overflows
<1> QED BY <1>5, <1>7, <1>8, <1>10, <1>11, <1>12, <1>13, <1>14 DEF PublicMoney, c, m, n
(***************************************************************************)
(* The checks of the later stages.                                         *)
(***************************************************************************)

\* The sums of the two sides, as the public statement gives them, pass every check of
\* the private conservation.
LEMMA ConservationStage ==
  ASSUME NEW i, NEW c \in Int, PublicMoney(i.statement, c),
         Sum(i.consumed, LAMBDA w : w.note.value) = Len(i.statement.consumedCells) * c,
         Sum(i.created, LAMBDA w : w.note.value) = Len(i.statement.createdCells) * c
  PROVE  ChecksOf(ConservationChecks(i), {}) /\ AllPass(ConservationChecks(i))
<1> DEFINE consumed == Sum(i.consumed, LAMBDA w : w.note.value)
           created == Sum(i.created, LAMBDA w : w.note.value)
           fee == i.statement.networkFee + i.statement.serviceFee
           a == Check(\E t \in {consumed, created, fee, created + fee} : Overflows(t),
                      "private-value-arithmetic", "private-value-sum-overflow")
           b == Check(consumed # created + fee, "private-conservation", "private-conservation-mismatch")
<1>1. ConservationChecks(i) = <<a, b>> BY DEF ConservationChecks
<1>2. /\ consumed = created + fee
      /\ ~Overflows(consumed) /\ ~Overflows(created) /\ ~Overflows(fee)
  BY DEF PublicMoney
<1> HIDE DEF consumed, created, fee
<1>3. ~a.fails /\ ~b.fails BY <1>2 DEF Check
<1> HIDE DEF a, b
<1>4. ChecksOf(<<a, b>>, {}) BY <1>3, TwoChecks
<1> QED BY <1>1, <1>4 DEF ChecksOf, AllPass

\* The material of one authority names a consumed note and is signed by its owner.
AuthorityIsGood(i, k) ==
    LET w == i.authorities[k]
        found == Opening(i.consumed, w.id)
    IN  /\ w.statement = StatementCommitment(i.statement)
        /\ ~RepeatsEarlier(IdsOf(i.authorities), k)
        /\ NamesNote(w, found) /\ NamesBundle(w, found)
        /\ OwnerCommitment(w.key) = found[1].note.owner
        /\ w.signature = Signature(w.key, SpendMessage(StatementCommitment(i.statement), w.note, w.bundle))

LEMMA AuthorityItemStage ==
  ASSUME NEW i, NEW k
  PROVE  /\ ChecksOf(AuthorityItemChecks(i, k), {"consumed-authority"})
         /\ AllPass(AuthorityItemChecks(i, k)) => AuthorityIsGood(i, k)
<1> DEFINE S == {"consumed-authority"}
           w == i.authorities[k]
           found == Opening(i.consumed, w.id)
           message == SpendMessage(StatementCommitment(i.statement), w.note, w.bundle)
           c1 == Check(w.statement # StatementCommitment(i.statement),
                       "consumed-authority", "authority-statement-mismatch")
           c2 == Check(RepeatsEarlier(IdsOf(i.authorities), k) \/ ~NamesNote(w, found),
                       "consumed-authority", "authority-note-mismatch")
           c3 == Check(~NamesBundle(w, found), "consumed-authority", "authority-bundle-mismatch")
           c4 == Check(found # <<>> /\ OwnerCommitment(w.key) # found[1].note.owner,
                       "consumed-authority", "authority-commitment-mismatch")
           c5 == Check(~KeyParses(w.key), "consumed-authority", "authority-public-key-malformed")
           c6 == Check(w.signature # Signature(w.key, message),
                       "consumed-authority", "authority-signature-invalid")
<1>1. AuthorityItemChecks(i, k) = <<c1, c2, c3, c4, c5, c6>> BY DEF AuthorityItemChecks
<1>2. /\ c1.stage \in S /\ c2.stage \in S /\ c3.stage \in S
      /\ c4.stage \in S /\ c5.stage \in S /\ c6.stage \in S
  BY DEF Check
<1>3. /\ ~c1.fails => w.statement = StatementCommitment(i.statement)
      /\ ~c2.fails => ~RepeatsEarlier(IdsOf(i.authorities), k) /\ NamesNote(w, found)
      /\ ~c3.fails => NamesBundle(w, found)
      /\ ~c4.fails => (found # <<>> => OwnerCommitment(w.key) = found[1].note.owner)
      /\ ~c6.fails => w.signature = Signature(w.key, message)
  BY DEF Check
<1>4. NamesNote(w, found) => found # <<>> BY DEF NamesNote
<1>5. /\ w.statement = StatementCommitment(i.statement)
      /\ ~RepeatsEarlier(IdsOf(i.authorities), k) /\ NamesNote(w, found) /\ NamesBundle(w, found)
      /\ OwnerCommitment(w.key) = found[1].note.owner /\ w.signature = Signature(w.key, message)
      => AuthorityIsGood(i, k)
  BY DEF AuthorityIsGood
<1> HIDE DEF c1, c2, c3, c4, c5, c6, S, w, found, message
<1>6. /\ ChecksOf(<<c1, c2, c3, c4, c5, c6>>, S)
      /\ AllPass(<<c1, c2, c3, c4, c5, c6>>) => ~c1.fails /\ ~c2.fails /\ ~c3.fails /\ ~c4.fails /\ ~c6.fails
  BY <1>2, SixChecks
<1>7. AllPass(<<c1, c2, c3, c4, c5, c6>>) => AuthorityIsGood(i, k)
  BY <1>3, <1>4, <1>5, <1>6
<1> QED BY <1>1, <1>6, <1>7 DEF S

LEMMA AuthorityStage ==
  ASSUME NEW i, InputParses(i)
  PROVE  /\ ChecksOf(AuthorityChecks(i), {"consumed-authority"})
         /\ AllPass(AuthorityChecks(i)) =>
               /\ Len(i.authorities) = Len(i.consumed)
               /\ \A k \in DOMAIN i.authorities : AuthorityIsGood(i, k)
<1> DEFINE S == {"consumed-authority"}
           n == CountChecks(Len(i.authorities), Len(i.consumed), "consumed-authority",
                            "authority-material-missing", "authority-material-malformed")
           lists == [k \in DOMAIN i.authorities |-> AuthorityItemChecks(i, k)]
           flat == FlattenSeq(lists)
<1>1. AuthorityChecks(i) = n \o flat BY DEF AuthorityChecks, ForEach
<1>2. /\ Len(i.authorities) \in Nat /\ DOMAIN i.authorities = 1..Len(i.authorities)
      /\ Len(i.consumed) \in Nat
  <2>1. IsList(i.authorities) /\ IsList(i.consumed) BY InputLists
  <2> QED BY <2>1, IsListShape
<1>3. ChecksOf(n, S) /\ (AllPass(n) => Len(i.authorities) = Len(i.consumed))
  <2>1. "consumed-authority" \in S OBVIOUS
  <2> HIDE DEF S
  <2>2. /\ ChecksOf(n, S)
        /\ AllPass(n) => ~(Len(i.authorities) < Len(i.consumed)) /\ ~(Len(i.authorities) > Len(i.consumed))
    BY <2>1, CountedChecks
  <2> HIDE DEF n
  <2> QED BY <1>2, <2>2
<1>4. ChecksOf(flat, S) /\ (AllPass(flat) => \A k \in 1..Len(i.authorities) : AllPass(lists[k]))
  <2>1. \A k \in 1..Len(i.authorities) : ChecksOf(lists[k], S) BY <1>2, AuthorityItemStage
  <2>2. lists = [k \in 1..Len(i.authorities) |-> lists[k]] BY <1>2
  <2> HIDE DEF lists, S
  <2> QED BY <1>2, <2>1, <2>2, FlattenedChecks
<1>5. \A k \in DOMAIN i.authorities : AllPass(lists[k]) => AuthorityIsGood(i, k)
  BY AuthorityItemStage
<1> HIDE DEF n, flat, lists, S
<1>6. ChecksOf(n \o flat, S) /\ (AllPass(n \o flat) => AllPass(n) /\ AllPass(flat))
  BY <1>3, <1>4, JoinedChecks
<1>7. AllPass(AuthorityChecks(i)) => /\ Len(i.authorities) = Len(i.consumed)
                                     /\ \A k \in DOMAIN i.authorities : AuthorityIsGood(i, k)
  BY <1>1, <1>2, <1>3, <1>4, <1>5, <1>6
<1> QED BY <1>1, <1>6, <1>7 DEF S

NullifierStages == {"consumed-nullifier", "statement-nullifier-correspondence"}

\* The material of one nullifier names a consumed note and is derived with the key that
\* authorises it.
NullifierIsGood(i, k) ==
    LET w == i.nullifiers[k]
        found == Opening(i.consumed, w.id)
    IN  /\ w.statement = StatementCommitment(i.statement)
        /\ ~RepeatsEarlier(IdsOf(i.nullifiers), k)
        /\ NamesNote(w, found) /\ NamesBundle(w, found)
        /\ \E a \in ToSet(i.authorities) : a.id = w.id /\ a.key = w.key
        /\ DerivedNullifiers(i)[k] = w.nullifier

LEMMA NullifierItemStage ==
  ASSUME NEW i, NEW k
  PROVE  /\ ChecksOf(NullifierItemChecks(i, k), NullifierStages)
         /\ AllPass(NullifierItemChecks(i, k)) => NullifierIsGood(i, k)
<1> DEFINE w == i.nullifiers[k]
           found == Opening(i.consumed, w.id)
           derived == DerivedNullifiers(i)
           c1 == Check(w.statement # StatementCommitment(i.statement),
                       "consumed-nullifier", "nullifier-statement-mismatch")
           c2 == Check(~NamesNote(w, found), "consumed-nullifier", "nullifier-note-mismatch")
           c3 == Check(~NamesBundle(w, found), "consumed-nullifier", "nullifier-bundle-mismatch")
           c4 == Check(\/ ~\E a \in ToSet(i.authorities) : a.id = w.id /\ a.key = w.key
                       \/ derived[k] # w.nullifier,
                       "consumed-nullifier", "nullifier-derivation-mismatch")
           c5 == Check(RepeatsEarlier(IdsOf(i.nullifiers), k) \/ RepeatsEarlier(derived, k),
                       "consumed-nullifier", "nullifier-duplicate")
<1>1. NullifierItemChecks(i, k) = <<c1, c2, c3, c4, c5>> BY DEF NullifierItemChecks
<1>2. /\ c1.stage \in NullifierStages /\ c2.stage \in NullifierStages /\ c3.stage \in NullifierStages
      /\ c4.stage \in NullifierStages /\ c5.stage \in NullifierStages
  BY DEF Check, NullifierStages
<1>3. /\ ~c1.fails => w.statement = StatementCommitment(i.statement)
      /\ ~c2.fails => NamesNote(w, found)
      /\ ~c3.fails => NamesBundle(w, found)
      /\ ~c4.fails => /\ \E a \in ToSet(i.authorities) : a.id = w.id /\ a.key = w.key
                      /\ derived[k] = w.nullifier
      /\ ~c5.fails => ~RepeatsEarlier(IdsOf(i.nullifiers), k)
  BY DEF Check
<1>4. /\ w.statement = StatementCommitment(i.statement)
      /\ ~RepeatsEarlier(IdsOf(i.nullifiers), k) /\ NamesNote(w, found) /\ NamesBundle(w, found)
      /\ \E a \in ToSet(i.authorities) : a.id = w.id /\ a.key = w.key
      /\ derived[k] = w.nullifier
      => NullifierIsGood(i, k)
  BY DEF NullifierIsGood
<1> HIDE DEF c1, c2, c3, c4, c5, w, found, derived
<1>5. /\ ChecksOf(<<c1, c2, c3, c4, c5>>, NullifierStages)
      /\ AllPass(<<c1, c2, c3, c4, c5>>) => ~c1.fails /\ ~c2.fails /\ ~c3.fails /\ ~c4.fails /\ ~c5.fails
  BY <1>2, FiveChecks
<1>6. AllPass(<<c1, c2, c3, c4, c5>>) => NullifierIsGood(i, k) BY <1>3, <1>4, <1>5
<1> QED BY <1>1, <1>5, <1>6

LEMMA NullifierStage ==
  ASSUME NEW i, InputParses(i)
  PROVE  /\ ChecksOf(NullifierChecks(i), NullifierStages)
         /\ AllPass(NullifierChecks(i)) =>
               /\ Len(i.nullifiers) = Len(i.consumed)
               /\ \A k \in DOMAIN i.nullifiers : NullifierIsGood(i, k)
<1> DEFINE derived == DerivedNullifiers(i)
           public == {i.statement.consumed[k].nullifier : k \in DOMAIN i.statement.consumed}
           stage == "statement-nullifier-correspondence"
           n == CountChecks(Len(i.nullifiers), Len(i.consumed), stage,
                            "statement-nullifier-missing", "statement-nullifier-extra")
           lists == [k \in DOMAIN i.nullifiers |-> NullifierItemChecks(i, k)]
           c1 == Check(~ToSet(derived) \subseteq public, stage, "statement-nullifier-missing")
           c2 == Check(~public \subseteq ToSet(derived), stage, "statement-nullifier-extra")
           c3 == Check(\E k \in DOMAIN i.nullifiers :
                          ~\E t \in ToSet(i.statement.consumed) :
                              t.note = i.nullifiers[k].id /\ t.nullifier = derived[k],
                       stage, "statement-nullifier-mismatch")
<1>1. NullifierChecks(i) = n \o FlattenSeq(lists) \o <<c1, c2, c3>> BY DEF NullifierChecks, ForEach
<1>2. c1.stage \in NullifierStages /\ c2.stage \in NullifierStages /\ c3.stage \in NullifierStages
  BY DEF Check, NullifierStages
<1> HIDE DEF c1, c2, c3
<1>3. ChecksOf(<<c1, c2, c3>>, NullifierStages) BY <1>2, ThreeChecks
<1>4. ChecksOf(n, NullifierStages) /\ (AllPass(n) => Len(i.nullifiers) = Len(i.consumed))
  <2>1. stage \in NullifierStages BY DEF NullifierStages
  <2> HIDE DEF stage
  <2>2. /\ ChecksOf(n, NullifierStages)
        /\ AllPass(n) => ~(Len(i.nullifiers) < Len(i.consumed)) /\ ~(Len(i.nullifiers) > Len(i.consumed))
    BY <2>1, CountedChecks
  <2>3. IsList(i.nullifiers) /\ IsList(i.consumed) BY InputLists
  <2>4. Len(i.nullifiers) \in Nat /\ Len(i.consumed) \in Nat BY <2>3, IsListShape
  <2> HIDE DEF n
  <2> QED BY <2>2, <2>4
<1> DEFINE flat == FlattenSeq(lists)
<1>5. ChecksOf(flat, NullifierStages) /\ (AllPass(flat) => \A k \in DOMAIN i.nullifiers : NullifierIsGood(i, k))
  <2>1. IsList(i.nullifiers) BY InputLists
  <2>2. Len(i.nullifiers) \in Nat /\ DOMAIN i.nullifiers = 1..Len(i.nullifiers) BY <2>1, IsListShape
  <2>3. \A k \in 1..Len(i.nullifiers) : /\ ChecksOf(lists[k], NullifierStages)
                                        /\ AllPass(lists[k]) => NullifierIsGood(i, k)
    BY <2>2, NullifierItemStage
  <2>4. lists = [k \in 1..Len(i.nullifiers) |-> lists[k]] BY <2>2
  <2> HIDE DEF lists
  <2>5. ChecksOf(flat, NullifierStages) /\ (AllPass(flat) => \A k \in 1..Len(i.nullifiers) : AllPass(lists[k]))
    BY <2>2, <2>3, <2>4, FlattenedChecks
  <2> QED BY <2>2, <2>3, <2>5
<1>6. NullifierChecks(i) = n \o flat \o <<c1, c2, c3>> BY <1>1
<1> HIDE DEF n, lists, flat
<1>7. /\ ChecksOf(NullifierChecks(i), NullifierStages)
      /\ AllPass(NullifierChecks(i)) => AllPass(n) /\ AllPass(flat)
  BY <1>3, <1>4, <1>5, <1>6, JoinedThree
<1> QED BY <1>4, <1>5, <1>7

RecoveryStages == {"recovery-consistency"}

PublicTuple(tuples, id) == Kept(tuples, {n \in DOMAIN tuples : tuples[n].note = id})

\* The evidence is for a created note, whose packet it numbers and rebuilds as the statement
\* does; it uses a descriptor of its own, the one of the owner of the note.
RecoveryIsGood(i, k) ==
    LET w == i.recovery[k]
        found == Opening(i.created, w.id)
        public == PublicTuple(i.statement.created, w.id)
    IN  /\ found # <<>> /\ public # <<>>
        /\ w.statement = StatementCommitment(i.statement)
        /\ w.note = public[1].note
        /\ w.packet = public[1].packet
        /\ w.scope = i.statement.scope /\ w.descriptor.network = i.statement.network
        /\ ~ReusesDescriptor(i, k)
        /\ OwnerCommitment(w.descriptor.key) = found[1].note.owner
        /\ PacketHash(RebuiltPacket(i, w)) = public[1].hash

LEMMA RecoveryItemStage ==
  ASSUME NEW i, NEW k
  PROVE  /\ ChecksOf(RecoveryItemChecks(i, k), RecoveryStages)
         /\ AllPass(RecoveryItemChecks(i, k)) => RecoveryIsGood(i, k)
<1> DEFINE t == RecoveryItemChecks(i, k)
           w == i.recovery[k]
           found == Opening(i.created, w.id)
           public == PublicTuple(i.statement.created, w.id)
           known == found # <<>> /\ public # <<>>
<1>1. t = [n \in 1..7 |-> t[n]] /\ \A n \in 1..7 : t[n].stage = "recovery-consistency"
  <2>1. t = [n \in 1..7 |-> t[n]] BY DEF RecoveryItemChecks
  <2>2. /\ t[1].stage = "recovery-consistency" /\ t[2].stage = "recovery-consistency"
        /\ t[3].stage = "recovery-consistency" /\ t[4].stage = "recovery-consistency"
        /\ t[5].stage = "recovery-consistency" /\ t[6].stage = "recovery-consistency"
        /\ t[7].stage = "recovery-consistency"
    BY DEF RecoveryItemChecks, Check
  <2> HIDE DEF t
  <2> QED BY <2>1, <2>2
<1>2. /\ ~t[1].fails => w.statement = StatementCommitment(i.statement)
      /\ ~t[3].fails => known /\ w.note = public[1].note
      /\ ~t[4].fails => (known => w.packet = public[1].packet)
      /\ ~t[5].fails => /\ w.scope = i.statement.scope /\ w.descriptor.network = i.statement.network
                        /\ ~ReusesDescriptor(i, k)
      /\ ~t[6].fails => (known => OwnerCommitment(w.descriptor.key) = found[1].note.owner)
      /\ ~t[7].fails => (known => PacketHash(RebuiltPacket(i, w)) = public[1].hash)
  BY DEF RecoveryItemChecks, Check, PublicTuple
<1>3. /\ known /\ w.statement = StatementCommitment(i.statement)
      /\ w.note = public[1].note /\ w.packet = public[1].packet
      /\ w.scope = i.statement.scope /\ w.descriptor.network = i.statement.network
      /\ ~ReusesDescriptor(i, k)
      /\ OwnerCommitment(w.descriptor.key) = found[1].note.owner
      /\ PacketHash(RebuiltPacket(i, w)) = public[1].hash
      => RecoveryIsGood(i, k)
  BY DEF RecoveryIsGood
<1> HIDE DEF t, known, found, public, w
<1>4. IsList(t) /\ DOMAIN t = 1..7
  <2>1. 7 \in Nat OBVIOUS
  <2> QED BY <1>1, <2>1, IntervalIsList
<1>5. AllPass(t) => ~t[1].fails /\ ~t[3].fails /\ ~t[4].fails /\ ~t[5].fails /\ ~t[6].fails /\ ~t[7].fails
  <2>1. 1 \in 1..7 /\ 3 \in 1..7 /\ 4 \in 1..7 /\ 5 \in 1..7 /\ 6 \in 1..7 /\ 7 \in 1..7 OBVIOUS
  <2> QED BY <1>4, <2>1 DEF AllPass
<1>6. AllPass(t) => RecoveryIsGood(i, k) BY <1>2, <1>3, <1>5
<1> QED BY <1>1, <1>4, <1>6 DEF ChecksOf, RecoveryStages, t

\* The table is the one of the packets that the evidence rebuilds, and the carriers push
\* the slices of their bin.
RebuiltPackets(i) == [k \in DOMAIN i.recovery |-> RebuiltPacket(i, i.recovery[k])]
TableIsGood(i) ==
    LET carriers == OfRole(i.statement.outputs, "carrier")
    IN  /\ \A k \in DOMAIN i.recovery : i.recovery[k].packet = k - 1
        /\ i.table.packets = RebuiltPackets(i)
        /\ i.table.hashes = [k \in DOMAIN i.recovery |-> PacketHash(RebuiltPacket(i, i.recovery[k]))]
        /\ i.table.bin = PacketBin(RebuiltPackets(i)) /\ i.table.root = BinRoot(PacketBin(RebuiltPackets(i)))
        /\ \A n \in DOMAIN carriers : carriers[n].lock = CarrierLock(PacketBin(RebuiltPackets(i)), n)

LEMMA TableStage ==
  ASSUME NEW i
  PROVE  /\ ChecksOf(TableChecks(i), RecoveryStages)
         /\ AllPass(TableChecks(i)) => TableIsGood(i)
<1> DEFINE t == TableChecks(i)
<1>1. t = [n \in 1..9 |-> t[n]] /\ \A n \in 1..9 : t[n].stage = "recovery-consistency"
  BY DEF TableChecks, Check
<1>2. /\ ~t[1].fails => \A k \in DOMAIN i.recovery : i.recovery[k].packet = k - 1
      /\ ~t[5].fails =>
            /\ i.table.packets = RebuiltPackets(i)
            /\ i.table.hashes = [k \in DOMAIN i.recovery |-> PacketHash(RebuiltPacket(i, i.recovery[k]))]
      /\ ~t[6].fails =>
            i.table.bin = PacketBin(RebuiltPackets(i)) /\ i.table.root = BinRoot(PacketBin(RebuiltPackets(i)))
      /\ ~t[9].fails =>
            \A n \in DOMAIN OfRole(i.statement.outputs, "carrier") :
               OfRole(i.statement.outputs, "carrier")[n].lock = CarrierLock(PacketBin(RebuiltPackets(i)), n)
  BY DEF TableChecks, Check, RebuiltPackets
<1> HIDE DEF t
<1>3. IsList(t) /\ DOMAIN t = 1..9
  <2>1. 9 \in Nat OBVIOUS
  <2> QED BY <1>1, <2>1, IntervalIsList
<1>4. AllPass(t) => ~t[1].fails /\ ~t[5].fails /\ ~t[6].fails /\ ~t[9].fails
  <2>1. 1 \in 1..9 /\ 5 \in 1..9 /\ 6 \in 1..9 /\ 9 \in 1..9 OBVIOUS
  <2> QED BY <1>3, <2>1 DEF AllPass
<1>5. AllPass(t) => TableIsGood(i) BY <1>2, <1>4 DEF TableIsGood
<1> QED BY <1>1, <1>3, <1>5 DEF ChecksOf, RecoveryStages, t

LEMMA RecoveryStage ==
  ASSUME NEW i, InputParses(i)
  PROVE  /\ ChecksOf(RecoveryChecks(i), RecoveryStages)
         /\ AllPass(RecoveryChecks(i)) =>
               /\ Len(i.recovery) = Len(i.created)
               /\ i.table.statement = StatementCommitment(i.statement)
               /\ \A k \in DOMAIN i.recovery : RecoveryIsGood(i, k)
               /\ TableIsGood(i)
<1> DEFINE n == CountChecks(Len(i.recovery), Len(i.created), "recovery-consistency",
                            "recovery-evidence-missing", "recovery-evidence-extra")
           c == Check(i.table.statement # StatementCommitment(i.statement),
                      "recovery-consistency", "recovery-statement-reference-mismatch")
           d == Check(\/ Len(i.statement.created) # i.profile.packetCount
                      \/ Len(i.statement.createdCells) > i.profile.maxRecoveryCells,
                      "recovery-consistency", "recovery-packet-table-commitment-mismatch")
           lists == [k \in DOMAIN i.recovery |-> RecoveryItemChecks(i, k)]
           flat == FlattenSeq(lists)
<1>1. RecoveryChecks(i) = n \o <<c, d>> \o flat \o TableChecks(i)
  BY DEF RecoveryChecks, ForEach
<1>2. /\ c.stage \in RecoveryStages /\ d.stage \in RecoveryStages
      /\ ~c.fails => i.table.statement = StatementCommitment(i.statement)
  BY DEF Check, RecoveryStages
<1> HIDE DEF c, d
<1>3. ChecksOf(<<c, d>>, RecoveryStages) /\ (AllPass(<<c, d>>) => ~c.fails) BY <1>2, TwoChecks
<1>4. /\ Len(i.recovery) \in Nat /\ DOMAIN i.recovery = 1..Len(i.recovery) /\ Len(i.created) \in Nat
  <2>1. IsList(i.recovery) /\ IsList(i.created) BY InputLists
  <2> QED BY <2>1, IsListShape
<1>5. ChecksOf(n, RecoveryStages) /\ (AllPass(n) => Len(i.recovery) = Len(i.created))
  <2>1. "recovery-consistency" \in RecoveryStages BY DEF RecoveryStages
  <2>2. /\ ChecksOf(n, RecoveryStages)
        /\ AllPass(n) => ~(Len(i.recovery) < Len(i.created)) /\ ~(Len(i.recovery) > Len(i.created))
    BY <2>1, CountedChecks
  <2> HIDE DEF n
  <2> QED BY <1>4, <2>2
<1>6. /\ ChecksOf(flat, RecoveryStages)
      /\ AllPass(flat) => \A k \in 1..Len(i.recovery) : AllPass(lists[k])
  <2>1. \A k \in 1..Len(i.recovery) : ChecksOf(lists[k], RecoveryStages)
    BY <1>4, RecoveryItemStage
  <2>2. lists = [k \in 1..Len(i.recovery) |-> lists[k]] BY <1>4
  <2> HIDE DEF lists
  <2> QED BY <1>4, <2>1, <2>2, FlattenedChecks
<1>7. \A k \in DOMAIN i.recovery : AllPass(lists[k]) => RecoveryIsGood(i, k) BY RecoveryItemStage
<1>8. ChecksOf(TableChecks(i), RecoveryStages) /\ (AllPass(TableChecks(i)) => TableIsGood(i))
  BY TableStage
<1> HIDE DEF n, lists, flat
<1>9. /\ ChecksOf(RecoveryChecks(i), RecoveryStages)
      /\ AllPass(RecoveryChecks(i)) => AllPass(n) /\ AllPass(<<c, d>>) /\ AllPass(flat) /\ AllPass(TableChecks(i))
  BY <1>1, <1>3, <1>5, <1>6, <1>8, JoinedFour
<1>10. AllPass(flat) => \A k \in DOMAIN i.recovery : RecoveryIsGood(i, k)
  BY <1>4, <1>6, <1>7
<1>11. AllPass(RecoveryChecks(i)) => i.table.statement = StatementCommitment(i.statement) BY <1>2, <1>3, <1>9
<1> QED BY <1>5, <1>8, <1>9, <1>10, <1>11
(***************************************************************************)
(* The evaluation.                                                         *)
(***************************************************************************)

ConsumedBundleChecks(i) ==
    BundleChecks(i.consumed, i.consumedCells, IndexesOf(i.statement.consumedCells), "consumed-bundle")
CreatedBundleChecks(i) ==
    BundleChecks(i.created, i.createdCells, IndexesOf(i.statement.createdCells), "created-bundle")

\* The checks before the private conservation, but those of the exit keys.
EarlyChecksHold(i) ==
    /\ AllPass(LogicalChecks(i)) /\ AllPass(CellChecks(i))
    /\ AllPass(ConsumedBundleChecks(i)) /\ AllPass(CreatedBundleChecks(i))

\* Every check of the evaluation, but those of the private conservation.
EveryCheckHolds(i) ==
    /\ i.expected = StatementCommitment(i.statement)
    /\ EarlyChecksHold(i) /\ AllPass(ExitChecks(i))
    /\ AllPass(AuthorityChecks(i)) /\ AllPass(NullifierChecks(i)) /\ AllPass(RecoveryChecks(i))

LEMMA ConsumedBundleStage ==
  ASSUME NEW i, InputParses(i)
  PROVE  /\ ChecksOf(ConsumedBundleChecks(i), {"consumed-bundle"})
         /\ AllPass(ConsumedBundleChecks(i)) =>
               BundlesAreOpened(i.consumed, i.consumedCells, IndexesOf(i.statement.consumedCells))
<1>1. IsList(i.consumed) /\ IsList(i.consumedCells) BY InputLists
<1>2. \A k \in DOMAIN i.consumed : BundleParses(i.consumed[k].bundle) BY BundlesParse
<1> QED BY <1>1, <1>2, BundleStage DEF ConsumedBundleChecks

LEMMA CreatedBundleStage ==
  ASSUME NEW i, InputParses(i)
  PROVE  /\ ChecksOf(CreatedBundleChecks(i), {"created-bundle"})
         /\ AllPass(CreatedBundleChecks(i)) =>
               BundlesAreOpened(i.created, i.createdCells, IndexesOf(i.statement.createdCells))
<1>1. IsList(i.created) /\ IsList(i.createdCells) BY InputLists
<1>2. \A k \in DOMAIN i.created : BundleParses(i.created[k].bundle) BY BundlesParse
<1> QED BY <1>1, <1>2, BundleStage DEF CreatedBundleChecks

\* Both sides share out their public cells, and are worth what these are.
LEMMA BothSides ==
  ASSUME NEW i, InputParses(i), EarlyChecksHold(i)
  PROVE  LET st == i.statement
             c == i.profile.cellValue
         IN  /\ c \in Int /\ PublicMoney(st, c)
             /\ SharesOut(i.consumed, i.consumedCells, st.consumedCells, st.inputs)
             /\ SharesOut(i.created, i.createdCells, st.createdCells, st.outputs)
             /\ Sum(i.consumed, LAMBDA w : w.note.value) = Len(st.consumedCells) * c
             /\ Sum(i.created, LAMBDA w : w.note.value) = Len(st.createdCells) * c
<1> DEFINE st == i.statement
           c == i.profile.cellValue
<1>1. ProfileParses(i.profile) /\ StatementParses(st, i.profile) BY DEF InputParses
<1>2. c \in Int BY <1>1 DEF ProfileParses
<1>3. PublicMoney(st, c) BY <1>1, StatementMoney
<1>4. /\ IsList(i.consumed) /\ IsList(i.created) /\ IsList(i.consumedCells) /\ IsList(i.createdCells)
      /\ IsList(st.consumedCells) /\ IsList(st.createdCells)
  <2>1. IsList(st.consumedCells) /\ IsList(st.createdCells) BY <1>1, StatementLists
  <2> QED BY <2>1, InputLists
<1>5. /\ \A k \in DOMAIN i.consumed : BundleParses(i.consumed[k].bundle)
      /\ \A k \in DOMAIN i.created : BundleParses(i.created[k].bundle)
  BY BundlesParse
<1>6. Distinct(IdsOf(i.consumed)) /\ Distinct(IdsOf(i.created))
  BY LogicalStage DEF EarlyChecksHold, NotesMatch
<1>7. /\ \A k \in DOMAIN i.consumedCells : ValueIsProjected(i.consumedCells[k], st.inputs)
      /\ \A k \in DOMAIN i.createdCells : ValueIsProjected(i.createdCells[k], st.outputs)
  BY CellStage DEF EarlyChecksHold, ConsumedCellHolds, CreatedCellHolds
<1>8. /\ BundlesAreOpened(i.consumed, i.consumedCells, IndexesOf(st.consumedCells))
      /\ BundlesAreOpened(i.created, i.createdCells, IndexesOf(st.createdCells))
  BY ConsumedBundleStage, CreatedBundleStage DEF EarlyChecksHold
<1>9. /\ \A k \in DOMAIN st.consumedCells : At(st.inputs, st.consumedCells[k].index).value = c
      /\ \A k \in DOMAIN st.createdCells : At(st.outputs, st.createdCells[k].index).value = c
      /\ NoneTwice(IndexesOf(st.consumedCells), Len(st.consumedCells))
      /\ NoneTwice(IndexesOf(st.createdCells), Len(st.createdCells))
  BY <1>3 DEF PublicMoney
<1>10. SideIsOpened(i.consumed, i.consumedCells, st.consumedCells, st.inputs, c)
  BY <1>4, <1>5, <1>6, <1>7, <1>8, <1>9 DEF SideIsOpened
<1>11. SideIsOpened(i.created, i.createdCells, st.createdCells, st.outputs, c)
  BY <1>4, <1>5, <1>6, <1>7, <1>8, <1>9 DEF SideIsOpened
<1> HIDE DEF st, c
<1>12. /\ SharesOut(i.consumed, i.consumedCells, st.consumedCells, st.inputs)
       /\ Sum(i.consumed, LAMBDA w : w.note.value) = Len(st.consumedCells) * c
  BY <1>2, <1>10, SideIsBacked
<1>13. /\ SharesOut(i.created, i.createdCells, st.createdCells, st.outputs)
       /\ Sum(i.created, LAMBDA w : w.note.value) = Len(st.createdCells) * c
  BY <1>2, <1>11, SideIsBacked
<1> QED BY <1>2, <1>3, <1>12, <1>13 DEF st, c

EarlyStages ==
    {"statement-boundary", "witness-identity", "created-exit-authority", "consumed-bundle", "created-bundle"}
LateStages ==
    {"consumed-nullifier", "statement-nullifier-correspondence", "recovery-consistency", "accepted"}

\* Where an evaluation ends, and what its stage says of the checks before it.
LEMMA EvaluationStages ==
  ASSUME NEW i, InputParses(i)
  PROVE  LET v == Evaluation(i)
         IN  /\ v.stage \in EarlyStages \cup {"consumed-authority"} \cup LateStages
             /\ v.stage = "accepted" => v = Accepted
             /\ v.stage \in {"consumed-authority"} \cup LateStages => EarlyChecksHold(i)
             /\ v.stage \in LateStages => AllPass(AuthorityChecks(i))
             /\ v = Accepted => EveryCheckHolds(i)
<1> DEFINE c0 == Check(i.expected # StatementCommitment(i.statement),
                       "statement-boundary", "expected-statement-commitment-mismatch")
           v9 == FirstFailure(RecoveryChecks(i), Accepted)
           v8 == FirstFailure(NullifierChecks(i), v9)
           v7 == FirstFailure(AuthorityChecks(i), v8)
           v6 == FirstFailure(ConservationChecks(i), v7)
           v5 == FirstFailure(CreatedBundleChecks(i), v6)
           v4 == FirstFailure(ConsumedBundleChecks(i), v5)
           v3 == FirstFailure(ExitChecks(i), v4)
           v2 == FirstFailure(CellChecks(i), v3)
           v1 == FirstFailure(LogicalChecks(i), v2)
           v0 == FirstFailure(<<c0>>, v1)
<1>1. Evaluation(i) = v0 BY DEF Evaluation, ConsumedBundleChecks, CreatedBundleChecks
<1>2. (i.expected = StatementCommitment(i.statement) /\ v0 = v1) \/ v0.stage = "statement-boundary"
  <2>1. /\ c0.stage \in {"statement-boundary"}
        /\ ~c0.fails => i.expected = StatementCommitment(i.statement)
    BY DEF Check
  <2> HIDE DEF c0, v1
  <2>2. ChecksOf(<<c0>>, {"statement-boundary"}) /\ (AllPass(<<c0>>) => ~c0.fails) BY <2>1, OneCheck
  <2>3. (AllPass(<<c0>>) /\ v0 = v1) \/ v0.stage \in {"statement-boundary"} BY <2>2, FirstFailureStages
  <2> QED BY <2>1, <2>2, <2>3
<1>3. (AllPass(LogicalChecks(i)) /\ v1 = v2) \/ v1.stage \in {"witness-identity"}
  <2> HIDE DEF v2
  <2> QED BY LogicalStage, FirstFailureStages
<1>4. (AllPass(CellChecks(i)) /\ v2 = v3) \/ v2.stage \in CellStages
  <2> HIDE DEF v3
  <2> QED BY CellStage, FirstFailureStages
<1>5. (AllPass(ExitChecks(i)) /\ v3 = v4) \/ v3.stage \in ExitStages
  <2> HIDE DEF v4
  <2> QED BY ExitStage, FirstFailureStages
<1>6. (AllPass(ConsumedBundleChecks(i)) /\ v4 = v5) \/ v4.stage \in {"consumed-bundle"}
  <2> HIDE DEF v5
  <2> QED BY ConsumedBundleStage, FirstFailureStages
<1>7. (AllPass(CreatedBundleChecks(i)) /\ v5 = v6) \/ v5.stage \in {"created-bundle"}
  <2> HIDE DEF v6
  <2> QED BY CreatedBundleStage, FirstFailureStages
<1>8. EarlyChecksHold(i) => v6 = v7
  <2> SUFFICES ASSUME EarlyChecksHold(i) PROVE v6 = v7 OBVIOUS
  <2> DEFINE c == i.profile.cellValue
  <2>1. /\ c \in Int /\ PublicMoney(i.statement, c)
        /\ Sum(i.consumed, LAMBDA w : w.note.value) = Len(i.statement.consumedCells) * c
        /\ Sum(i.created, LAMBDA w : w.note.value) = Len(i.statement.createdCells) * c
    BY BothSides
  <2> HIDE DEF v7, c
  <2>2. ChecksOf(ConservationChecks(i), {}) /\ AllPass(ConservationChecks(i))
    BY <2>1, ConservationStage
  <2> QED BY <2>2, FirstFailureStages
<1>9. (AllPass(AuthorityChecks(i)) /\ v7 = v8) \/ v7.stage \in {"consumed-authority"}
  <2> HIDE DEF v8
  <2> QED BY AuthorityStage, FirstFailureStages
<1>10. (AllPass(NullifierChecks(i)) /\ v8 = v9) \/ v8.stage \in NullifierStages
  <2> HIDE DEF v9
  <2> QED BY NullifierStage, FirstFailureStages
<1>11. (AllPass(RecoveryChecks(i)) /\ v9 = Accepted) \/ v9.stage \in RecoveryStages
  BY RecoveryStage, FirstFailureStages
<1>12. Accepted.stage = "accepted" BY DEF Accepted
<1> HIDE DEF v0, v1, v2, v3, v4, v5, v6, v7, v8, v9
\* From the authority on.
<1>13. /\ v7.stage \in {"consumed-authority"} \cup LateStages
       /\ v7.stage = "accepted" => v7 = Accepted
       /\ v7.stage \in LateStages => AllPass(AuthorityChecks(i))
       /\ v7 = Accepted => /\ AllPass(AuthorityChecks(i)) /\ AllPass(NullifierChecks(i))
                           /\ AllPass(RecoveryChecks(i))
  <2>1. /\ v8.stage \in LateStages
        /\ v8.stage = "accepted" => v8 = Accepted /\ AllPass(NullifierChecks(i)) /\ AllPass(RecoveryChecks(i))
    BY <1>10, <1>11, <1>12 DEF LateStages, NullifierStages, RecoveryStages
  <2>2. "consumed-authority" \notin LateStages /\ "consumed-authority" # "accepted" BY DEF LateStages
  <2> QED BY <1>9, <1>12, <2>1, <2>2
\* Before it.
<1>14. \/ v0.stage \in EarlyStages
       \/ /\ v0 = v7 /\ EarlyChecksHold(i)
          /\ i.expected = StatementCommitment(i.statement) /\ AllPass(ExitChecks(i))
  <2>1. \/ v0.stage \in EarlyStages
        \/ /\ v0 = v6 /\ EarlyChecksHold(i)
           /\ i.expected = StatementCommitment(i.statement) /\ AllPass(ExitChecks(i))
    BY <1>2, <1>3, <1>4, <1>5, <1>6, <1>7 DEF EarlyStages, CellStages, ExitStages, EarlyChecksHold
  <2> QED BY <1>8, <2>1
<1>15. \A s \in EarlyStages : s # "accepted" /\ s \notin {"consumed-authority"} \cup LateStages
  BY DEF EarlyStages, LateStages
<1>16. ASSUME v0 = Accepted PROVE EveryCheckHolds(i)
  <2>1. v0.stage = "accepted" BY <1>12, <1>16
  <2>2. /\ v0 = v7 /\ EarlyChecksHold(i)
        /\ i.expected = StatementCommitment(i.statement) /\ AllPass(ExitChecks(i))
    BY <1>14, <1>15, <2>1
  <2> QED BY <1>13, <1>16, <2>2 DEF EveryCheckHolds
<1>17. /\ v0.stage \in EarlyStages \cup {"consumed-authority"} \cup LateStages
       /\ v0.stage = "accepted" => v0 = Accepted
       /\ v0.stage \in {"consumed-authority"} \cup LateStages => EarlyChecksHold(i)
       /\ v0.stage \in LateStages => AllPass(AuthorityChecks(i))
  BY <1>13, <1>14, <1>15
<1> QED BY <1>1, <1>16, <1>17

LEMMA RankOf ==
  ASSUME NEW n \in 1..12
  PROVE  Rank(Stages[n]) = n
<1>1. Stages[n] # "created-exit-authority" BY DEF Stages
<1>2. n \in DOMAIN Stages BY DEF Stages
<1>3. \A m \in DOMAIN Stages : Stages[m] = Stages[n] => m = n BY DEF Stages
<1>4. Rank(Stages[n]) = CHOOSE m \in DOMAIN Stages : Stages[m] = Stages[n] BY <1>1 DEF Rank
<1> QED BY <1>2, <1>3, <1>4

LEMMA RanksOfStages ==
  /\ \A s \in EarlyStages : Rank(s) \in 1..6
  /\ Rank("consumed-authority") = 8 /\ Rank("consumed-nullifier") = 9
  /\ Rank("statement-nullifier-correspondence") = 10 /\ Rank("recovery-consistency") = 11
  /\ Rank("accepted") = 12
<1>1. \A n \in 1..12 : Rank(Stages[n]) = n BY RankOf
<1>2. /\ Stages[1] = "statement-boundary" /\ Stages[3] = "witness-identity"
      /\ Stages[4] = "private-value-arithmetic" /\ Stages[5] = "consumed-bundle"
      /\ Stages[6] = "created-bundle" /\ Stages[8] = "consumed-authority"
      /\ Stages[9] = "consumed-nullifier" /\ Stages[10] = "statement-nullifier-correspondence"
      /\ Stages[11] = "recovery-consistency" /\ Stages[12] = "accepted"
  BY DEF Stages
<1>3. /\ Rank("statement-boundary") = 1 /\ Rank("witness-identity") = 3
      /\ Rank("private-value-arithmetic") = 4 /\ Rank("consumed-bundle") = 5
      /\ Rank("created-bundle") = 6 /\ Rank("consumed-authority") = 8
      /\ Rank("consumed-nullifier") = 9 /\ Rank("statement-nullifier-correspondence") = 10
      /\ Rank("recovery-consistency") = 11 /\ Rank("accepted") = 12
  <2>1. /\ 1 \in 1..12 /\ 3 \in 1..12 /\ 4 \in 1..12 /\ 5 \in 1..12 /\ 6 \in 1..12
        /\ 8 \in 1..12 /\ 9 \in 1..12 /\ 10 \in 1..12 /\ 11 \in 1..12 /\ 12 \in 1..12
    OBVIOUS
  <2> QED BY <1>1, <1>2, <2>1
<1>4. Rank("created-exit-authority") = Rank("private-value-arithmetic") BY DEF Rank
<1>5. 1 \in 1..6 /\ 3 \in 1..6 /\ 4 \in 1..6 /\ 5 \in 1..6 /\ 6 \in 1..6 OBVIOUS
<1> QED BY <1>3, <1>4, <1>5 DEF EarlyStages

(***************************************************************************)
(* The invariant: whatever the plan and the material, the result is the    *)
(* relation's verdict on the input that arrived.                           *)
(***************************************************************************)

Faithful == result = Pending \/ result = PublicResult(input)

BatchInv ==
    /\ {"profile", "padding"} \subseteq DOMAIN plan
    /\ plan.profile \in Profiles /\ plan.padding \in Paddings
    /\ replans \in Nat /\ IsList(false) /\ IsList(lapses)
    /\ replans + Len(false) \in 0..MaxHostFaults
    /\ Len(lapses) \in 0..MaxLapses
    /\ Faithful

\* A changed plan is still of its profile.
SamePlanShape ==
    /\ DOMAIN plan' = DOMAIN plan
    /\ plan'.profile = plan.profile /\ plan'.padding = plan.padding

LEMMA NoItemsIsList == IsList(<<>>) /\ Len(<<>>) = 0
BY DEF IsList

LEMMA BatchInitially == Init => BatchInv
<1> SUFFICES ASSUME Init PROVE BatchInv OBVIOUS
<1>1. MaxHostFaults \in Nat /\ MaxLapses \in Nat BY BatchAssumption
<1>2. {"profile", "padding"} \subseteq DOMAIN plan /\ plan.profile \in Profiles /\ plan.padding \in Paddings
  BY DEF Init, BasePlan
<1>3. replans = 0 /\ false = <<>> /\ lapses = <<>> /\ result = Pending BY DEF Init
<1>4. replans + Len(false) = 0 BY <1>3, NoItemsIsList
<1> QED BY <1>1, <1>2, <1>3, <1>4, NoItemsIsList DEF BatchInv, Faithful

LEMMA ReplansAreChanges ==
  ASSUME BatchInv, HostReplans
  PROVE  /\ SamePlanShape
         /\ HostMayFail /\ false = <<>>
         /\ replans' = replans + 1
         /\ UNCHANGED <<false, lapses, result>>
<1> USE DEF Replan, SamePlanShape
<1>0. {"profile", "padding"} \subseteq DOMAIN plan BY DEF BatchInv
<1>1. ASSUME NEW side \in {"notes", "newNotes"}, NEW n \in 1 .. 2, NEW delta \in {-1, 1},
             RevalueNote(side, n, delta)
      PROVE  SamePlanShape /\ \E new : Replan(new)
  <2>1. side # "profile" /\ side # "padding" OBVIOUS
  <2> QED BY <1>0, <1>1, <2>1 DEF RevalueNote
<1>2. ASSUME NEW side \in {"cells", "newCells"}, NEW k, MoveCell(side, k)
      PROVE  SamePlanShape /\ \E new : Replan(new)
  <2>1. side # "profile" /\ side # "padding" OBVIOUS
  <2> QED BY <1>0, <1>2, <2>1 DEF MoveCell
<1>3. ASSUME NEW side \in {"cells", "newCells"}, NEW field, RevalueCell(side, 1, field)
      PROVE  SamePlanShape /\ \E new : Replan(new)
  <2>1. side # "profile" /\ side # "padding" OBVIOUS
  <2> QED BY <1>0, <1>3, <2>1 DEF RevalueCell
<1>4. ASSUME NEW side \in {"cells", "newCells"}, DropCell(side)
      PROVE  SamePlanShape /\ \E new : Replan(new)
  <2>1. side # "profile" /\ side # "padding" OBVIOUS
  <2> QED BY <1>0, <1>4, <2>1 DEF DropCell
<1>5. ASSUME ReuseExitKey \/ ReuseDescriptor \/ MalformExitKey \/ MalformOwnerKey
      PROVE  SamePlanShape /\ \E new : Replan(new)
  BY <1>0, <1>5 DEF ReuseExitKey, ReuseDescriptor, MalformExitKey, MalformOwnerKey
<1>6. ASSUME NEW delta \in {-1, 1}, ChangeNetworkFee(delta)
      PROVE  SamePlanShape /\ \E new : Replan(new)
  BY <1>0, <1>6 DEF ChangeNetworkFee
<1>7. ASSUME ChangeServiceFee \/ AddCell
      PROVE  SamePlanShape /\ \E new : Replan(new)
  BY <1>0, <1>7 DEF ChangeServiceFee, AddCell
<1>8. SamePlanShape /\ \E new : Replan(new)
  BY <1>1, <1>2, <1>3, <1>4, <1>5, <1>6, <1>7 DEF HostReplans
<1> QED BY <1>8

LEMMA BatchStep == BatchInv /\ [Next]_vars => BatchInv'
<1> SUFFICES ASSUME BatchInv, [Next]_vars PROVE BatchInv' OBVIOUS
<1>1. MaxHostFaults \in Nat /\ MaxLapses \in Nat BY BatchAssumption
<1>2. /\ replans \in Nat /\ Len(false) \in Nat /\ Len(lapses) \in Nat
      /\ IsList(false) /\ IsList(lapses)
  BY IsListShape DEF BatchInv
<1>3. CASE HostReplans
  <2>1. /\ SamePlanShape /\ HostMayFail /\ false = <<>> /\ replans' = replans + 1
        /\ UNCHANGED <<false, lapses, result>>
    BY <1>3, ReplansAreChanges
  <2>2. result = Pending /\ replans + Len(false) < MaxHostFaults BY <2>1 DEF HostMayFail
  <2>3. replans' + Len(false)' \in 0..MaxHostFaults BY <1>1, <1>2, <2>1, <2>2
  <2>4. Faithful' BY <2>1, <2>2 DEF Faithful
  <2> QED BY <1>2, <2>1, <2>3, <2>4 DEF BatchInv, SamePlanShape
<1>4. CASE StatementGoesWrong
  <2>1. PICK e : false' = Append(false, e) /\ UNCHANGED <<plan, replans, lapses, result>>
    BY <1>4 DEF StatementGoesWrong, MisstateTuple, MisstateHash, MisstateNumber, Misstate
  <2>2. result = Pending /\ replans + Len(false) < MaxHostFaults
    BY <1>4 DEF StatementGoesWrong, HostMayFail
  <2>3. IsList(false') /\ Len(false') = Len(false) + 1 BY <1>2, <2>1, AppendedList DEF IsList
  <2>4. replans' + Len(false') \in 0..MaxHostFaults BY <1>1, <1>2, <2>1, <2>2, <2>3
  <2>5. Faithful' BY <2>1, <2>2 DEF Faithful
  <2> QED BY <1>2, <2>1, <2>3, <2>4, <2>5 DEF BatchInv
<1>5. CASE MaterialGoesWrong
  <2>1. PICK e : lapses' = Append(lapses, e) /\ UNCHANGED <<plan, replans, false, result>>
    BY <1>5 DEF MaterialGoesWrong, GraftMaterial, LoseMaterial, RepeatMaterial, GraftTable, GraftExpected, Lapse
  <2>2. result = Pending /\ Len(lapses) < MaxLapses BY <1>5 DEF MaterialGoesWrong, MaterialMayFail
  <2>3. IsList(lapses') /\ Len(lapses') = Len(lapses) + 1 BY <1>2, <2>1, AppendedList DEF IsList
  <2>4. Len(lapses') \in 0..MaxLapses BY <1>1, <1>2, <2>2, <2>3
  <2>5. Faithful' BY <2>1, <2>2 DEF Faithful
  <2> QED BY <1>2, <2>1, <2>3, <2>4, <2>5 DEF BatchInv
<1>6. CASE Evaluate
  <2>1. result' = PublicResult(input) /\ UNCHANGED <<plan, replans, false, lapses>> BY <1>6 DEF Evaluate
  <2>2. input' = input BY <2>1 DEF input
  <2>3. Faithful' BY <2>1, <2>2 DEF Faithful
  <2> QED BY <2>1, <2>3 DEF BatchInv
<1>7. CASE UNCHANGED vars
  <2>1. UNCHANGED <<plan, replans, false, lapses, result>> BY <1>7 DEF vars
  <2>2. input' = input BY <2>1 DEF input
  <2>3. Faithful' BY <2>1, <2>2 DEF Faithful, BatchInv
  <2> QED BY <2>1, <2>3 DEF BatchInv
<1> QED BY <1>3, <1>4, <1>5, <1>6, <1>7 DEF Next

LEMMA BatchInvariant == Spec => []BatchInv
<1> QED BY BatchInitially, BatchStep, PTL DEF Spec

(***************************************************************************)
(* What the result says.                                                   *)
(***************************************************************************)

LEMMA ResultShape ==
  ASSUME BatchInv
  PROVE  \/ result.reached = {} /\ result.verdict \in {Malformed, Pending.verdict}
         \/ /\ InputParses(input)
            /\ result.verdict = Evaluation(input)
            /\ result.reached = Reached(result.verdict.stage)
<1>1. CASE result = Pending
  <2>1. result.reached = {} BY <1>1 DEF Pending, NoResult
  <2>2. result.verdict = Pending.verdict BY <1>1
  <2> QED BY <2>1, <2>2
<1>2. CASE result = PublicResult(input)
  <2>1. CASE Verdict(input) = Malformed
    <3>1. result = NoResult BY <1>2, <2>1 DEF PublicResult, ResultOf
    <3> QED BY <3>1 DEF NoResult
  <2>2. CASE Verdict(input) # Malformed
    <3>1. InputParses(input) /\ Verdict(input) = Evaluation(input) BY <2>2 DEF Verdict
    <3>2. result.verdict = Verdict(input) /\ result.reached = Reached(Verdict(input).stage)
      BY <1>2, <2>2 DEF PublicResult, ResultOf
    <3> QED BY <3>1, <3>2
  <2> QED BY <2>1, <2>2
<1> QED BY <1>1, <1>2 DEF BatchInv, Faithful

\* The stages a result reports, in terms of its verdict.
LEMMA ResultReached ==
  ASSUME BatchInv
  PROVE  /\ "consumed-authority" \in result.reached =>
               InputParses(input) /\ EarlyChecksHold(input)
         /\ "consumed-nullifier" \in result.reached =>
               InputParses(input) /\ AllPass(LogicalChecks(input)) /\ AllPass(AuthorityChecks(input))
         /\ result.verdict.stage \notin {"private-value-arithmetic", "private-conservation"}
         /\ result.reached \subseteq ReportedStages
         /\ "accepted" \in result.reached <=> result.verdict = Accepted
         /\ IsAccepted => InputParses(input) /\ EveryCheckHolds(input)
<1>1. CASE result.reached = {} /\ result.verdict \in {Malformed, Pending.verdict}
  <2>1. result.verdict.stage = "none" BY <1>1 DEF Malformed, Pending, NoResult
  <2>2. result.verdict # Accepted BY <2>1 DEF Accepted
  <2> QED BY <1>1, <2>1, <2>2 DEF IsAccepted
<1>2. CASE /\ InputParses(input) /\ result.verdict = Evaluation(input)
           /\ result.reached = Reached(result.verdict.stage)
  <2> DEFINE v == result.verdict
             s == v.stage
  <2>1. /\ s \in EarlyStages \cup {"consumed-authority"} \cup LateStages
        /\ s = "accepted" => v = Accepted
        /\ s \in {"consumed-authority"} \cup LateStages => EarlyChecksHold(input)
        /\ s \in LateStages => AllPass(AuthorityChecks(input))
        /\ v = Accepted => EveryCheckHolds(input)
    BY <1>2, EvaluationStages
  <2>2. /\ s \in EarlyStages => Rank(s) \in 1..6
        /\ s = "consumed-authority" => Rank(s) = 8
        /\ s = "consumed-nullifier" => Rank(s) = 9
        /\ s = "statement-nullifier-correspondence" => Rank(s) = 10
        /\ s = "recovery-consistency" => Rank(s) = 11
        /\ s = "accepted" => Rank(s) = 12
    BY RanksOfStages
  <2>3. /\ \A t \in ReportedStages : t \in Reached(s) <=> Rank(s) >= Rank(t)
        /\ Reached(s) \subseteq ReportedStages
        /\ {"consumed-authority", "consumed-nullifier", "accepted"} \subseteq ReportedStages
    BY DEF Reached, ReportedStages
  <2>4. v = Accepted => s = "accepted" BY DEF Accepted
  <2>5. s \notin {"private-value-arithmetic", "private-conservation"}
    BY <2>1 DEF EarlyStages, LateStages
  <2> HIDE DEF s, v
  <2>6. result.reached = Reached(s) BY <1>2 DEF s, v
  <2>7. /\ Rank("consumed-authority") = 8 /\ Rank("consumed-nullifier") = 9 /\ Rank("accepted") = 12
    BY RanksOfStages
  <2>8. ASSUME "consumed-authority" \in result.reached PROVE EarlyChecksHold(input)
    <3>1. Rank(s) >= 8 BY <2>3, <2>6, <2>7, <2>8
    <3>2. s \notin EarlyStages BY <2>2, <3>1
    <3> QED BY <2>1, <3>2
  <2>9. ASSUME "consumed-nullifier" \in result.reached
        PROVE  EarlyChecksHold(input) /\ AllPass(AuthorityChecks(input))
    <3>1. Rank(s) >= 9 BY <2>3, <2>6, <2>7, <2>9
    <3>2. s \notin EarlyStages /\ s # "consumed-authority" BY <2>2, <3>1
    <3>3. s \in LateStages BY <2>1, <3>2
    <3> QED BY <2>1, <3>3
  <2>10. "accepted" \in result.reached <=> v = Accepted
    <3>1. "accepted" \in result.reached <=> Rank(s) >= 12 BY <2>3, <2>6, <2>7
    <3>2. ASSUME Rank(s) >= 12 PROVE s = "accepted"
      <4>1. s \notin EarlyStages BY <2>2, <3>2
      <4>2. /\ s # "consumed-authority" /\ s # "consumed-nullifier"
            /\ s # "statement-nullifier-correspondence" /\ s # "recovery-consistency"
        BY <2>2, <3>2
      <4> QED BY <2>1, <4>1, <4>2 DEF LateStages
    <3>4. s = "accepted" => Rank(s) >= 12 BY <2>2
    <3> QED BY <2>1, <2>4, <3>1, <3>2, <3>4
  <2>11. EarlyChecksHold(input) => AllPass(LogicalChecks(input)) BY DEF EarlyChecksHold
  <2>12. IsAccepted <=> v = Accepted BY DEF IsAccepted, v

  <2> QED BY <1>2, <2>1, <2>3, <2>5, <2>6, <2>8, <2>9, <2>10, <2>11, <2>12 DEF s, v
<1> QED BY <1>1, <1>2, ResultShape
(***************************************************************************)
(* Who has signed for a consumed note.                                     *)
(***************************************************************************)

LEMMA OpeningFound ==
  ASSUME NEW items, IsList(items), NEW id, Opening(items, id) # <<>>
  PROVE  \E k \in DOMAIN items : Opening(items, id)[1] = items[k] /\ items[k].id = id
<1> DEFINE picked == {k \in 1..Len(items) : items[k].id = id}
           found == Opening(items, id)
<1>1. items \in Seq(Range(items)) /\ DOMAIN items = 1..Len(items) BY IsListShape
<1>2. found = Kept(items, picked) BY <1>1 DEF Opening
<1>3. picked \in SUBSET (1..Len(items)) OBVIOUS
<1> HIDE DEF picked
<1>4. /\ found \in Seq(Range(items))
      /\ \A j \in 1..Len(found) : \E k \in picked : found[j] = items[k]
  BY <1>1, <1>2, <1>3, KeptItems
<1>5. 1 \in 1..Len(found)
  <2>1. found # <<>> OBVIOUS
  <2> HIDE DEF found
  <2> QED BY <1>4, <2>1
<1>6. PICK k \in picked : found[1] = items[k] BY <1>4, <1>5
<1> QED BY <1>1, <1>6 DEF picked

\* The notes of one side of the public statement are all opened.
OpensEach(notes, tuples) ==
    \A n \in DOMAIN tuples : \E k \in DOMAIN notes : notes[k].id = tuples[n].note

LEMMA SideNotesAreOpened ==
  ASSUME NEW notes, IsList(notes), NEW tuples, IsList(tuples), NotesMatch(notes, tuples),
         Distinct([k \in DOMAIN tuples |-> tuples[k].note])
  PROVE  OpensEach(notes, tuples)
<1> DEFINE m == Len(notes)
           ids == IdsOf(notes)
           public == [k \in DOMAIN tuples |-> tuples[k].note]
<1>1. m \in Nat /\ DOMAIN notes = 1..m /\ DOMAIN tuples = 1..m
  <2>1. Len(tuples) = m BY DEF NotesMatch
  <2> QED BY <2>1, IsListShape
<1>2. DOMAIN ids = 1..m /\ NoneTwice(ids, m)
  <2>1. DOMAIN ids = 1..m BY <1>1 DEF IdsOf
  <2>2. Distinct(ids) BY DEF NotesMatch
  <2> QED BY <2>1, <2>2 DEF Distinct, NoneTwice
<1>3. NoneTwice(public, m)
  <2>1. Distinct(public) OBVIOUS
  <2>2. DOMAIN public = 1..m BY <1>1
  <2> HIDE DEF public
  <2> QED BY <2>1, <2>2 DEF Distinct, NoneTwice
<1>4. EachIn(ids, public, m)
  <2> SUFFICES ASSUME NEW k \in 1..m PROVE \E j \in 1..m : ids[k] = public[j] BY DEF EachIn
  <2>1. ids[k] \in ToSet(ids) BY <1>2 DEF ToSet
  <2>2. ids[k] \in PublicNotes(tuples) BY <2>1 DEF NotesMatch
  <2>3. PICK j \in 1..m : ids[k] = tuples[j].note BY <1>1, <2>2 DEF PublicNotes
  <2> QED BY <1>1, <2>3
<1> HIDE DEF ids, public
<1>5. EachIn(public, ids, m) BY <1>1, <1>2, <1>3, <1>4, AllMatched
<1>6. \A n \in 1..m : public[n] = tuples[n].note BY <1>1 DEF public
<1>7. \A k \in 1..m : ids[k] = notes[k].id BY <1>1 DEF ids, IdsOf
<1> SUFFICES ASSUME NEW n \in 1..m PROVE \E k \in 1..m : notes[k].id = tuples[n].note
  BY <1>1 DEF OpensEach
<1>8. PICK k \in 1..m : public[n] = ids[k] BY <1>5 DEF EachIn
<1>9. notes[k].id = tuples[n].note BY <1>6, <1>7, <1>8
<1> QED BY <1>9

LEMMA PublicNotesAreOpened ==
  ASSUME NEW i, InputParses(i), NotesMatch(i.consumed, i.statement.consumed),
         NotesMatch(i.created, i.statement.created)
  PROVE  OpensEach(i.consumed, i.statement.consumed) /\ OpensEach(i.created, i.statement.created)
<1>1. StatementParses(i.statement, i.profile) BY DEF InputParses
<1>2. IsList(i.statement.consumed) /\ IsList(i.statement.created) BY <1>1, StatementLists
<1>3. /\ Distinct([k \in DOMAIN i.statement.consumed |-> i.statement.consumed[k].note])
      /\ Distinct([k \in DOMAIN i.statement.created |-> i.statement.created[k].note])
  BY <1>1 DEF StatementParses, CollectionsCanonical
<1>4. IsList(i.consumed) /\ IsList(i.created) BY InputLists
<1>5. OpensEach(i.consumed, i.statement.consumed) BY <1>2, <1>3, <1>4, SideNotesAreOpened
<1>6. OpensEach(i.created, i.statement.created) BY <1>2, <1>3, <1>4, SideNotesAreOpened
<1> QED BY <1>5, <1>6

\* The owner of a note has signed the statement and the note.
OwnerSigned(i, w) ==
    \E a \in ToSet(i.authorities) :
        /\ w.note.owner = OwnerCommitment(a.key)
        /\ a.signature = Signature(a.key, SpendMessage(StatementCommitment(i.statement), w.id, w.note.bundle))

\* The authorities name every opened note, each once, so every owner has signed.
LEMMA EveryOwnerSigned ==
  ASSUME NEW i, InputParses(i), Distinct(IdsOf(i.consumed)),
         Len(i.authorities) = Len(i.consumed),
         \A k \in DOMAIN i.authorities : AuthorityIsGood(i, k)
  PROVE  \A k \in DOMAIN i.consumed : OwnerSigned(i, i.consumed[k])
<1> DEFINE m == Len(i.consumed)
           ids == IdsOf(i.consumed)
           named == IdsOf(i.authorities)
<1>1. m \in Nat /\ DOMAIN i.consumed = 1..m /\ DOMAIN i.authorities = 1..m /\ IsList(i.consumed)
  <2>1. IsList(i.consumed) /\ IsList(i.authorities) BY InputLists
  <2> QED BY <2>1, IsListShape
<1>2. DOMAIN ids = 1..m /\ \A k \in 1..m : ids[k] = i.consumed[k].id BY <1>1 DEF IdsOf
<1>3. \A k \in 1..m : named[k] = i.authorities[k].id BY <1>1 DEF IdsOf
<1>4. NoneTwice(ids, m) BY <1>2 DEF Distinct, NoneTwice
<1>5. NoneTwice(named, m)
  <2>1. \A k \in 1..m : ~RepeatsEarlier(named, k) BY <1>1 DEF AuthorityIsGood
  <2> HIDE DEF named, m
  <2> QED BY <1>1, <2>1, NoRepeats
\* The note an authority names is the one it is good for.
<1>6. ASSUME NEW k \in 1..m
      PROVE  \E j \in 1..m :
                /\ i.consumed[j].id = i.authorities[k].id
                /\ LET w == i.consumed[j]
                       a == i.authorities[k]
                   IN  /\ OwnerCommitment(a.key) = w.note.owner
                       /\ a.signature = Signature(a.key,
                             SpendMessage(StatementCommitment(i.statement), w.id, w.note.bundle))
  <2> DEFINE a == i.authorities[k]
             found == Opening(i.consumed, a.id)
  <2>1. AuthorityIsGood(i, k) BY <1>1
  <2>2. /\ found # <<>> /\ a.note = found[1].id /\ a.bundle = found[1].note.bundle
        /\ OwnerCommitment(a.key) = found[1].note.owner
        /\ a.signature = Signature(a.key, SpendMessage(StatementCommitment(i.statement), a.note, a.bundle))
    BY <2>1 DEF AuthorityIsGood, NamesNote, NamesBundle
  <2>3. PICK j \in 1..m : found[1] = i.consumed[j] /\ i.consumed[j].id = a.id
    <3> HIDE DEF a
    <3> QED BY <1>1, <2>2, OpeningFound
  <2> QED BY <2>2, <2>3
<1>7. EachIn(named, ids, m)
  <2> SUFFICES ASSUME NEW k \in 1..m PROVE \E j \in 1..m : named[k] = ids[j] BY DEF EachIn
  <2>1. PICK j \in 1..m : i.consumed[j].id = i.authorities[k].id BY <1>6
  <2> QED BY <1>2, <1>3, <2>1
<1>8. EachIn(ids, named, m)
  <2> HIDE DEF ids, named, m
  <2> QED BY <1>1, <1>4, <1>5, <1>7, AllMatched
<1> SUFFICES ASSUME NEW k \in 1..m PROVE OwnerSigned(i, i.consumed[k]) BY <1>1
<1>9. PICK j \in 1..m : i.consumed[k].id = i.authorities[j].id
  <2>1. PICK j \in 1..m : ids[k] = named[j] BY <1>8 DEF EachIn
  <2> QED BY <1>2, <1>3, <2>1
<1>10. PICK l \in 1..m :
          /\ i.consumed[l].id = i.authorities[j].id
          /\ OwnerCommitment(i.authorities[j].key) = i.consumed[l].note.owner
          /\ i.authorities[j].signature = Signature(i.authorities[j].key,
                SpendMessage(StatementCommitment(i.statement), i.consumed[l].id, i.consumed[l].note.bundle))
  BY <1>6
<1>11. l = k
  <2>1. ids[l] = ids[k] BY <1>2, <1>9, <1>10
  <2> HIDE DEF ids
  <2> QED BY <1>4, <2>1 DEF NoneTwice
<1>12. i.authorities[j] \in ToSet(i.authorities) BY <1>1 DEF ToSet
<1> QED BY <1>10, <1>11, <1>12 DEF OwnerSigned

(***************************************************************************)
(* What the recipients read back.                                          *)
(***************************************************************************)

\* What is kept of a list is there, and its first item was picked, if any place was.
LEMMA FirstKept ==
  ASSUME NEW s, IsList(s), NEW picked \in SUBSET (DOMAIN s), picked # {} \/ Kept(s, picked) # <<>>
  PROVE  /\ 1 \in DOMAIN Kept(s, picked) /\ Kept(s, picked) # <<>>
         /\ \E k \in picked : Kept(s, picked)[1] = s[k]
<1> DEFINE kept == Kept(s, picked)
<1>1. s \in Seq(Range(s)) /\ DOMAIN s = 1..Len(s) BY IsListShape
<1>2. /\ kept \in Seq(Range(s))
      /\ \A j \in 1..Len(kept) : \E k \in picked : kept[j] = s[k]
      /\ \A k \in picked : \E j \in 1..Len(kept) : kept[j] = s[k]
  BY <1>1, KeptItems
<1>3. picked # {} \/ kept # <<>> OBVIOUS
<1> HIDE DEF kept
<1>4. Len(kept) \in Nat /\ DOMAIN kept = 1..Len(kept) BY <1>2, ListShape
<1>5. 1 \in 1..Len(kept)
  <2>1. CASE picked # {} BY <1>2, <1>4, <2>1
  <2>2. CASE kept # <<>> BY <1>2, <1>4, <2>2
  <2> QED BY <1>3, <2>1, <2>2
<1>6. kept # <<>> BY <1>4, <1>5
<1> QED BY <1>2, <1>4, <1>5, <1>6 DEF kept

\* The public cells give every member of an opened bundle its value and its profile.
PublicMember(st, slot, blinder) ==
    [slot |-> slot, value |-> At(st.outputs, slot).value,
     profile |-> PublicCell(st.createdCells, slot)[1].profile, blinder |-> blinder]

LEMMA MembersArePublic ==
  ASSUME NEW i, NEW w, BundleParses(w.bundle), IsList(i.createdCells), BundleIsOpened(w, i.createdCells),
         \A k \in DOMAIN i.createdCells : CreatedCellHolds(i, i.createdCells[k])
  PROVE  LET members == w.bundle.members
         IN  \A j \in DOMAIN members :
                PublicMember(i.statement, members[j].slot, members[j].blinder) = members[j]
<1> DEFINE members == w.bundle.members
           st == i.statement
<1> SUFFICES ASSUME NEW j \in DOMAIN members
             PROVE  PublicMember(st, members[j].slot, members[j].blinder) = members[j]
  OBVIOUS
<1>1. PICK k \in DOMAIN i.createdCells : members[j] = MemberOf(i.createdCells[k].opening)
  BY MembersAreOpened
<1> DEFINE cell == i.createdCells[k]
           opening == cell.opening
           public == PublicCell(st.createdCells, cell.index)
<1>2. /\ opening.slot = cell.index /\ opening.value = At(st.outputs, cell.index).value
      /\ opening.profile = public[1].profile
  <2>1. CreatedCellHolds(i, cell) OBVIOUS
  <2> QED BY <2>1 DEF CreatedCellHolds, CellIsPublic, ValueIsProjected
<1> HIDE DEF members, st, cell, opening
<1>3. members[j].slot = opening.slot /\ members[j].blinder = opening.blinder
  BY <1>1 DEF MemberOf, opening, cell
<1>4. PublicMember(st, members[j].slot, members[j].blinder) = MemberOf(opening)
  BY <1>2, <1>3 DEF PublicMember, MemberOf
<1> QED BY <1>1, <1>4 DEF opening, cell

\* What a packet holds of an opened note, with the public cells and the owner's key, is
\* the whole of the note.
NoteFromPacket(st, text, key) ==
    LET bundle == [scope |-> text.scope,
                   members |-> [k \in DOMAIN text.members |->
                                  PublicMember(st, text.members[k].slot, text.members[k].blinder)]]
    IN  MakeNote(Worth(bundle.members), key, bundle, text.nonce)

LEMMA NoteIsInPacket ==
  ASSUME NEW i, NEW w, NEW packet, NEW id, NEW key,
         NoteParses(w.note), BundleParses(w.bundle), NoteIsOpened(w), w.note.asset = AssetId,
         OwnerCommitment(key) = w.note.owner,
         BundleIsOpened(w, i.createdCells),
         LET members == w.bundle.members
         IN  \A j \in DOMAIN members :
                PublicMember(i.statement, members[j].slot, members[j].blinder) = members[j]
  PROVE  NoteFromPacket(i.statement, Plaintext(packet, id, w.bundle.scope, w.note, w.bundle), key) = w.note
<1> DEFINE text == Plaintext(packet, id, w.bundle.scope, w.note, w.bundle)
           members == w.bundle.members
           public == [k \in DOMAIN text.members |->
                        PublicMember(i.statement, text.members[k].slot, text.members[k].blinder)]
           bundle == [scope |-> text.scope, members |-> public]
<1>1. /\ text.scope = w.bundle.scope /\ text.nonce = w.note.nonce
      /\ DOMAIN text.members = DOMAIN members
      /\ \A k \in DOMAIN members : /\ text.members[k].slot = members[k].slot
                                   /\ text.members[k].blinder = members[k].blinder
  BY DEF Plaintext
<1>2. members = [k \in DOMAIN members |-> members[k]]
  <2>1. IsList(members) BY DEF BundleParses
  <2> HIDE DEF members
  <2>2. members = [k \in 1..Len(members) |-> members[k]] /\ DOMAIN members = 1..Len(members) BY <2>1, IsListShape
  <2> QED BY <2>2
<1>3. \A k \in DOMAIN members :
         PublicMember(i.statement, members[k].slot, members[k].blinder) = members[k]
  OBVIOUS
<1> HIDE DEF text, members
<1>4. public = members
  <2>1. public = [k \in DOMAIN members |->
                     PublicMember(i.statement, text.members[k].slot, text.members[k].blinder)]
    BY <1>1
  <2>2. public = [k \in DOMAIN members |-> members[k]] BY <1>1, <1>3, <2>1
  <2> QED BY <1>2, <2>2
<1> HIDE DEF public
<1>5. bundle = w.bundle
  <2>1. HasFields(w.bundle, {"scope", "members"}) BY DEF BundleParses
  <2>2. w.bundle = [field \in {"scope", "members"} |-> w.bundle[field]] BY <2>1 DEF HasFields
  <2>3. bundle = [field \in {"scope", "members"} |-> bundle[field]] OBVIOUS
  <2>4. bundle.scope = w.bundle.scope /\ bundle.members = w.bundle.members BY <1>1, <1>4 DEF members
  <2> HIDE DEF bundle
  <2> QED BY <2>2, <2>3, <2>4
<1>6. Worth(public) = w.note.value BY <1>4 DEF BundleIsOpened, Worth, members
<1>7. BundleCommitment(w.bundle) = w.note.bundle BY DEF NoteIsOpened
<1> DEFINE made == MakeNote(Worth(public), key, bundle, text.nonce)
<1>8. /\ made.asset = w.note.asset /\ made.value = w.note.value /\ made.owner = w.note.owner
      /\ made.bundle = w.note.bundle /\ made.nonce = w.note.nonce
  <2> HIDE DEF bundle
  <2> QED BY <1>1, <1>5, <1>6, <1>7 DEF MakeNote
<1>9. made = w.note
  <2>1. HasFields(w.note, {"asset", "value", "owner", "bundle", "nonce"}) BY DEF NoteParses
  <2>2. w.note = [field \in {"asset", "value", "owner", "bundle", "nonce"} |-> w.note[field]]
    BY <2>1 DEF HasFields
  <2>3. made = [field \in {"asset", "value", "owner", "bundle", "nonce"} |-> made[field]]
    BY DEF MakeNote
  <2> HIDE DEF made
  <2> QED BY <1>8, <2>2, <2>3
<1>10. NoteFromPacket(i.statement, text, key) = made BY DEF NoteFromPacket, public
<1> QED BY <1>9, <1>10 DEF text

LEMMA EvidenceRebuilds ==
  ASSUME NEW i, NEW w, Opening(i.created, w.id) # <<>>
  PROVE  LET found == Opening(i.created, w.id)
             packet == RebuiltPacket(i, w)
         IN  /\ packet[2].kem = w.descriptor.kem
             /\ packet[2].plaintext =
                   Plaintext(w.packet, w.id, found[1].bundle.scope, found[1].note, found[1].bundle)
BY DEF RebuiltPacket, Packet, Hash

\* The evidence at a place is for the note the statement has there.
LEMMA EvidenceNote ==
  ASSUME NEW i, InputParses(i), NEW k \in DOMAIN i.recovery, RecoveryIsGood(i, k), TableIsGood(i)
  PROVE  /\ i.recovery[k].id = i.statement.created[k].note
         /\ k \in DOMAIN i.statement.created
         /\ PublicTuple(i.statement.created, i.recovery[k].id)[1] = i.statement.created[k]
<1> DEFINE tuples == i.statement.created
           w == i.recovery[k]
           picked == {n \in DOMAIN tuples : tuples[n].note = w.id}
           public == Kept(tuples, picked)
<1>1. StatementParses(i.statement, i.profile) BY DEF InputParses
<1>2. IsList(tuples) BY <1>1, StatementLists
<1>3. public # <<>> /\ w.packet = public[1].packet BY DEF RecoveryIsGood, PublicTuple
<1>4. w.packet = k - 1 BY DEF TableIsGood
<1>5. \A n \in DOMAIN tuples : tuples[n].packet = n - 1
  BY <1>1 DEF StatementParses, CollectionsCanonical
<1> HIDE DEF tuples
<1>6. PICK n \in picked : public[1] = tuples[n]
  <2>1. picked \in SUBSET (DOMAIN tuples) OBVIOUS
  <2> HIDE DEF picked
  <2>2. \E n \in picked : public[1] = tuples[n] BY <1>2, <1>3, <2>1, FirstKept
  <2> QED BY <2>2
<1>7. n \in DOMAIN tuples /\ tuples[n].note = w.id OBVIOUS
<1>8. n = k
  <2>1. DOMAIN tuples = 1..Len(tuples) /\ Len(tuples) \in Nat BY <1>2, IsListShape
  <2>2. IsList(i.recovery) BY InputLists
  <2>3. DOMAIN i.recovery = 1..Len(i.recovery) /\ Len(i.recovery) \in Nat BY <2>2, IsListShape
  <2>4. n - 1 = k - 1
    <3> HIDE DEF public, picked, w
    <3> QED BY <1>3, <1>4, <1>5, <1>6, <1>7
  <2>5. n \in Nat /\ k \in Nat BY <1>7, <2>1, <2>3
  <2> QED BY <2>4, <2>5
<1>9. PublicTuple(tuples, w.id) = public BY DEF PublicTuple
<1> HIDE DEF picked, public
<1> QED BY <1>6, <1>7, <1>8, <1>9 DEF tuples

\* The carriers hold the packets the evidence rebuilds.
CarriedPackets(st) == OfRole(st.outputs, "carrier")[1].lock[3][2]

LEMMA CarriersHoldPackets ==
  ASSUME NEW i, InputParses(i), TableIsGood(i)
  PROVE  CarriedPackets(i.statement) = RebuiltPackets(i)
<1> DEFINE outputs == i.statement.outputs
           picked == {k \in DOMAIN outputs : outputs[k].role = "carrier"}
           carriers == OfRole(outputs, "carrier")
<1>1. StatementParses(i.statement, i.profile) BY DEF InputParses
<1>2. IsList(outputs) BY <1>1, StatementLists
<1>3. picked # {} BY <1>1 DEF StatementParses, ValidStatement, ModeIsPrivate
<1>4. carriers = Kept(outputs, picked) BY DEF OfRole
<1>5. 1 \in DOMAIN carriers
  <2>1. picked \in SUBSET (DOMAIN outputs) OBVIOUS
  <2> HIDE DEF picked, carriers, outputs
  <2> QED BY <1>2, <1>3, <1>4, <2>1, FirstKept
<1>6. carriers[1].lock = CarrierLock(PacketBin(RebuiltPackets(i)), 1) BY <1>5 DEF TableIsGood
<1> HIDE DEF carriers
<1>7. carriers[1].lock[3][2] = RebuiltPackets(i) BY <1>6 DEF CarrierLock, PacketBin, Hash
<1> QED BY <1>7 DEF CarriedPackets, carriers

\* The one packet for the kem key of a descriptor.
LEMMA PacketOfDescriptor ==
  ASSUME NEW i, InputParses(i), \A k \in DOMAIN i.recovery : RecoveryIsGood(i, k),
         NEW n \in DOMAIN i.recovery
  PROVE  LET packets == RebuiltPackets(i)
             kem == i.recovery[n].descriptor.kem
         IN  Kept(packets, {k \in DOMAIN packets : packets[k][2].kem = kem})[1] = packets[n]
<1> DEFINE packets == RebuiltPackets(i)
           kems == [k \in DOMAIN i.recovery |-> i.recovery[k].descriptor.kem]
           mine == {k \in DOMAIN packets : packets[k][2].kem = kems[n]}
<1>1. PICK m \in Nat : m = Len(i.recovery) /\ DOMAIN i.recovery = 1..m
  <2>1. IsList(i.recovery) BY InputLists
  <2> QED BY <2>1, IsListShape
<1>2. IsList(packets) /\ DOMAIN packets = 1..m
  <2>1. packets = [k \in 1..m |-> packets[k]] BY <1>1 DEF RebuiltPackets
  <2> HIDE DEF packets
  <2> QED BY <2>1, IntervalIsList
<1>3. \A k \in 1..m : packets[k][2].kem = kems[k]
  <2> SUFFICES ASSUME NEW k \in 1..m PROVE packets[k][2].kem = kems[k] OBVIOUS
  <2> DEFINE w == i.recovery[k]
  <2>1. Opening(i.created, w.id) # <<>> BY <1>1 DEF RecoveryIsGood
  <2>2. packets[k] = RebuiltPacket(i, w) /\ kems[k] = w.descriptor.kem BY <1>1 DEF RebuiltPackets
  <2>3. RebuiltPacket(i, w)[2].kem = w.descriptor.kem
    <3> HIDE DEF w, packets, kems
    <3> QED BY <2>1, EvidenceRebuilds
  <2> QED BY <2>2, <2>3
<1>4. NoneTwice(kems, m)
  <2>1. \A k \in 1..m : ~RepeatsEarlier(kems, k)
    <3> SUFFICES ASSUME NEW k \in 1..m, NEW j \in 1..(k - 1), kems[j] = kems[k] PROVE FALSE
      BY DEF RepeatsEarlier
    <3>1. ~ReusesDescriptor(i, k) BY <1>1 DEF RecoveryIsGood
    <3>2. j \in 1..m BY <1>1
    <3>3. i.recovery[j].descriptor.kem = i.recovery[k].descriptor.kem BY <1>1, <3>2
    <3> QED BY <3>1, <3>3 DEF ReusesDescriptor
  <2> HIDE DEF kems
  <2> QED BY <2>1, NoRepeats
<1> HIDE DEF packets, kems
<1>5. mine = {n} BY <1>1, <1>2, <1>3, <1>4 DEF NoneTwice
<1>6. Kept(packets, {n})[1] = packets[n]
  <2>1. {n} \in SUBSET (DOMAIN packets) /\ {n} # {} BY <1>1, <1>2
  <2> QED BY <1>2, <2>1, FirstKept
<1>7. kems[n] = i.recovery[n].descriptor.kem BY DEF kems
<1> QED BY <1>5, <1>6, <1>7 DEF packets

\* Every recipient rebuilds the note its packet is for.
LEMMA NotesAreRecovered ==
  ASSUME NEW i, InputParses(i), EarlyChecksHold(i), AllPass(RecoveryChecks(i))
  PROVE  /\ Len(i.recovery) = Len(i.statement.created)
         /\ \A n \in DOMAIN i.statement.created :
               Recovered(i.statement, CarriedPackets(i.statement), i.recovery[n].descriptor)
                 = i.statement.created[n].note
<1> DEFINE st == i.statement
<1>1. /\ Len(i.recovery) = Len(i.created)
      /\ \A k \in DOMAIN i.recovery : RecoveryIsGood(i, k)
      /\ TableIsGood(i)
  BY RecoveryStage
<1>2. /\ NotesMatch(i.created, st.created)
      /\ \A k \in DOMAIN i.created : NoteIsOpened(i.created[k]) /\ i.created[k].note.asset = AssetId
  BY LogicalStage DEF EarlyChecksHold
<1>3. \A k \in DOMAIN i.createdCells : CreatedCellHolds(i, i.createdCells[k])
  BY CellStage DEF EarlyChecksHold
<1>4. BundlesAreOpened(i.created, i.createdCells, IndexesOf(st.createdCells))
  BY CreatedBundleStage DEF EarlyChecksHold
<1>5. IsList(i.created) /\ IsList(i.createdCells) /\ IsList(i.recovery) /\ IsList(st.created)
  <2>1. StatementParses(st, i.profile) BY DEF InputParses
  <2>2. IsList(st.created) BY <2>1, StatementLists
  <2> QED BY <2>2, InputLists
<1>6. Len(i.recovery) = Len(st.created) BY <1>1, <1>2 DEF NotesMatch
<1>7. DOMAIN st.created = DOMAIN i.recovery
  <2> HIDE DEF st
  <2>1. DOMAIN st.created = 1..Len(st.created) /\ DOMAIN i.recovery = 1..Len(i.recovery) BY <1>5, IsListShape
  <2> QED BY <1>6, <2>1
<1>8. ASSUME NEW n \in DOMAIN i.recovery
      PROVE  Recovered(st, CarriedPackets(st), i.recovery[n].descriptor) = st.created[n].note
  <2> DEFINE w == i.recovery[n]
             found == Opening(i.created, w.id)
             packets == RebuiltPackets(i)
             mine == Kept(packets, {k \in DOMAIN packets : packets[k][2].kem = w.descriptor.kem})
             text == mine[1][2].plaintext
  <2>1. RecoveryIsGood(i, n) BY <1>1
  <2>2. found # <<>> /\ OwnerCommitment(w.descriptor.key) = found[1].note.owner
    BY <2>1 DEF RecoveryIsGood
  <2>3. w.id = st.created[n].note BY <1>1, <2>1, EvidenceNote
  <2>4. CarriedPackets(st) = packets BY <1>1, CarriersHoldPackets
  <2>5. mine[1] = packets[n] BY <1>1, PacketOfDescriptor
  <2>6. packets[n] = RebuiltPacket(i, w) BY DEF RebuiltPackets
  <2>7. PICK j \in DOMAIN i.created : found[1] = i.created[j] /\ i.created[j].id = w.id
    <3> HIDE DEF w
    <3> QED BY <1>5, <2>2, OpeningFound
  <2> DEFINE note == i.created[j]
  <2>8. text = Plaintext(w.packet, w.id, note.bundle.scope, note.note, note.bundle)
    <3>1. RebuiltPacket(i, w)[2].plaintext =
             Plaintext(w.packet, w.id, found[1].bundle.scope, found[1].note, found[1].bundle)
      <4> HIDE DEF w
      <4> QED BY <2>2, EvidenceRebuilds
    <3> QED BY <2>5, <2>6, <2>7, <3>1
  <2>9. /\ NoteParses(note.note) /\ BundleParses(note.bundle)
        /\ NoteIsOpened(note) /\ note.note.asset = AssetId
        /\ BundleIsOpened(note, i.createdCells)
    BY <1>2, <1>4, BundlesParse DEF BundlesAreOpened
  <2>10. OwnerCommitment(w.descriptor.key) = note.note.owner BY <2>2, <2>7
  <2>11. NoteFromPacket(st, text, w.descriptor.key) = note.note
    <3>1. LET members == note.bundle.members
          IN  \A k \in DOMAIN members : PublicMember(st, members[k].slot, members[k].blinder) = members[k]
      <4> HIDE DEF note
      <4> QED BY <1>3, <1>5, <2>9, MembersArePublic
    <3> HIDE DEF note, w, text
    <3>2. NoteFromPacket(st, Plaintext(w.packet, w.id, note.bundle.scope, note.note, note.bundle), w.descriptor.key)
             = note.note
      BY <2>9, <2>10, <3>1, NoteIsInPacket
    <3> QED BY <2>8, <3>2
  <2>12. NoteCommitment(note.note) = w.id BY <2>7, <2>9 DEF NoteIsOpened
  <2>13. Recovered(st, packets, w.descriptor) = NoteCommitment(NoteFromPacket(st, text, w.descriptor.key))
    BY DEF Recovered, NoteFromPacket, PublicMember
  <2> QED BY <2>3, <2>4, <2>11, <2>12, <2>13
<1> QED BY <1>6, <1>7, <1>8

(***************************************************************************)
(* The theorems.                                                           *)
(***************************************************************************)

\* The bounds of the faults are kept, and a public result reports stages of
\* the code's enumeration, the acceptance exactly when the verdict is the
\* acceptance (evaluate_authenticated and its status booleans).
THEOREM BatchTypeOK == Spec => []TypeOK
<1>1. BatchInv => TypeOK
  <2> SUFFICES ASSUME BatchInv PROVE TypeOK OBVIOUS
  <2>1. /\ plan.profile \in Profiles /\ plan.padding \in Paddings
        /\ replans + Len(false) \in 0 .. MaxHostFaults /\ Len(lapses) \in 0 .. MaxLapses
    BY DEF BatchInv
  <2>2. result.reached \subseteq ReportedStages /\ ("accepted" \in result.reached <=> result.verdict = Accepted)
    BY ResultReached
  <2> QED BY <2>1, <2>2 DEF TypeOK
<1> QED BY <1>1, BatchInvariant, PTL

\* No input at all is rejected by the private sums (evaluate_conservation):
\* what the public statement says of its totals and fees, with cells that
\* open every bundle, already decides them.
THEOREM PublicSumsAlwaysSuffice == Spec => []PublicSumsSuffice
<1>1. BatchInv => PublicSumsSuffice BY ResultReached DEF PublicSumsSuffice
<1> QED BY <1>1, BatchInvariant, PTL

\* A result that reports the consumed authority, be it a rejection, vouches
\* for the money of the batch: on both sides the notes share out the public
\* cells completely, every note is worth what its cells hold on chain, and
\* what the notes lose is the two public fees.
THEOREM ReachedAuthorityIsAlwaysBacked == Spec => []ReachedAuthorityIsBacked
<1>1. BatchInv => ReachedAuthorityIsBacked
  <2> SUFFICES ASSUME BatchInv, "consumed-authority" \in result.reached
               PROVE  LET st == input.statement
                      IN  /\ SharesOut(input.consumed, input.consumedCells, st.consumedCells, st.inputs)
                          /\ SharesOut(input.created, input.createdCells, st.createdCells, st.outputs)
                          /\ Sum(input.consumed, LAMBDA w : w.note.value)
                               = Sum(input.created, LAMBDA w : w.note.value) + st.networkFee + st.serviceFee
    BY DEF ReachedAuthorityIsBacked
  <2> DEFINE st == input.statement
             c == input.profile.cellValue
             before == Sum(input.consumed, LAMBDA w : w.note.value)
             after == Sum(input.created, LAMBDA w : w.note.value)
             m == Len(st.consumedCells)
             n == Len(st.createdCells)
  <2>1. InputParses(input) /\ EarlyChecksHold(input) BY ResultReached
  <2>2. /\ c \in Int /\ PublicMoney(st, c) /\ before = m * c /\ after = n * c
        /\ SharesOut(input.consumed, input.consumedCells, st.consumedCells, st.inputs)
        /\ SharesOut(input.created, input.createdCells, st.createdCells, st.outputs)
    BY <2>1, BothSides
  <2>3. /\ m * c = n * c + (st.networkFee + st.serviceFee)
        /\ m \in Nat /\ n \in Nat /\ st.networkFee \in Int /\ st.serviceFee \in Int
    BY <2>2 DEF PublicMoney
  <2>4. before = after + st.networkFee + st.serviceFee
    <3>1. m * c \in Int /\ n * c \in Int BY <2>2, <2>3
    <3> HIDE DEF before, after, m, n, c, st
    <3> QED BY <2>2, <2>3, <3>1
  <2> QED BY <2>2, <2>4
<1> QED BY <1>1, BatchInvariant, PTL

\* A result that reports the consumed nullifiers, be it a rejection, shows
\* that the owner of every note the statement consumes has signed this
\* statement and this note (validate_authority): no authority stands for two
\* notes, and none of the notes is without one.
THEOREM ReachedNullifierIsAlwaysAuthorized == Spec => []ReachedNullifierIsAuthorized
<1>1. BatchInv => ReachedNullifierIsAuthorized
  <2> SUFFICES ASSUME BatchInv, "consumed-nullifier" \in result.reached,
                      NEW n \in DOMAIN input.statement.consumed
               PROVE  \E w \in ToSet(input.consumed), a \in ToSet(input.authorities) :
                         /\ w.id = input.statement.consumed[n].note
                         /\ w.note.owner = OwnerCommitment(a.key)
                         /\ a.signature = Signature(a.key,
                               SpendMessage(StatementCommitment(input.statement), w.id, w.note.bundle))
    BY DEF ReachedNullifierIsAuthorized
  <2>1. InputParses(input) /\ AllPass(LogicalChecks(input)) /\ AllPass(AuthorityChecks(input))
    BY ResultReached
  <2>2. /\ NotesMatch(input.consumed, input.statement.consumed)
        /\ NotesMatch(input.created, input.statement.created)
    BY <2>1, LogicalStage
  <2>3. /\ Len(input.authorities) = Len(input.consumed)
        /\ \A k \in DOMAIN input.authorities : AuthorityIsGood(input, k)
    BY <2>1, AuthorityStage
  <2>4. PICK k \in DOMAIN input.consumed : input.consumed[k].id = input.statement.consumed[n].note
    BY <2>1, <2>2, PublicNotesAreOpened DEF OpensEach
  <2>5. OwnerSigned(input, input.consumed[k])
    <3>1. Distinct(IdsOf(input.consumed)) BY <2>2 DEF NotesMatch
    <3> QED BY <2>1, <2>3, <3>1, EveryOwnerSigned
  <2>6. input.consumed[k] \in ToSet(input.consumed) BY DEF ToSet
  <2> QED BY <2>4, <2>5, <2>6 DEF OwnerSigned
<1> QED BY <1>1, BatchInvariant, PTL

\* Once a batch is accepted, the holder of every descriptor that a sender used
\* (validate_recovery) rebuilds the note the statement created for it, from
\* the carriers and the public cells of the transaction and its own keys: the
\* packets hold what is not public, and the relation has compared the rest.
THEOREM RecipientsAlwaysRecover == Spec => []RecipientsCanRecover
<1>1. BatchInv => RecipientsCanRecover
  <2> SUFFICES ASSUME BatchInv, IsAccepted PROVE RecipientsCanRecover BY DEF RecipientsCanRecover
  <2>1. InputParses(input) /\ EarlyChecksHold(input) /\ AllPass(RecoveryChecks(input))
    BY ResultReached DEF EveryCheckHolds
  <2>2. /\ Len(input.recovery) = Len(input.statement.created)
        /\ \A n \in DOMAIN input.statement.created :
              Recovered(input.statement, CarriedPackets(input.statement), input.recovery[n].descriptor)
                = input.statement.created[n].note
    BY <2>1, NotesAreRecovered
  <2> QED BY <2>2 DEF RecipientsCanRecover, CarriedPackets
<1> QED BY <1>1, BatchInvariant, PTL

(***************************************************************************)
(* What the statement fixes.                                               *)
(***************************************************************************)

\* Whatever these items say in these fields, one of the others says.
CoveredBy(items, others, fields) ==
    \A k \in DOMAIN items : \E l \in DOMAIN others : \A f \in fields : items[k][f] = others[l][f]

LEMMA CoveredContents ==
  ASSUME NEW items, NEW others, NEW fields, CoveredBy(items, others, fields)
  PROVE  Contents(items, fields) \subseteq Contents(others, fields)
<1> SUFFICES ASSUME NEW w \in ToSet(items)
             PROVE  \E v \in ToSet(others) : [f \in fields |-> w[f]] = [f \in fields |-> v[f]]
  BY DEF Contents
<1>1. PICK k \in DOMAIN items : w = items[k] BY DEF ToSet
<1>2. PICK l \in DOMAIN others : \A f \in fields : items[k][f] = others[l][f] BY DEF CoveredBy
<1>3. others[l] \in ToSet(others) BY DEF ToSet
<1> QED BY <1>1, <1>2, <1>3

LEMMA SameContents ==
  ASSUME NEW items, NEW others, NEW fields,
         CoveredBy(items, others, fields), CoveredBy(others, items, fields)
  PROVE  Contents(items, fields) = Contents(others, fields)
BY CoveredContents

\* An input the relation accepts, but for the private conservation.
Sound(i) == InputParses(i) /\ EveryCheckHolds(i)

\* The witnesses of one side open the notes of the side in a statement with commitment com.
SideNotes(notes, tuples, com) ==
    /\ IsList(notes) /\ OpensEach(notes, tuples)
    /\ \A k \in DOMAIN notes :
          /\ notes[k].statement = com /\ notes[k].id \in PublicNotes(tuples)
          /\ NoteIsOpened(notes[k]) /\ BundleParses(notes[k].bundle)

LEMMA SideNotesOfSound ==
  ASSUME NEW i, Sound(i)
  PROVE  /\ SideNotes(i.consumed, i.statement.consumed, StatementCommitment(i.statement))
         /\ SideNotes(i.created, i.statement.created, StatementCommitment(i.statement))
<1> DEFINE com == StatementCommitment(i.statement)
<1>1. InputParses(i) /\ AllPass(LogicalChecks(i)) BY DEF Sound, EveryCheckHolds, EarlyChecksHold
<1>2. /\ WitnessesAreBound(i)
      /\ NotesMatch(i.consumed, i.statement.consumed) /\ NotesMatch(i.created, i.statement.created)
      /\ \A k \in DOMAIN i.consumed : NoteIsOpened(i.consumed[k])
      /\ \A k \in DOMAIN i.created : NoteIsOpened(i.created[k])
  BY <1>1, LogicalStage
<1>3. OpensEach(i.consumed, i.statement.consumed) /\ OpensEach(i.created, i.statement.created)
  BY <1>1, <1>2, PublicNotesAreOpened
<1>4. IsList(i.consumed) /\ IsList(i.created) BY <1>1, InputLists
<1>5. /\ \A k \in DOMAIN i.consumed : BundleParses(i.consumed[k].bundle)
      /\ \A k \in DOMAIN i.created : BundleParses(i.created[k].bundle)
  BY <1>1, BundlesParse
<1>6. /\ \A k \in DOMAIN i.consumed : i.consumed[k].statement = com
      /\ \A k \in DOMAIN i.created : i.created[k].statement = com
  BY <1>2 DEF WitnessesAreBound, Bound
<1>7. ASSUME NEW notes, NEW tuples, NotesMatch(notes, tuples), NEW k \in DOMAIN notes
      PROVE  notes[k].id \in PublicNotes(tuples)
  <2>1. IdsOf(notes)[k] = notes[k].id /\ k \in DOMAIN IdsOf(notes) BY DEF IdsOf
  <2>2. notes[k].id \in ToSet(IdsOf(notes)) BY <2>1 DEF ToSet
  <2> QED BY <1>7, <2>2 DEF NotesMatch
<1> HIDE DEF com
<1>8. /\ \A k \in DOMAIN i.consumed : i.consumed[k].id \in PublicNotes(i.statement.consumed)
      /\ \A k \in DOMAIN i.created : i.created[k].id \in PublicNotes(i.statement.created)
  BY <1>2, <1>7
<1>9. SideNotes(i.consumed, i.statement.consumed, com)
  BY <1>2, <1>3, <1>4, <1>5, <1>6, <1>8 DEF SideNotes
<1>10. SideNotes(i.created, i.statement.created, com)
  BY <1>2, <1>3, <1>4, <1>5, <1>6, <1>8 DEF SideNotes
<1> QED BY <1>9, <1>10 DEF com

\* A note and its bundle are what the identity of the note commits to.
LEMMA SameNote ==
  ASSUME NEW w, NEW v, NoteIsOpened(w), NoteIsOpened(v), w.id = v.id
  PROVE  w.note = v.note /\ w.bundle = v.bundle
<1>1. w.note = v.note
  <2>1. Hash("note", w.note) = Hash("note", v.note) BY DEF NoteIsOpened, NoteCommitment
  <2> QED BY <2>1 DEF Hash
<1>2. Hash("bundle", w.bundle) = Hash("bundle", v.bundle) BY <1>1 DEF NoteIsOpened, BundleCommitment
<1> QED BY <1>1, <1>2 DEF Hash

\* A note opened on one side is opened by any other witnesses of the side, as the same.
LEMMA NoteIsAmong ==
  ASSUME NEW notes, NEW others, NEW tuples, NEW com,
         SideNotes(notes, tuples, com), SideNotes(others, tuples, com), NEW k \in DOMAIN notes
  PROVE  \E l \in DOMAIN others :
            /\ others[l].id = notes[k].id /\ others[l].statement = notes[k].statement
            /\ others[l].note = notes[k].note /\ others[l].bundle = notes[k].bundle
<1>1. PICK n \in DOMAIN tuples : notes[k].id = tuples[n].note BY DEF SideNotes, PublicNotes
<1>2. PICK l \in DOMAIN others : others[l].id = tuples[n].note BY DEF SideNotes, OpensEach
<1>3. NoteIsOpened(notes[k]) /\ NoteIsOpened(others[l]) BY DEF SideNotes
<1>4. others[l].note = notes[k].note /\ others[l].bundle = notes[k].bundle
  BY <1>1, <1>2, <1>3, SameNote
<1>5. others[l].statement = notes[k].statement BY DEF SideNotes
<1> QED BY <1>1, <1>2, <1>4, <1>5

LEMMA NotesAlike ==
  ASSUME NEW notes, NEW others, NEW tuples, NEW com,
         SideNotes(notes, tuples, com), SideNotes(others, tuples, com)
  PROVE  CoveredBy(notes, others, WitnessFields)
<1> SUFFICES ASSUME NEW k \in DOMAIN notes
             PROVE  \E l \in DOMAIN others : \A f \in WitnessFields : notes[k][f] = others[l][f]
  BY DEF CoveredBy
<1>1. PICK l \in DOMAIN others :
         /\ others[l].id = notes[k].id /\ others[l].statement = notes[k].statement
         /\ others[l].note = notes[k].note /\ others[l].bundle = notes[k].bundle
  BY NoteIsAmong
<1> QED BY <1>1 DEF WitnessFields

(***************************************************************************)
(* The cells: each belongs to the note whose bundle it opens.              *)
(***************************************************************************)

\* A commitment of a cell stands for one place.
CellsTellApart(cells) == \A k, l \in DOMAIN cells : cells[k].cell = cells[l].cell => k = l

\* The cells opened for the notes of one side.
SideCells(notes, cells, tuples, com) ==
    /\ IsList(cells) /\ IsList(tuples) /\ CellsTellApart(cells)
    /\ BundlesAreOpened(notes, cells, IndexesOf(tuples))
    /\ \A k \in DOMAIN cells :
          /\ cells[k].statement = com
          /\ CellIsPublic(cells[k], tuples) /\ OpeningParses(cells[k].opening)

LEMMA PublicCellIsThere ==
  ASSUME NEW tuples, IsList(tuples), NEW w, CellIsPublic(w, tuples)
  PROVE  \E m \in DOMAIN tuples : tuples[m].index = w.index /\ tuples[m].cell = w.cell
<1> DEFINE picked == {k \in DOMAIN tuples : tuples[k].index = w.index}
           public == Kept(tuples, picked)
<1>1. public # <<>> /\ w.cell = public[1].cell BY DEF CellIsPublic, PublicCell
<1>2. PICK m \in picked : public[1] = tuples[m]
  <2>1. picked \in SUBSET (DOMAIN tuples) OBVIOUS
  <2> HIDE DEF picked
  <2>2. \E m \in picked : public[1] = tuples[m] BY <1>1, <2>1, FirstKept
  <2> QED BY <2>2
<1>3. m \in DOMAIN tuples /\ tuples[m].index = w.index OBVIOUS
<1> QED BY <1>1, <1>2, <1>3

LEMMA OpeningOfCell ==
  ASSUME NEW w, NEW v, NEW tuples, CellIsPublic(w, tuples), CellIsPublic(v, tuples), w.index = v.index
  PROVE  w.cell = v.cell /\ w.opening = v.opening
<1>1. w.cell = v.cell BY DEF CellIsPublic
<1>2. Hash("cell", w.opening) = Hash("cell", v.opening) BY <1>1 DEF CellIsPublic, CellCommitment
<1> QED BY <1>1, <1>2 DEF Hash

LEMMA SideCellsOfSound ==
  ASSUME NEW i, Sound(i), CellsTellApart(i.statement.consumedCells)
  PROVE  LET com == StatementCommitment(i.statement)
         IN  /\ SideCells(i.consumed, i.consumedCells, i.statement.consumedCells, com)
             /\ SideCells(i.created, i.createdCells, i.statement.createdCells, com)
<1> DEFINE com == StatementCommitment(i.statement)
           st == i.statement
<1>1. /\ InputParses(i) /\ AllPass(LogicalChecks(i)) /\ AllPass(CellChecks(i))
      /\ AllPass(ConsumedBundleChecks(i)) /\ AllPass(CreatedBundleChecks(i))
  BY DEF Sound, EveryCheckHolds, EarlyChecksHold
<1>2. /\ IsList(i.consumedCells) /\ IsList(i.createdCells)
      /\ IsList(st.consumedCells) /\ IsList(st.createdCells)
  <2>1. StatementParses(st, i.profile) BY <1>1 DEF InputParses
  <2> QED BY <1>1, <2>1, InputLists, StatementLists
<1>3. /\ BundlesAreOpened(i.consumed, i.consumedCells, IndexesOf(st.consumedCells))
      /\ BundlesAreOpened(i.created, i.createdCells, IndexesOf(st.createdCells))
  BY <1>1, ConsumedBundleStage, CreatedBundleStage
<1>4. /\ \A k \in DOMAIN i.consumedCells : CellIsPublic(i.consumedCells[k], st.consumedCells)
      /\ \A k \in DOMAIN i.createdCells :
            /\ CellIsPublic(i.createdCells[k], st.createdCells)
            /\ i.createdCells[k].opening.slot = i.createdCells[k].index
  BY <1>1, CellStage DEF ConsumedCellHolds, CreatedCellHolds
<1>5. /\ \A k \in DOMAIN i.consumedCells : i.consumedCells[k].statement = com
      /\ \A k \in DOMAIN i.createdCells : i.createdCells[k].statement = com
  BY <1>1, LogicalStage DEF WitnessesAreBound, Bound
<1>6. /\ \A k \in DOMAIN i.consumedCells : OpeningParses(i.consumedCells[k].opening)
      /\ \A k \in DOMAIN i.createdCells : OpeningParses(i.createdCells[k].opening)
  <2>1. \A w \in ToSet(i.consumedCells) \cup ToSet(i.createdCells) : OpeningParses(w.opening)
    BY <1>1 DEF InputParses
  <2>2. \A k \in DOMAIN i.consumedCells : i.consumedCells[k] \in ToSet(i.consumedCells) BY DEF ToSet
  <2>3. \A k \in DOMAIN i.createdCells : i.createdCells[k] \in ToSet(i.createdCells) BY DEF ToSet
  <2> QED BY <2>1, <2>2, <2>3
<1>7. ASSUME NEW cells, Distinct(IndexesOf(cells)), NEW k \in DOMAIN cells, NEW l \in DOMAIN cells,
             cells[k].index = cells[l].index
      PROVE  k = l
  <2>1. DOMAIN IndexesOf(cells) = DOMAIN cells BY DEF IndexesOf
  <2>2. IndexesOf(cells)[k] = IndexesOf(cells)[l] BY <1>7 DEF IndexesOf
  <2> QED BY <1>7, <2>1, <2>2 DEF Distinct
<1>8. CellsTellApart(i.consumedCells)
  <2> SUFFICES ASSUME NEW k \in DOMAIN i.consumedCells, NEW l \in DOMAIN i.consumedCells,
                      i.consumedCells[k].cell = i.consumedCells[l].cell
               PROVE  k = l
    BY DEF CellsTellApart
  <2>1. PICK m \in DOMAIN st.consumedCells :
           /\ st.consumedCells[m].index = i.consumedCells[k].index
           /\ st.consumedCells[m].cell = i.consumedCells[k].cell
    BY <1>2, <1>4, PublicCellIsThere
  <2>2. PICK n \in DOMAIN st.consumedCells :
           /\ st.consumedCells[n].index = i.consumedCells[l].index
           /\ st.consumedCells[n].cell = i.consumedCells[l].cell
    BY <1>2, <1>4, PublicCellIsThere
  <2>3. m = n BY <2>1, <2>2 DEF CellsTellApart
  <2>4. i.consumedCells[k].index = i.consumedCells[l].index BY <2>1, <2>2, <2>3
  <2>5. Distinct(IndexesOf(i.consumedCells)) BY <1>3 DEF BundlesAreOpened
  <2> QED BY <1>7, <2>4, <2>5
<1>9. CellsTellApart(i.createdCells)
  <2> SUFFICES ASSUME NEW k \in DOMAIN i.createdCells, NEW l \in DOMAIN i.createdCells,
                      i.createdCells[k].cell = i.createdCells[l].cell
               PROVE  k = l
    BY DEF CellsTellApart
  <2>1. Hash("cell", i.createdCells[k].opening) = Hash("cell", i.createdCells[l].opening)
    BY <1>4 DEF CellIsPublic, CellCommitment
  <2>2. i.createdCells[k].opening = i.createdCells[l].opening BY <2>1 DEF Hash
  <2>3. i.createdCells[k].index = i.createdCells[l].index BY <1>4, <2>2
  <2>4. Distinct(IndexesOf(i.createdCells)) BY <1>3 DEF BundlesAreOpened
  <2> QED BY <1>7, <2>3, <2>4
<1> HIDE DEF com, st
<1>10. SideCells(i.consumed, i.consumedCells, st.consumedCells, com)
  BY <1>2, <1>3, <1>4, <1>5, <1>6, <1>8 DEF SideCells
<1>11. SideCells(i.created, i.createdCells, st.createdCells, com)
  BY <1>2, <1>3, <1>4, <1>5, <1>6, <1>9 DEF SideCells
<1> QED BY <1>10, <1>11 DEF com, st

\* A cell assigned to a note opens a member of its bundle.
LEMMA OwnCellMatches ==
  ASSUME NEW w, NEW cells, IsList(cells), BundleIsOpened(w, cells), NEW k \in DOMAIN cells,
         cells[k].id = w.id
  PROVE  MatchesMember(w.bundle, cells[k].opening)
<1> DEFINE picked == {j \in DOMAIN cells : cells[j].id = w.id}
           assigned == Kept(cells, picked)
<1>1. cells \in Seq(Range(cells)) /\ DOMAIN cells = 1..Len(cells) BY IsListShape
<1>2. picked \in SUBSET (1..Len(cells)) /\ k \in picked BY <1>1
<1>3. assigned = AssignedTo(w, cells) BY DEF AssignedTo
<1>4. DOMAIN assigned = 1..Len(assigned) BY <1>3, AssignedCells
<1> HIDE DEF picked
<1>5. PICK j \in 1..Len(assigned) : assigned[j] = cells[k] BY <1>1, <1>2, KeptItems
<1>6. \A n \in DOMAIN assigned : MatchesMember(w.bundle, assigned[n].opening) BY <1>3 DEF BundleIsOpened
<1> HIDE DEF assigned
<1> QED BY <1>4, <1>5, <1>6

LEMMA SameOpening ==
  ASSUME NEW a, NEW b, OpeningParses(a), OpeningParses(b), MemberOf(a) = MemberOf(b), a.scope = b.scope
  PROVE  a = b
<1> DEFINE F == {"scope", "slot", "value", "profile", "blinder"}
<1>1. a = [f \in F |-> a[f]] /\ b = [f \in F |-> b[f]] BY DEF OpeningParses, HasFields
<1>2. /\ MemberOf(a).slot = MemberOf(b).slot /\ MemberOf(a).value = MemberOf(b).value
      /\ MemberOf(a).profile = MemberOf(b).profile /\ MemberOf(a).blinder = MemberOf(b).blinder
  OBVIOUS
<1>3. a.slot = b.slot /\ a.value = b.value /\ a.profile = b.profile /\ a.blinder = b.blinder
  BY <1>2 DEF MemberOf
<1>4. \A f \in F : a[f] = b[f] BY <1>3
<1> HIDE DEF F
<1> QED BY <1>1, <1>4

\* The cell at an index is the same on both sides, and belongs to the same note.
LEMMA CellIsAmong ==
  ASSUME NEW notes, NEW others, NEW tuples, NEW com,
         SideNotes(notes, tuples, com), SideNotes(others, tuples, com),
         NEW cells, NEW otherCells, NEW cellTuples,
         SideCells(notes, cells, cellTuples, com), SideCells(others, otherCells, cellTuples, com),
         NEW k \in DOMAIN cells
  PROVE  \E l \in DOMAIN otherCells :
            /\ otherCells[l].index = cells[k].index /\ otherCells[l].statement = cells[k].statement
            /\ otherCells[l].cell = cells[k].cell /\ otherCells[l].opening = cells[k].opening
            /\ otherCells[l].id = cells[k].id
<1>1. PICK l \in DOMAIN otherCells : otherCells[l].index = cells[k].index
  <2>1. ToSet(IndexesOf(cells)) = ToSet(IndexesOf(otherCells)) BY DEF SideCells, BundlesAreOpened
  <2>2. cells[k].index \in {cells[j].index : j \in DOMAIN cells} OBVIOUS
  <2>3. cells[k].index \in {otherCells[j].index : j \in DOMAIN otherCells} BY <2>1, <2>2, ItemsOfIndexes
  <2> QED BY <2>3
<1>2. otherCells[l].cell = cells[k].cell /\ otherCells[l].opening = cells[k].opening
  BY <1>1, OpeningOfCell DEF SideCells
<1>3. otherCells[l].statement = cells[k].statement BY DEF SideCells
<1>4. PICK a \in DOMAIN notes : notes[a].id = cells[k].id
  <2>1. ToSet(IdsOf(cells)) \subseteq ToSet(IdsOf(notes)) BY DEF SideCells, BundlesAreOpened
  <2>2. k \in DOMAIN IdsOf(cells) /\ IdsOf(cells)[k] = cells[k].id BY DEF IdsOf
  <2>3. cells[k].id \in ToSet(IdsOf(notes)) BY <2>1, <2>2 DEF ToSet
  <2> QED BY <2>3 DEF ToSet, IdsOf
<1>5. PICK b \in DOMAIN others : others[b].id = notes[a].id /\ others[b].bundle = notes[a].bundle
  BY NoteIsAmong
<1>6. MatchesMember(notes[a].bundle, cells[k].opening)
  BY <1>4, OwnCellMatches DEF SideCells, BundlesAreOpened
<1>7. cells[k].opening.scope = others[b].bundle.scope BY <1>5, <1>6 DEF MatchesMember
<1>8. PICK j \in DOMAIN others[b].bundle.members : others[b].bundle.members[j] = MemberOf(cells[k].opening)
  BY <1>5, <1>6 DEF MatchesMember, MemberOf
<1>9. PICK m \in DOMAIN otherCells :
         /\ others[b].bundle.members[j] = MemberOf(otherCells[m].opening)
         /\ otherCells[m].id = others[b].id /\ otherCells[m].opening.scope = others[b].bundle.scope
  <2>1. BundleParses(others[b].bundle) BY DEF SideNotes
  <2>2. IsList(otherCells) /\ BundleIsOpened(others[b], otherCells) BY DEF SideCells, BundlesAreOpened
  <2> QED BY <2>1, <2>2, MembersAreOpened
<1>10. otherCells[m].opening = cells[k].opening
  <2>1. OpeningParses(otherCells[m].opening) /\ OpeningParses(cells[k].opening) BY DEF SideCells
  <2> QED BY <1>7, <1>8, <1>9, <2>1, SameOpening
<1>11. otherCells[m].cell = otherCells[l].cell BY <1>2, <1>10 DEF SideCells, CellIsPublic
<1>12. m = l BY <1>11 DEF SideCells, CellsTellApart
<1> QED BY <1>1, <1>2, <1>3, <1>4, <1>5, <1>9, <1>12

LEMMA CreatedCellsAlike ==
  ASSUME NEW notes, NEW others, NEW tuples, NEW com,
         SideNotes(notes, tuples, com), SideNotes(others, tuples, com),
         NEW cells, NEW otherCells, NEW cellTuples,
         SideCells(notes, cells, cellTuples, com), SideCells(others, otherCells, cellTuples, com)
  PROVE  CoveredBy(cells, otherCells, CreatedCellFields)
<1> SUFFICES ASSUME NEW k \in DOMAIN cells
             PROVE  \E l \in DOMAIN otherCells : \A f \in CreatedCellFields : cells[k][f] = otherCells[l][f]
  BY DEF CoveredBy
<1>1. PICK l \in DOMAIN otherCells :
         /\ otherCells[l].index = cells[k].index /\ otherCells[l].statement = cells[k].statement
         /\ otherCells[l].cell = cells[k].cell /\ otherCells[l].opening = cells[k].opening
         /\ otherCells[l].id = cells[k].id
  BY CellIsAmong
<1> QED BY <1>1 DEF CreatedCellFields

\* A consumed cell says besides which output of an earlier transaction it is.
SourcesAre(cells, inputs) == \A k \in DOMAIN cells : cells[k].source = At(inputs, cells[k].index).outpoint

LEMMA ConsumedCellsAlike ==
  ASSUME NEW notes, NEW others, NEW tuples, NEW com,
         SideNotes(notes, tuples, com), SideNotes(others, tuples, com),
         NEW cells, NEW otherCells, NEW cellTuples,
         SideCells(notes, cells, cellTuples, com), SideCells(others, otherCells, cellTuples, com),
         NEW inputs, SourcesAre(cells, inputs), SourcesAre(otherCells, inputs)
  PROVE  CoveredBy(cells, otherCells, ConsumedCellFields)
<1> SUFFICES ASSUME NEW k \in DOMAIN cells
             PROVE  \E l \in DOMAIN otherCells : \A f \in ConsumedCellFields : cells[k][f] = otherCells[l][f]
  BY DEF CoveredBy
<1>1. PICK l \in DOMAIN otherCells :
         /\ otherCells[l].index = cells[k].index /\ otherCells[l].statement = cells[k].statement
         /\ otherCells[l].cell = cells[k].cell /\ otherCells[l].opening = cells[k].opening
         /\ otherCells[l].id = cells[k].id
  BY CellIsAmong
<1>2. otherCells[l].source = cells[k].source BY <1>1 DEF SourcesAre
<1> QED BY <1>1, <1>2 DEF ConsumedCellFields

(***************************************************************************)
(* The exit keys, and the authority and nullifier of every consumed note.  *)
(***************************************************************************)

\* The exit witness w is the one the public cell t commits to.
ExitOf(w, t, com) == w.statement = com /\ w.index = t.index /\ ExitCommitment(w.key) = t.exit

ExitsFit(exits, tuples, com) ==
    /\ \A k \in DOMAIN exits : \E n \in DOMAIN tuples : ExitOf(exits[k], tuples[n], com)
    /\ \A n \in DOMAIN tuples : \E k \in DOMAIN exits : ExitOf(exits[k], tuples[n], com)

LEMMA ExitsOfSound ==
  ASSUME NEW i, Sound(i)
  PROVE  ExitsFit(i.exits, i.statement.createdCells, StatementCommitment(i.statement))
<1> DEFINE com == StatementCommitment(i.statement)
           exits == i.exits
           tuples == i.statement.createdCells
           m == Len(exits)
           n == Len(tuples)
           f == IndexesOf(tuples)
           g == IndexesOf(exits)
<1>1. InputParses(i) /\ EarlyChecksHold(i) /\ AllPass(ExitChecks(i)) BY DEF Sound, EveryCheckHolds
<1>2. /\ m <= n
      /\ \A k \in DOMAIN exits : ExitItemIsGood(i, k)
      /\ \A k \in DOMAIN tuples : ExitKeyIsGood(i, k)
  BY <1>1, ExitStage
<1>3. IsList(exits) /\ m \in Nat /\ DOMAIN exits = 1..m /\ n \in Nat /\ DOMAIN tuples = 1..n
  <2>1. StatementParses(i.statement, i.profile) BY <1>1 DEF InputParses
  <2>2. IsList(exits) /\ IsList(tuples) BY <1>1, <2>1, InputLists, StatementLists
  <2> HIDE DEF exits, tuples
  <2> QED BY <2>2, IsListShape
<1>4. NoneTwice(f, n)
  <2>1. PublicMoney(i.statement, i.profile.cellValue) BY <1>1, BothSides
  <2> QED BY <2>1 DEF PublicMoney
<1>5. NoneTwice(g, m)
  <2>1. \A k \in 1..m : ~RepeatsEarlier(g, k) BY <1>2, <1>3 DEF ExitItemIsGood
  <2> HIDE DEF g, m
  <2> QED BY <1>3, <2>1, NoRepeats
<1>6. /\ \A k \in 1..m : exits[k].statement = com /\ g[k] = exits[k].index
      /\ \A k \in 1..n : f[k] = tuples[k].index
  BY <1>2, <1>3 DEF ExitItemIsGood, IndexesOf
<1>7. ASSUME NEW a \in 1..n PROVE \E k \in 1..m : ExitOf(exits[k], tuples[a], com)
  <2> DEFINE picked == {k \in DOMAIN exits : exits[k].index = tuples[a].index}
             given == Kept(exits, picked)
  <2>1. given # <<>> /\ ExitCommitment(given[1].key) = tuples[a].exit
    BY <1>2, <1>3 DEF ExitKeyIsGood, ExitFor
  <2>2. PICK k \in picked : given[1] = exits[k]
    <3>1. picked \in SUBSET (DOMAIN exits) OBVIOUS
    <3> HIDE DEF picked, exits
    <3>2. \E k \in picked : given[1] = exits[k] BY <1>3, <2>1, <3>1, FirstKept
    <3> QED BY <3>2
  <2>3. k \in 1..m /\ exits[k].index = tuples[a].index BY <1>3
  <2>4. ExitOf(exits[k], tuples[a], com) BY <1>6, <2>1, <2>2, <2>3 DEF ExitOf
  <2> QED BY <2>3, <2>4
<1> HIDE DEF com, exits, tuples, m, n, f, g
<1>8. \A a \in 1..n : \E k \in 1..m : f[a] = g[k]
  <2> SUFFICES ASSUME NEW a \in 1..n PROVE \E k \in 1..m : f[a] = g[k] OBVIOUS
  <2>1. PICK k \in 1..m : ExitOf(exits[k], tuples[a], com) BY <1>7
  <2>2. f[a] = g[k] BY <1>6, <2>1 DEF ExitOf
  <2> QED BY <2>2
<1>9. m = n /\ EachIn(g, f, n) BY <1>2, <1>3, <1>4, <1>5, <1>8, ShorterMatched
<1>10. ASSUME NEW k \in 1..m PROVE \E a \in 1..n : ExitOf(exits[k], tuples[a], com)
  <2>1. PICK a \in 1..n : g[k] = f[a] BY <1>9 DEF EachIn
  <2>2. PICK l \in 1..m : ExitOf(exits[l], tuples[a], com) BY <1>7
  <2>3. g[l] = g[k] BY <1>6, <2>1, <2>2 DEF ExitOf
  <2>4. l = k BY <1>5, <2>3 DEF NoneTwice
  <2> QED BY <2>2, <2>4
<1>11. ExitsFit(exits, tuples, com) BY <1>3, <1>7, <1>10 DEF ExitsFit
<1> QED BY <1>11 DEF exits, tuples, com

LEMMA ExitsAlike ==
  ASSUME NEW exits, NEW others, NEW tuples, NEW com,
         ExitsFit(exits, tuples, com), ExitsFit(others, tuples, com)
  PROVE  CoveredBy(exits, others, ExitFields)
<1> SUFFICES ASSUME NEW k \in DOMAIN exits
             PROVE  \E l \in DOMAIN others : \A f \in ExitFields : exits[k][f] = others[l][f]
  BY DEF CoveredBy
<1>1. PICK n \in DOMAIN tuples : ExitOf(exits[k], tuples[n], com) BY DEF ExitsFit
<1>2. PICK l \in DOMAIN others : ExitOf(others[l], tuples[n], com) BY DEF ExitsFit
<1>3. Hash("exit-authority", exits[k].key) = Hash("exit-authority", others[l].key)
  BY <1>1, <1>2 DEF ExitOf, ExitCommitment
<1>4. exits[k].key = others[l].key BY <1>3 DEF Hash
<1>5. exits[k].statement = others[l].statement /\ exits[k].index = others[l].index BY <1>1, <1>2 DEF ExitOf
<1> QED BY <1>4, <1>5 DEF ExitFields

\* The material w is for the note of the witness v, and given with the key of its owner.
MaterialFor(w, v, com) ==
    /\ w.statement = com /\ w.id = v.id /\ w.note = v.id /\ w.bundle = v.note.bundle
    /\ OwnerCommitment(w.key) = v.note.owner

EachHasMaterial(items, notes, com) ==
    /\ \A k \in DOMAIN items : \E c \in DOMAIN notes : MaterialFor(items[k], notes[c], com)
    /\ \A c \in DOMAIN notes : \E k \in DOMAIN items : MaterialFor(items[k], notes[c], com)

\* Material for as many notes as there are, no note twice, is material for each.
LEMMA MaterialForEach ==
  ASSUME NEW items, NEW notes, NEW com, IsList(items), IsList(notes), Len(items) = Len(notes),
         Distinct(IdsOf(notes)), \A k \in DOMAIN items : ~RepeatsEarlier(IdsOf(items), k),
         \A k \in DOMAIN items : \E c \in DOMAIN notes : MaterialFor(items[k], notes[c], com)
  PROVE  EachHasMaterial(items, notes, com)
<1> DEFINE ids == IdsOf(notes)
           named == IdsOf(items)
<1>0. PICK m \in Nat : m = Len(notes) BY IsListShape
<1>1. DOMAIN notes = 1..m /\ DOMAIN items = 1..m BY <1>0, IsListShape
<1>2. /\ DOMAIN ids = 1..m
      /\ \A k \in 1..m : ids[k] = notes[k].id /\ named[k] = items[k].id
  BY <1>1 DEF IdsOf
<1>3. NoneTwice(ids, m) BY <1>2 DEF Distinct, NoneTwice
<1>4. NoneTwice(named, m)
  <2>1. \A k \in 1..m : ~RepeatsEarlier(named, k) BY <1>1
  <2> HIDE DEF named
  <2> QED BY <2>1, NoRepeats
<1> HIDE DEF ids, named
<1>5. EachIn(named, ids, m)
  <2> SUFFICES ASSUME NEW k \in 1..m PROVE \E c \in 1..m : named[k] = ids[c] BY DEF EachIn
  <2>1. PICK c \in 1..m : MaterialFor(items[k], notes[c], com) BY <1>1
  <2> QED BY <1>2, <2>1 DEF MaterialFor
<1>6. EachIn(ids, named, m) BY <1>3, <1>4, <1>5, AllMatched
<1>7. ASSUME NEW c \in 1..m PROVE \E k \in 1..m : MaterialFor(items[k], notes[c], com)
  <2>1. PICK k \in 1..m : ids[c] = named[k] BY <1>6 DEF EachIn
  <2>2. PICK d \in 1..m : MaterialFor(items[k], notes[d], com) BY <1>1
  <2>3. ids[d] = ids[c] BY <1>2, <2>1, <2>2 DEF MaterialFor
  <2>4. d = c BY <1>3, <2>3 DEF NoneTwice
  <2> QED BY <2>2, <2>4
<1> QED BY <1>1, <1>7 DEF EachHasMaterial

\* The material for a note is the same in any other input, but for what derives from it.
SameMaterialFor(w, x) ==
    /\ w.statement = x.statement /\ w.id = x.id /\ w.note = x.note /\ w.bundle = x.bundle
    /\ w.key = x.key

LEMMA MaterialIsAmong ==
  ASSUME NEW notes, NEW others, NEW tuples, NEW com,
         SideNotes(notes, tuples, com), SideNotes(others, tuples, com),
         NEW items, NEW otherItems,
         EachHasMaterial(items, notes, com), EachHasMaterial(otherItems, others, com),
         NEW k \in DOMAIN items
  PROVE  \E l \in DOMAIN otherItems : SameMaterialFor(items[k], otherItems[l])
<1>1. PICK c \in DOMAIN notes : MaterialFor(items[k], notes[c], com) BY DEF EachHasMaterial
<1>2. PICK d \in DOMAIN others : others[d].id = notes[c].id /\ others[d].note = notes[c].note
  BY NoteIsAmong
<1>3. PICK l \in DOMAIN otherItems : MaterialFor(otherItems[l], others[d], com) BY DEF EachHasMaterial
<1>4. Hash("owner-authority", items[k].key) = Hash("owner-authority", otherItems[l].key)
  BY <1>1, <1>2, <1>3 DEF MaterialFor, OwnerCommitment
<1>5. items[k].key = otherItems[l].key BY <1>4 DEF Hash
<1>6. /\ items[k].statement = otherItems[l].statement /\ items[k].id = otherItems[l].id
      /\ items[k].note = otherItems[l].note /\ items[k].bundle = otherItems[l].bundle
  BY <1>1, <1>2, <1>3 DEF MaterialFor
<1> QED BY <1>5, <1>6 DEF SameMaterialFor

SignaturesFit(items, com) ==
    \A k \in DOMAIN items :
        items[k].signature = Signature(items[k].key, SpendMessage(com, items[k].note, items[k].bundle))
NullifiersFit(items) ==
    \A k \in DOMAIN items : items[k].nullifier = Nullifier(items[k].key, items[k].note, items[k].bundle)

LEMMA AuthoritiesAlike ==
  ASSUME NEW notes, NEW others, NEW tuples, NEW com,
         SideNotes(notes, tuples, com), SideNotes(others, tuples, com),
         NEW items, NEW otherItems,
         EachHasMaterial(items, notes, com), EachHasMaterial(otherItems, others, com),
         SignaturesFit(items, com), SignaturesFit(otherItems, com)
  PROVE  CoveredBy(items, otherItems, AuthorityFields)
<1> SUFFICES ASSUME NEW k \in DOMAIN items
             PROVE  \E l \in DOMAIN otherItems : \A f \in AuthorityFields : items[k][f] = otherItems[l][f]
  BY DEF CoveredBy
<1>1. PICK l \in DOMAIN otherItems : SameMaterialFor(items[k], otherItems[l]) BY MaterialIsAmong
<1>2. items[k].signature = otherItems[l].signature BY <1>1 DEF SignaturesFit, SameMaterialFor
<1> QED BY <1>1, <1>2 DEF AuthorityFields, SameMaterialFor

LEMMA NullifiersAlike ==
  ASSUME NEW notes, NEW others, NEW tuples, NEW com,
         SideNotes(notes, tuples, com), SideNotes(others, tuples, com),
         NEW items, NEW otherItems,
         EachHasMaterial(items, notes, com), EachHasMaterial(otherItems, others, com),
         NullifiersFit(items), NullifiersFit(otherItems)
  PROVE  CoveredBy(items, otherItems, NullifierFields)
<1> SUFFICES ASSUME NEW k \in DOMAIN items
             PROVE  \E l \in DOMAIN otherItems : \A f \in NullifierFields : items[k][f] = otherItems[l][f]
  BY DEF CoveredBy
<1>1. PICK l \in DOMAIN otherItems : SameMaterialFor(items[k], otherItems[l]) BY MaterialIsAmong
<1>2. items[k].nullifier = otherItems[l].nullifier BY <1>1 DEF NullifiersFit, SameMaterialFor
<1> QED BY <1>1, <1>2 DEF NullifierFields, SameMaterialFor

LEMMA MaterialOfSound ==
  ASSUME NEW i, Sound(i)
  PROVE  LET com == StatementCommitment(i.statement)
         IN  /\ EachHasMaterial(i.authorities, i.consumed, com) /\ SignaturesFit(i.authorities, com)
             /\ EachHasMaterial(i.nullifiers, i.consumed, com) /\ NullifiersFit(i.nullifiers)
<1> DEFINE com == StatementCommitment(i.statement)
<1>1. /\ InputParses(i) /\ AllPass(LogicalChecks(i))
      /\ AllPass(AuthorityChecks(i)) /\ AllPass(NullifierChecks(i))
  BY DEF Sound, EveryCheckHolds, EarlyChecksHold
<1>2. IsList(i.consumed) /\ IsList(i.authorities) /\ IsList(i.nullifiers) BY <1>1, InputLists
<1>3. /\ Distinct(IdsOf(i.consumed))
      /\ \A k \in DOMAIN i.consumed : NoteIsOpened(i.consumed[k])
  BY <1>1, LogicalStage DEF NotesMatch
<1>4. Len(i.authorities) = Len(i.consumed) /\ \A k \in DOMAIN i.authorities : AuthorityIsGood(i, k)
  BY <1>1, AuthorityStage
<1>5. Len(i.nullifiers) = Len(i.consumed) /\ \A k \in DOMAIN i.nullifiers : NullifierIsGood(i, k)
  BY <1>1, NullifierStage
<1>6. ASSUME NEW id, Opening(i.consumed, id) # <<>>
      PROVE  \E c \in DOMAIN i.consumed :
                Opening(i.consumed, id)[1] = i.consumed[c] /\ i.consumed[c].id = id
  BY <1>2, <1>6, OpeningFound
<1>7. ASSUME NEW k \in DOMAIN i.authorities
      PROVE  \E c \in DOMAIN i.consumed : MaterialFor(i.authorities[k], i.consumed[c], com)
  <2> DEFINE w == i.authorities[k]
             found == Opening(i.consumed, w.id)
  <2>1. /\ w.statement = com
        /\ found # <<>> /\ w.note = found[1].id /\ w.bundle = found[1].note.bundle
        /\ OwnerCommitment(w.key) = found[1].note.owner
    BY <1>4 DEF AuthorityIsGood, NamesNote, NamesBundle
  <2>2. PICK c \in DOMAIN i.consumed : found[1] = i.consumed[c] /\ i.consumed[c].id = w.id
    BY <1>6, <2>1
  <2> HIDE DEF com
  <2>3. MaterialFor(w, i.consumed[c], com) BY <2>1, <2>2 DEF MaterialFor
  <2> QED BY <2>3
<1>8. SignaturesFit(i.authorities, com) BY <1>4 DEF AuthorityIsGood, SignaturesFit
<1>9. EachHasMaterial(i.authorities, i.consumed, com)
  <2>1. \A k \in DOMAIN i.authorities : ~RepeatsEarlier(IdsOf(i.authorities), k) BY <1>4 DEF AuthorityIsGood
  <2> HIDE DEF com
  <2> QED BY <1>2, <1>3, <1>4, <1>7, <2>1, MaterialForEach
\* The key of a nullifier is the one that authorises its note.
<1>10. ASSUME NEW k \in DOMAIN i.nullifiers
       PROVE  /\ \E c \in DOMAIN i.consumed : MaterialFor(i.nullifiers[k], i.consumed[c], com)
              /\ i.nullifiers[k].nullifier =
                    Nullifier(i.nullifiers[k].key, i.nullifiers[k].note, i.nullifiers[k].bundle)
  <2> DEFINE w == i.nullifiers[k]
             found == Opening(i.consumed, w.id)
  <2>1. /\ w.statement = com
        /\ found # <<>> /\ w.note = found[1].id /\ w.bundle = found[1].note.bundle
        /\ \E a \in ToSet(i.authorities) : a.id = w.id /\ a.key = w.key
        /\ DerivedNullifiers(i)[k] = w.nullifier
    BY <1>5 DEF NullifierIsGood, NamesNote, NamesBundle
  <2>2. PICK c \in DOMAIN i.consumed : found[1] = i.consumed[c] /\ i.consumed[c].id = w.id
    BY <1>6, <2>1
  <2>3. DerivedNullifiers(i)[k] = Nullifier(w.key, found[1].id, found[1].note.bundle)
    BY <2>1 DEF DerivedNullifiers, DerivedNullifier
  <2>4. PICK n \in DOMAIN i.authorities : i.authorities[n].id = w.id /\ i.authorities[n].key = w.key
    BY <2>1 DEF ToSet
  <2>5. PICK d \in DOMAIN i.consumed : MaterialFor(i.authorities[n], i.consumed[d], com) BY <1>7
  <2>6. i.consumed[d].note = i.consumed[c].note
    <3>1. i.consumed[d].id = i.consumed[c].id BY <2>2, <2>4, <2>5 DEF MaterialFor
    <3> QED BY <1>3, <3>1, SameNote
  <2>7. OwnerCommitment(w.key) = i.consumed[c].note.owner BY <2>4, <2>5, <2>6 DEF MaterialFor
  <2> HIDE DEF com
  <2>8. MaterialFor(w, i.consumed[c], com) BY <2>1, <2>2, <2>7 DEF MaterialFor
  <2> QED BY <2>1, <2>3, <2>8
<1>11. NullifiersFit(i.nullifiers) BY <1>10 DEF NullifiersFit
<1>12. EachHasMaterial(i.nullifiers, i.consumed, com)
  <2>1. \A k \in DOMAIN i.nullifiers : ~RepeatsEarlier(IdsOf(i.nullifiers), k) BY <1>5 DEF NullifierIsGood
  <2> HIDE DEF com
  <2> QED BY <1>2, <1>3, <1>5, <1>10, <2>1, MaterialForEach
<1> QED BY <1>8, <1>9, <1>11, <1>12

(***************************************************************************)
(* The recovery evidence and the packets it rebuilds.                      *)
(***************************************************************************)

\* The packet that evidence w rebuilds for the created note of witness v.
PacketFor(w, v) ==
    Packet(Plaintext(w.packet, w.id, v.bundle.scope, v.note, v.bundle), w.descriptor, w.seed)

\* Evidence w for the created note of witness v, whose place in the statement is t.
EvidenceFor(w, v, t, st, com) ==
    /\ w.statement = com /\ w.id = v.id /\ w.id = t.note /\ w.note = t.note /\ w.packet = t.packet
    /\ w.scope = st.scope /\ w.descriptor.network = st.network
    /\ OwnerCommitment(w.descriptor.key) = v.note.owner
    /\ PacketHash(PacketFor(w, v)) = t.hash

LEMMA EvidenceIsFixed ==
  ASSUME NEW w, NEW x, NEW v, NEW u, NEW t, NEW st, NEW com,
         EvidenceFor(w, v, t, st, com), EvidenceFor(x, u, t, st, com),
         NoteIsOpened(v), NoteIsOpened(u)
  PROVE  EvidenceOf(w) = EvidenceOf(x) /\ PacketFor(w, v) = PacketFor(x, u)
<1>1. v.id = u.id BY DEF EvidenceFor
<1>2. v.note = u.note BY <1>1, SameNote
<1>3. Hash("packet-hash", PacketFor(w, v)) = Hash("packet-hash", PacketFor(x, u))
  BY DEF EvidenceFor, PacketHash
<1>4. PacketFor(w, v) = PacketFor(x, u) BY <1>3 DEF Hash
<1>5. /\ PacketFor(w, v)[2].kem = w.descriptor.kem /\ PacketFor(w, v)[2].seed = w.seed
      /\ PacketFor(x, u)[2].kem = x.descriptor.kem /\ PacketFor(x, u)[2].seed = x.seed
  BY DEF PacketFor, Packet, Hash
<1>6. w.descriptor.kem = x.descriptor.kem /\ w.seed = x.seed BY <1>4, <1>5
<1>7. Hash("owner-authority", w.descriptor.key) = Hash("owner-authority", x.descriptor.key)
  BY <1>2 DEF EvidenceFor, OwnerCommitment
<1>8. w.descriptor.key = x.descriptor.key BY <1>7 DEF Hash
<1>9. /\ w.statement = x.statement /\ w.id = x.id /\ w.note = x.note /\ w.scope = x.scope
      /\ w.packet = x.packet /\ w.descriptor.network = x.descriptor.network
  BY DEF EvidenceFor
<1> QED BY <1>4, <1>6, <1>8, <1>9 DEF EvidenceOf

\* Every place of the statement has its evidence, and the packet that this rebuilds.
EvidenceFits(i) ==
    /\ DOMAIN i.recovery = DOMAIN i.statement.created
    /\ \A k \in DOMAIN i.recovery : \E c \in DOMAIN i.created :
          /\ EvidenceFor(i.recovery[k], i.created[c], i.statement.created[k], i.statement,
                         StatementCommitment(i.statement))
          /\ NoteIsOpened(i.created[c])
          /\ RebuiltPacket(i, i.recovery[k]) = PacketFor(i.recovery[k], i.created[c])

LEMMA EvidenceOfSound ==
  ASSUME NEW i, Sound(i)
  PROVE  /\ EvidenceFits(i) /\ TableIsGood(i)
         /\ i.table.statement = StatementCommitment(i.statement)
<1> DEFINE com == StatementCommitment(i.statement)
           tuples == i.statement.created
<1>1. InputParses(i) /\ AllPass(LogicalChecks(i)) /\ AllPass(RecoveryChecks(i))
  BY DEF Sound, EveryCheckHolds, EarlyChecksHold
<1>2. /\ NotesMatch(i.created, tuples)
      /\ \A k \in DOMAIN i.created : NoteIsOpened(i.created[k])
  BY <1>1, LogicalStage
<1>3. /\ Len(i.recovery) = Len(i.created)
      /\ i.table.statement = StatementCommitment(i.statement)
      /\ \A k \in DOMAIN i.recovery : RecoveryIsGood(i, k)
      /\ TableIsGood(i)
  BY <1>1, RecoveryStage
<1>4. DOMAIN i.recovery = DOMAIN tuples /\ IsList(i.created)
  <2>1. StatementParses(i.statement, i.profile) BY <1>1 DEF InputParses
  <2>2. IsList(i.recovery) /\ IsList(i.created) /\ IsList(tuples)
    BY <1>1, <2>1, InputLists, StatementLists
  <2>3. Len(i.recovery) = Len(tuples) BY <1>2, <1>3 DEF NotesMatch
  <2> HIDE DEF tuples
  <2> QED BY <2>2, <2>3, IsListShape
<1>5. ASSUME NEW k \in DOMAIN i.recovery
      PROVE  \E c \in DOMAIN i.created :
                /\ EvidenceFor(i.recovery[k], i.created[c], tuples[k], i.statement, com)
                /\ NoteIsOpened(i.created[c])
                /\ RebuiltPacket(i, i.recovery[k]) = PacketFor(i.recovery[k], i.created[c])
  <2> DEFINE w == i.recovery[k]
             found == Opening(i.created, w.id)
  <2>1. w.id = tuples[k].note /\ PublicTuple(tuples, w.id)[1] = tuples[k] BY <1>1, <1>3, EvidenceNote
  <2>2. /\ found # <<>> /\ w.statement = com
        /\ w.note = tuples[k].note /\ w.packet = tuples[k].packet
        /\ w.scope = i.statement.scope /\ w.descriptor.network = i.statement.network
        /\ OwnerCommitment(w.descriptor.key) = found[1].note.owner
        /\ PacketHash(RebuiltPacket(i, w)) = tuples[k].hash
    BY <1>3, <2>1 DEF RecoveryIsGood
  <2>3. RebuiltPacket(i, w) = PacketFor(w, found[1]) BY <2>2 DEF RebuiltPacket, PacketFor
  <2>4. PICK c \in DOMAIN i.created : found[1] = i.created[c] /\ i.created[c].id = w.id
    <3> HIDE DEF w
    <3> QED BY <1>4, <2>2, OpeningFound
  <2> HIDE DEF found, com, tuples
  <2>5. RebuiltPacket(i, w) = PacketFor(w, i.created[c]) BY <2>3, <2>4
  <2>6. EvidenceFor(w, i.created[c], tuples[k], i.statement, com)
    BY <2>1, <2>2, <2>4, <2>5 DEF EvidenceFor
  <2> QED BY <1>2, <2>5, <2>6
<1>6. EvidenceFits(i) BY <1>4, <1>5 DEF EvidenceFits
<1> QED BY <1>3, <1>6

LEMMA RecoveryAlike ==
  ASSUME NEW i, NEW j, EvidenceFits(i), EvidenceFits(j), i.statement = j.statement,
         NEW k \in DOMAIN i.recovery
  PROVE  /\ k \in DOMAIN j.recovery /\ EvidenceOf(i.recovery[k]) = EvidenceOf(j.recovery[k])
         /\ RebuiltPacket(i, i.recovery[k]) = RebuiltPacket(j, j.recovery[k])
<1> DEFINE st == i.statement
           com == StatementCommitment(i.statement)
<1>1. k \in DOMAIN j.recovery BY DEF EvidenceFits
<1>2. PICK c \in DOMAIN i.created :
         /\ EvidenceFor(i.recovery[k], i.created[c], st.created[k], st, com)
         /\ NoteIsOpened(i.created[c])
         /\ RebuiltPacket(i, i.recovery[k]) = PacketFor(i.recovery[k], i.created[c])
  BY DEF EvidenceFits
<1>3. PICK d \in DOMAIN j.created :
         /\ EvidenceFor(j.recovery[k], j.created[d], st.created[k], st, com)
         /\ NoteIsOpened(j.created[d])
         /\ RebuiltPacket(j, j.recovery[k]) = PacketFor(j.recovery[k], j.created[d])
  BY <1>1 DEF EvidenceFits
<1> HIDE DEF st, com
<1>4. /\ EvidenceOf(i.recovery[k]) = EvidenceOf(j.recovery[k])
      /\ PacketFor(i.recovery[k], i.created[c]) = PacketFor(j.recovery[k], j.created[d])
  BY <1>2, <1>3, EvidenceIsFixed
<1> QED BY <1>1, <1>2, <1>3, <1>4

LEMMA RecoveriesAlike ==
  ASSUME NEW i, NEW j, EvidenceFits(i), EvidenceFits(j), i.statement = j.statement,
         TableIsGood(i), TableIsGood(j), i.table.statement = j.table.statement
  PROVE  /\ {EvidenceOf(w) : w \in ToSet(i.recovery)} = {EvidenceOf(w) : w \in ToSet(j.recovery)}
         /\ TableOf(i.table) = TableOf(j.table)
<1>1. DOMAIN i.recovery = DOMAIN j.recovery BY DEF EvidenceFits
<1>2. \A k \in DOMAIN i.recovery :
         /\ EvidenceOf(i.recovery[k]) = EvidenceOf(j.recovery[k])
         /\ RebuiltPacket(i, i.recovery[k]) = RebuiltPacket(j, j.recovery[k])
  BY RecoveryAlike
<1>3. {EvidenceOf(w) : w \in ToSet(i.recovery)} = {EvidenceOf(w) : w \in ToSet(j.recovery)}
  <2>1. /\ {EvidenceOf(w) : w \in ToSet(i.recovery)} = {EvidenceOf(i.recovery[k]) : k \in DOMAIN i.recovery}
        /\ {EvidenceOf(w) : w \in ToSet(j.recovery)} = {EvidenceOf(j.recovery[k]) : k \in DOMAIN j.recovery}
    BY DEF ToSet
  <2> QED BY <1>1, <1>2, <2>1
<1>4. RebuiltPackets(i) = RebuiltPackets(j) BY <1>1, <1>2 DEF RebuiltPackets
<1>5. [k \in DOMAIN i.recovery |-> PacketHash(RebuiltPacket(i, i.recovery[k]))]
        = [k \in DOMAIN j.recovery |-> PacketHash(RebuiltPacket(j, j.recovery[k]))]
  BY <1>1, <1>2
<1>6. /\ i.table.packets = j.table.packets /\ i.table.hashes = j.table.hashes
      /\ i.table.bin = j.table.bin /\ i.table.root = j.table.root
  BY <1>4, <1>5 DEF TableIsGood
<1>7. TableOf(i.table) = TableOf(j.table) BY <1>6 DEF TableOf
<1> QED BY <1>3, <1>7

(***************************************************************************)
(* The whole of the material, and the theorem.                             *)
(***************************************************************************)

LEMMA SourcesOfSound ==
  ASSUME NEW i, Sound(i)
  PROVE  SourcesAre(i.consumedCells, i.statement.inputs)
<1>1. InputParses(i) /\ AllPass(CellChecks(i)) BY DEF Sound, EveryCheckHolds, EarlyChecksHold
<1>2. \A k \in DOMAIN i.consumedCells : ConsumedCellHolds(i, i.consumedCells[k]) BY <1>1, CellStage
<1> QED BY <1>2 DEF SourcesAre, ConsumedCellHolds

LEMMA ProfileOfSound ==
  ASSUME NEW i, NEW j, Sound(i), Sound(j), i.statement = j.statement
  PROVE  i.profile = j.profile /\ i.expected = j.expected
<1>1. StatementParses(i.statement, i.profile) /\ StatementParses(j.statement, j.profile)
  BY DEF Sound, InputParses
<1>2. ProfileId(i.profile) = ProfileId(j.profile)
  BY <1>1 DEF StatementParses, ValidStatement, IdentityHolds
<1>3. i.profile = j.profile BY <1>2 DEF ProfileId, Hash
<1> QED BY <1>3 DEF Sound, EveryCheckHolds

\* Whatever one accepted input says, every other one for the same statement says.
SaysNoMore(i, j) ==
    /\ CoveredBy(i.consumed, j.consumed, WitnessFields) /\ CoveredBy(i.created, j.created, WitnessFields)
    /\ CoveredBy(i.consumedCells, j.consumedCells, ConsumedCellFields)
    /\ CoveredBy(i.createdCells, j.createdCells, CreatedCellFields)
    /\ CoveredBy(i.exits, j.exits, ExitFields)
    /\ CoveredBy(i.authorities, j.authorities, AuthorityFields)
    /\ CoveredBy(i.nullifiers, j.nullifiers, NullifierFields)

LEMMA SoundSaysNoMore ==
  ASSUME NEW i, NEW j, Sound(i), Sound(j), i.statement = j.statement,
         CellsTellApart(i.statement.consumedCells)
  PROVE  SaysNoMore(i, j)
<1> DEFINE st == i.statement
           com == StatementCommitment(i.statement)
<1>1. /\ SideNotes(i.consumed, st.consumed, com) /\ SideNotes(i.created, st.created, com)
      /\ SideNotes(j.consumed, st.consumed, com) /\ SideNotes(j.created, st.created, com)
  BY SideNotesOfSound
<1>2. /\ SideCells(i.consumed, i.consumedCells, st.consumedCells, com)
      /\ SideCells(i.created, i.createdCells, st.createdCells, com)
      /\ SideCells(j.consumed, j.consumedCells, st.consumedCells, com)
      /\ SideCells(j.created, j.createdCells, st.createdCells, com)
  BY SideCellsOfSound
<1>3. SourcesAre(i.consumedCells, st.inputs) /\ SourcesAre(j.consumedCells, st.inputs) BY SourcesOfSound
<1>4. ExitsFit(i.exits, st.createdCells, com) /\ ExitsFit(j.exits, st.createdCells, com) BY ExitsOfSound
<1>5. /\ EachHasMaterial(i.authorities, i.consumed, com) /\ SignaturesFit(i.authorities, com)
      /\ EachHasMaterial(j.authorities, j.consumed, com) /\ SignaturesFit(j.authorities, com)
      /\ EachHasMaterial(i.nullifiers, i.consumed, com) /\ NullifiersFit(i.nullifiers)
      /\ EachHasMaterial(j.nullifiers, j.consumed, com) /\ NullifiersFit(j.nullifiers)
  BY MaterialOfSound
<1> HIDE DEF st, com
<1>6. CoveredBy(i.consumed, j.consumed, WitnessFields) BY <1>1, NotesAlike
<1>7. CoveredBy(i.created, j.created, WitnessFields) BY <1>1, NotesAlike
<1>8. CoveredBy(i.consumedCells, j.consumedCells, ConsumedCellFields)
  BY <1>1, <1>2, <1>3, ConsumedCellsAlike
<1>9. CoveredBy(i.createdCells, j.createdCells, CreatedCellFields) BY <1>1, <1>2, CreatedCellsAlike
<1>10. CoveredBy(i.exits, j.exits, ExitFields) BY <1>4, ExitsAlike
<1>11. CoveredBy(i.authorities, j.authorities, AuthorityFields) BY <1>1, <1>5, AuthoritiesAlike
<1>12. CoveredBy(i.nullifiers, j.nullifiers, NullifierFields) BY <1>1, <1>5, NullifiersAlike
<1> QED BY <1>6, <1>7, <1>8, <1>9, <1>10, <1>11, <1>12 DEF SaysNoMore

\* Two inputs that pass the checks of the relation for the same statement say the same,
\* whoever supplied them, as long as the statement names no consumed cell twice.
THEOREM StatementFixesMaterial ==
  ASSUME NEW i, NEW j, Sound(i), Sound(j), i.statement = j.statement,
         CellsTellApart(i.statement.consumedCells)
  PROVE  SameMaterial(i, j)
<1>1. SaysNoMore(i, j) BY SoundSaysNoMore
<1>2. SaysNoMore(j, i) BY SoundSaysNoMore
<1>3. i.profile = j.profile /\ i.expected = j.expected BY ProfileOfSound
<1>4. /\ EvidenceFits(i) /\ TableIsGood(i) /\ EvidenceFits(j) /\ TableIsGood(j)
      /\ i.table.statement = j.table.statement
  BY EvidenceOfSound
<1>5. /\ {EvidenceOf(w) : w \in ToSet(i.recovery)} = {EvidenceOf(w) : w \in ToSet(j.recovery)}
      /\ TableOf(i.table) = TableOf(j.table)
  BY <1>4, RecoveriesAlike
<1>6. Contents(i.consumed, WitnessFields) = Contents(j.consumed, WitnessFields)
  BY <1>1, <1>2, SameContents DEF SaysNoMore
<1>7. Contents(i.created, WitnessFields) = Contents(j.created, WitnessFields)
  BY <1>1, <1>2, SameContents DEF SaysNoMore
<1>8. Contents(i.consumedCells, ConsumedCellFields) = Contents(j.consumedCells, ConsumedCellFields)
  BY <1>1, <1>2, SameContents DEF SaysNoMore
<1>9. Contents(i.createdCells, CreatedCellFields) = Contents(j.createdCells, CreatedCellFields)
  BY <1>1, <1>2, SameContents DEF SaysNoMore
<1>10. Contents(i.exits, ExitFields) = Contents(j.exits, ExitFields)
  BY <1>1, <1>2, SameContents DEF SaysNoMore
<1>11. Contents(i.authorities, AuthorityFields) = Contents(j.authorities, AuthorityFields)
  BY <1>1, <1>2, SameContents DEF SaysNoMore
<1>12. Contents(i.nullifiers, NullifierFields) = Contents(j.nullifiers, NullifierFields)
  BY <1>1, <1>2, SameContents DEF SaysNoMore
<1> QED BY <1>3, <1>5, <1>6, <1>7, <1>8, <1>9, <1>10, <1>11, <1>12 DEF SameMaterial
=============================================================================
