--------------------------- MODULE CovenantsProofs ---------------------------
(***************************************************************************)
(* What the scripts on chain guarantee for every set of proven statements, *)
(* every chain they start from and every transaction anybody offers: a     *)
(* seal is spent only in a settlement that has a proof, or in a spend its  *)
(* owner has signed whole.                                                 *)
(*                                                                         *)
(* The invariant behind it is about the tokens of the verifier's category: *)
(* the minting one never leaves the factory, and one that is immutable     *)
(* sits at L_verdict and commits to the projection of a proven statement.  *)
(***************************************************************************)
EXTENDS Covenants, ListLemmas

USE DEF VerifierCategory, FactoryLocking, StageZeroLocking, VerdictLocking

\* What the scripts see: lists, words and coins.
IsSpending(spending) ==
    /\ IsList(spending.inputs) /\ IsList(spending.outputs)
    /\ IsWord(spending.version) /\ IsWord(spending.locktime)
    /\ \A i \in DOMAIN spending.inputs :
          IsWord(spending.inputs[i].sequence) /\ IsCoin(spending.inputs[i].coin)
    /\ \A j \in DOMAIN spending.outputs : IsCoin(spending.outputs[j])

CoinsArePlaced == \A o \in DOMAIN coins : IsCoin(coins[o]) /\ TokenIsPlaced(coins[o])

\* A signature answers for the spend it was made for.
SignaturesAnswer ==
    \A signature \in signatures : \E covered :
        signature.digest = SignedDigest(signature.draft, 1, covered, signature.hashType)

(***************************************************************************)
(* Tokens.                                                                 *)
(***************************************************************************)

LEMMA CategoryNamesToken ==
  ASSUME NEW token, IsToken(token)
  PROVE  /\ TokenCategory(token) = <<>> <=> token = None
         /\ TokenCategory(token) = <<VerifierCategory>> <=>
               token # None /\ token.category = VerifierCategory /\ token.capability = "immutable"
         /\ TokenCategory(token) = <<VerifierCategory, 1>> <=>
               token # None /\ token.category = VerifierCategory /\ token.capability = "mutable"
         /\ TokenCategory(token) = <<VerifierCategory, 2>> <=>
               token # None /\ token.category = VerifierCategory /\ token.capability = "minting"
<1>1. CASE token = None BY <1>1 DEF TokenCategory
<1>2. CASE token # None
  <2>1. token.capability \in {"immutable", "mutable", "minting"} BY <1>2 DEF IsToken
  <2>2. CASE token.capability = "immutable"
    <3>1. TokenCategory(token) = <<token.category>> \o <<>> BY <1>2, <2>2 DEF TokenCategory
    <3>2. TokenCategory(token) = <<token.category>> BY <3>1
    <3> QED BY <1>2, <2>2, <3>2
  <2>3. CASE token.capability = "mutable"
    <3>1. TokenCategory(token) = <<token.category>> \o <<1>> BY <1>2, <2>3 DEF TokenCategory
    <3>2. TokenCategory(token) = <<token.category, 1>> BY <3>1, JoinedPair
    <3> QED BY <1>2, <2>3, <3>2
  <2>4. CASE token.capability = "minting"
    <3>1. TokenCategory(token) = <<token.category>> \o <<2>> BY <1>2, <2>4 DEF TokenCategory
    <3>2. TokenCategory(token) = <<token.category, 2>> BY <3>1, JoinedPair
    <3> QED BY <1>2, <2>4, <3>2
  <2> QED BY <2>1, <2>2, <2>3, <2>4
<1> QED BY <1>1, <1>2

(***************************************************************************)
(* The settlement authorization covenant.                                  *)
(***************************************************************************)

\* The list of values of a list.
LEMMA ValuesShape ==
  ASSUME NEW items, IsList(items), \A i \in DOMAIN items : items[i].value \in Nat
  PROVE  /\ Values(items) \in Seq(Int)
         /\ Len(Values(items)) = Len(items)
         /\ \A i \in 1..Len(items) : Values(items)[i] = items[i].value
<1>1. Len(items) \in Nat /\ DOMAIN items = 1..Len(items)
  BY ListShape DEF IsList
<1>2. Values(items) = [i \in 1..Len(items) |-> items[i].value] BY <1>1 DEF Values
<1>3. \A i \in 1..Len(items) : items[i].value \in Int BY <1>1
<1> QED BY <1>1, <1>2, <1>3

\* What the serializer writes, if it does not throw.
LEMMA SerializedShape ==
  ASSUME NEW s \in Proven
  PROVE  /\ SerializedProjection(s).version = s.version
         /\ SerializedProjection(s).locktime = s.locktime
         /\ SerializedProjection(s).inputCount = Len(s.inputs)
         /\ SerializedProjection(s).designated = s.designated
         /\ SerializedProjection(s).inputs = ProjectedInputs(s.inputs, s.designated)
         /\ SerializedProjection(s).outputCount = Len(s.outputs)
         /\ SerializedProjection(s).outputs =
               [j \in DOMAIN s.outputs |->
                   [value |-> s.outputs[j].value,
                    locking |-> Materialized(s.outputs[j], StatementCommitment(s))]]
         /\ SerializedProjection(s).fee = s.fee
         /\ s.inputs # <<>> /\ s.outputs # <<>>
         /\ ~(s.designated >= Len(s.inputs))
         /\ IsWord(s.version) /\ IsWord(s.locktime)
         /\ \A i \in DOMAIN s.inputs : IsWord(s.inputs[i].sequence)
         /\ \A j \in DOMAIN s.outputs : s.outputs[j].token = None
<1>1. SerializedProjection(s) # None BY ProvenAssumption
<1> QED BY <1>1 DEF SerializedProjection

\* Nothing that is not below half of the words fits the bytes of a count.
LEMMA NarrowIsFaithful ==
  ASSUME NEW number \in Nat, NEW count \in Nat, NarrowWord(number) = count
  PROVE  number = count
BY DEF NarrowWord

LEMMA WideIsFaithful ==
  ASSUME NEW number, IsWord(number)
  PROVE  WideWord(number) = number
BY SizesAssumption DEF WideWord, IsWord

\* A transcript that is what a proven statement serializes to was rebuilt from the
\* transaction that the statement projects.
LEMMA TranscriptIsProjection ==
  ASSUME NEW s \in Proven, NEW spending, IsSpending(spending),
         NEW index \in DOMAIN spending.inputs,
         Transcript(spending, index) = SerializedProjection(s),
         \A j \in 1..Min({Len(spending.outputs), OutputSlots}) : spending.outputs[j].token = None
  PROVE  IsSettlementOf(spending, s)
<1> DEFINE n == Len(spending.inputs)
           m == Len(spending.outputs)
           inputs == SubSeq(spending.inputs, 1, Min({n, InputSlots}))
           outputs == SubSeq(spending.outputs, 1, Min({m, OutputSlots}))
           body == [i \in DOMAIN inputs |-> [outpoint |-> inputs[i].outpoint,
                                             sequence |-> WideWord(inputs[i].sequence),
                                             value |-> inputs[i].coin.value]]
           projected == [i \in DOMAIN s.inputs |-> [outpoint |-> s.inputs[i].outpoint,
                                                    sequence |-> s.inputs[i].sequence,
                                                    value |-> s.inputs[i].value]]
           paid == [i \in DOMAIN inputs |-> inputs[i].coin.value]
<1>1. /\ n \in Nat /\ DOMAIN spending.inputs = 1..n
      /\ m \in Nat /\ DOMAIN spending.outputs = 1..m
  BY ListShape DEF IsSpending, IsList
<1>2. /\ Len(s.inputs) \in Nat /\ DOMAIN s.inputs = 1..Len(s.inputs)
      /\ Len(s.outputs) \in Nat /\ DOMAIN s.outputs = 1..Len(s.outputs)
      /\ s.designated \in Nat
      /\ IsList(s.inputs) /\ IsList(s.outputs)
  BY ProvenAssumption, ListShape DEF IsList
<1>3. /\ WideWord(spending.version) = s.version
      /\ WideWord(spending.locktime) = s.locktime
      /\ NarrowWord(n) = Len(s.inputs)
      /\ NarrowWord(index - 1) = s.designated
      /\ (IF index <= Len(inputs) THEN RemoveAt(body, index) ELSE body)
            = ProjectedInputs(s.inputs, s.designated)
      /\ NarrowWord(m) = Len(s.outputs)
      /\ [j \in DOMAIN outputs |-> [value |-> outputs[j].value, locking |-> outputs[j].locking]] =
            [j \in DOMAIN s.outputs |->
                   [value |-> s.outputs[j].value,
                    locking |-> Materialized(s.outputs[j], StatementCommitment(s))]]
      /\ SumSats(paid) - SumSats(Values(outputs)) = s.fee
  <2> DEFINE t == Transcript(spending, index)
             p == SerializedProjection(s)
  <2>1. /\ t.version = WideWord(spending.version) /\ t.locktime = WideWord(spending.locktime)
        /\ t.inputCount = NarrowWord(n) /\ t.designated = NarrowWord(index - 1)
        /\ t.inputs = (IF index <= Len(inputs) THEN RemoveAt(body, index) ELSE body)
        /\ t.outputCount = NarrowWord(m)
        /\ t.outputs = [j \in DOMAIN outputs |->
                           [value |-> outputs[j].value, locking |-> outputs[j].locking]]
        /\ t.fee = SumSats(paid) - SumSats(Values(outputs))
    BY DEF Transcript
  <2>2. t = p OBVIOUS
  <2>3. /\ p.version = s.version /\ p.locktime = s.locktime
        /\ p.inputCount = Len(s.inputs) /\ p.designated = s.designated
        /\ p.inputs = ProjectedInputs(s.inputs, s.designated)
        /\ p.outputCount = Len(s.outputs)
        /\ p.outputs = [j \in DOMAIN s.outputs |->
                           [value |-> s.outputs[j].value,
                            locking |-> Materialized(s.outputs[j], StatementCommitment(s))]]
        /\ p.fee = s.fee
    BY SerializedShape
  <2> HIDE DEF t, p, inputs, outputs, body, paid, n, m
  <2> QED BY <2>1, <2>2, <2>3
<1>4. spending.version = s.version /\ spending.locktime = s.locktime
  BY <1>3, WideIsFaithful DEF IsSpending
<1>5. n = Len(s.inputs) /\ m = Len(s.outputs) /\ index = s.designated + 1
  <2>1. n = Len(s.inputs) BY <1>1, <1>2, <1>3, NarrowIsFaithful
  <2>2. m = Len(s.outputs) BY <1>1, <1>2, <1>3, NarrowIsFaithful
  <2>3. index - 1 \in Nat BY <1>1
  <2>4. index - 1 = s.designated BY <2>3, <1>2, <1>3, NarrowIsFaithful
  <2> QED BY <1>1, <1>2, <2>1, <2>2, <2>4
<1>6. /\ Min({n, InputSlots}) = IF n <= InputSlots THEN n ELSE InputSlots
      /\ Min({m, OutputSlots}) = IF m <= OutputSlots THEN m ELSE OutputSlots
      /\ Min({n, InputSlots}) \in 0..n /\ Min({m, OutputSlots}) \in 0..m
  <2>1. /\ n \in Int /\ m \in Int /\ n >= 0 /\ m >= 0
        /\ InputSlots \in Int /\ OutputSlots \in Int /\ InputSlots >= 0 /\ OutputSlots >= 0
    BY <1>1, SizesAssumption
  <2> HIDE DEF n, m
  <2>2. Min({n, InputSlots}) = IF n <= InputSlots THEN n ELSE InputSlots BY <2>1, MinOfTwo
  <2>3. Min({m, OutputSlots}) = IF m <= OutputSlots THEN m ELSE OutputSlots BY <2>1, MinOfTwo
  <2> QED BY <2>1, <2>2, <2>3
<1>7. /\ IsList(spending.inputs) /\ IsList(spending.outputs)
      /\ \A i \in 1..n : IsWord(spending.inputs[i].sequence) /\ spending.inputs[i].coin.value \in Nat
      /\ \A j \in 1..m : spending.outputs[j].value \in Nat
  BY <1>1 DEF IsSpending, IsCoin
<1>8. /\ Len(inputs) = Min({n, InputSlots}) /\ DOMAIN inputs = 1..Len(inputs)
      /\ \A i \in 1..Len(inputs) : inputs[i] = spending.inputs[i]
      /\ inputs \in Seq(Range(spending.inputs))
  <2> DEFINE k == Min({n, InputSlots})
  <2>1. k \in 0..Len(spending.inputs) BY <1>6
  <2>2. spending.inputs \in Seq(Range(spending.inputs)) BY <1>7 DEF IsList
  <2> HIDE DEF k
  <2>3. /\ Len(SubSeq(spending.inputs, 1, k)) = k /\ DOMAIN SubSeq(spending.inputs, 1, k) = 1..k
        /\ \A i \in 1..k : SubSeq(spending.inputs, 1, k)[i] = spending.inputs[i]
        /\ SubSeq(spending.inputs, 1, k) \in Seq(Range(spending.inputs))
    BY <2>1, <2>2, PrefixShape
  <2> QED BY <2>3 DEF k
<1>9. /\ Len(outputs) = Min({m, OutputSlots}) /\ DOMAIN outputs = 1..Len(outputs)
      /\ \A i \in 1..Len(outputs) : outputs[i] = spending.outputs[i]
      /\ outputs \in Seq(Range(spending.outputs))
  <2> DEFINE k == Min({m, OutputSlots})
  <2>1. k \in 0..Len(spending.outputs) BY <1>6
  <2>2. spending.outputs \in Seq(Range(spending.outputs)) BY <1>7 DEF IsList
  <2> HIDE DEF k
  <2>3. /\ Len(SubSeq(spending.outputs, 1, k)) = k /\ DOMAIN SubSeq(spending.outputs, 1, k) = 1..k
        /\ \A i \in 1..k : SubSeq(spending.outputs, 1, k)[i] = spending.outputs[i]
        /\ SubSeq(spending.outputs, 1, k) \in Seq(Range(spending.outputs))
    BY <2>1, <2>2, PrefixShape
  <2> QED BY <2>3 DEF k
\* The outputs.
<1>10. DOMAIN outputs = DOMAIN s.outputs BY <1>3
<1>11. Len(outputs) = m
  <2>1. 1..Len(outputs) = 1..m BY <1>2, <1>5, <1>9, <1>10
  <2>2. Len(outputs) \in Nat BY <1>6, <1>9
  <2> QED BY <1>1, <2>1, <2>2, IntervalsAlike
<1>12. \A j \in 1..m : /\ spending.outputs[j].value = s.outputs[j].value
                       /\ spending.outputs[j].token = None
                       /\ spending.outputs[j].locking =
                             Materialized(s.outputs[j], StatementCommitment(s))
  <2> SUFFICES ASSUME NEW j \in 1..m
               PROVE  /\ spending.outputs[j].value = s.outputs[j].value
                      /\ spending.outputs[j].token = None
                      /\ spending.outputs[j].locking =
                            Materialized(s.outputs[j], StatementCommitment(s))
    OBVIOUS
  <2>1. j \in DOMAIN outputs /\ j \in DOMAIN s.outputs /\ outputs[j] = spending.outputs[j]
    BY <1>9, <1>10, <1>11
  <2>2. [value |-> outputs[j].value, locking |-> outputs[j].locking] =
           [value |-> s.outputs[j].value,
            locking |-> Materialized(s.outputs[j], StatementCommitment(s))]
    <3> DEFINE l == [k \in DOMAIN outputs |-> [value |-> outputs[k].value, locking |-> outputs[k].locking]]
               r == [k \in DOMAIN s.outputs |->
                        [value |-> s.outputs[k].value,
                         locking |-> Materialized(s.outputs[k], StatementCommitment(s))]]
    <3>1. l = r BY <1>3
    <3>2. l[j] = [value |-> outputs[j].value, locking |-> outputs[j].locking] BY <2>1
    <3>3. r[j] = [value |-> s.outputs[j].value,
                  locking |-> Materialized(s.outputs[j], StatementCommitment(s))] BY <2>1
    <3> QED BY <3>1, <3>2, <3>3
  <2>3. outputs[j].value = s.outputs[j].value
        /\ outputs[j].locking = Materialized(s.outputs[j], StatementCommitment(s))
    BY <2>2
  <2>4. spending.outputs[j].token = None BY <1>9, <1>11
  <2> QED BY <2>1, <2>3, <2>4
<1>14. \A i \in 1..Len(inputs) : i \in 1..n /\ inputs[i] = spending.inputs[i]
  <2> HIDE DEF inputs, n
  <2>1. Len(inputs) \in 0..n BY <1>6, <1>8
  <2> QED BY <1>1, <1>8, <2>1
\* The inputs: the executing one has a slot, or it is the first one beyond them.
<1>15. /\ body = [i \in 1..Len(inputs) |-> [outpoint |-> spending.inputs[i].outpoint,
                                            sequence |-> spending.inputs[i].sequence,
                                            value |-> spending.inputs[i].coin.value]]
       /\ body \in Seq(Range(body)) /\ Len(body) = Len(inputs)
  <2>1. \A i \in 1..Len(inputs) : WideWord(inputs[i].sequence) = spending.inputs[i].sequence
    <3> SUFFICES ASSUME NEW i \in 1..Len(inputs)
                 PROVE  WideWord(inputs[i].sequence) = spending.inputs[i].sequence
      OBVIOUS
    <3>1. i \in 1..n /\ inputs[i] = spending.inputs[i] BY <1>14
    <3> QED BY <3>1, <1>7, WideIsFaithful
  <2>2. body = [i \in 1..Len(inputs) |-> [outpoint |-> spending.inputs[i].outpoint,
                                          sequence |-> spending.inputs[i].sequence,
                                          value |-> spending.inputs[i].coin.value]]
    BY <1>8, <2>1
  <2>3. Len(inputs) \in Nat BY <1>6, <1>8
  <2>4. body = [i \in 1..Len(inputs) |-> body[i]] BY <1>8
  <2> HIDE DEF body
  <2> QED BY <2>2, <2>3, <2>4, FunctionIsList
<1>16. projected \in Seq(Range(projected)) /\ Len(projected) = n
  <2>1. projected = [i \in 1..n |-> projected[i]] BY <1>2, <1>5
  <2> HIDE DEF projected
  <2> QED BY <1>1, <2>1, FunctionIsList
<1>17. (IF index <= Len(inputs) THEN RemoveAt(body, index) ELSE body) = RemoveAt(projected, index)
  BY <1>3, <1>5 DEF ProjectedInputs
<1>18. index \in 1..n /\ Len(inputs) \in 0..n BY <1>1, <1>6, <1>8
<1> DEFINE Alike(i) == /\ spending.inputs[i].outpoint = s.inputs[i].outpoint
                       /\ spending.inputs[i].sequence = s.inputs[i].sequence
                       /\ spending.inputs[i].coin.value = s.inputs[i].value
<1>19. \A i \in 1..n : i <= Len(inputs) /\ body[i] = projected[i] => Alike(i)
  <2> SUFFICES ASSUME NEW i \in 1..n, i <= Len(inputs), body[i] = projected[i]
               PROVE  Alike(i)
    OBVIOUS
  <2>1. i \in 1..Len(inputs)
    <3> HIDE DEF inputs, n
    <3> QED BY <1>1, <1>18
  <2>2. body[i] = [outpoint |-> spending.inputs[i].outpoint,
                   sequence |-> spending.inputs[i].sequence,
                   value |-> spending.inputs[i].coin.value]
    <3> HIDE DEF body, inputs
    <3> QED BY <1>15, <2>1
  <2>3. i \in DOMAIN s.inputs BY <1>2, <1>5
  <2>4. projected[i] = [outpoint |-> s.inputs[i].outpoint,
                        sequence |-> s.inputs[i].sequence,
                        value |-> s.inputs[i].value]
    BY <2>3
  <2>5. [outpoint |-> spending.inputs[i].outpoint,
         sequence |-> spending.inputs[i].sequence,
         value |-> spending.inputs[i].coin.value] =
        [outpoint |-> s.inputs[i].outpoint,
         sequence |-> s.inputs[i].sequence,
         value |-> s.inputs[i].value]
    <3> HIDE DEF body, projected
    <3> QED BY <2>2, <2>4
  <2> QED BY <2>5
<1>20. /\ \A i \in 1..n : i # index => Alike(i)
       /\ index <= Len(inputs) => Len(inputs) = n
  <2> HIDE DEF body, projected, inputs, n, m, Alike
  <2>1. CASE index <= Len(inputs)
    <3>0. index \in 1..Len(body) /\ index \in 1..Len(projected)
      BY <1>1, <1>15, <1>16, <1>18, <2>1
    <3>1. RemoveAt(body, index) = RemoveAt(projected, index) BY <1>17, <2>1
    <3>2. Len(RemoveAt(body, index)) = Len(body) - 1 BY <3>0, <1>15, RemoveAtShape
    <3>3. Len(RemoveAt(projected, index)) = Len(projected) - 1 BY <3>0, <1>16, RemoveAtShape
    <3>4. Len(body) = n BY <3>1, <3>2, <3>3, <1>15, <1>16, <1>1, <1>18
    <3>5. \A i \in 1..Len(body) : i # index => body[i] = projected[i]
      <4>1. body \in Seq(Range(body)) /\ projected \in Seq(Range(projected)) BY <1>15, <1>16
      <4>2. Len(body) = Len(projected) BY <3>4, <1>16
      <4> QED BY <4>1, <4>2, <3>0, <3>1, RemovedAlike
    <3>6. Len(inputs) = n BY <3>4, <1>15
    <3>7. \A i \in 1..n : i <= n BY <1>1
    <3>8. \A i \in 1..n : i # index => Alike(i)
      <4> SUFFICES ASSUME NEW i \in 1..n, i # index PROVE Alike(i) OBVIOUS
      <4>1. i <= Len(inputs) BY <3>6, <3>7
      <4>2. body[i] = projected[i] BY <3>4, <3>5
      <4> QED BY <4>1, <4>2, <1>19
    <3> QED BY <3>6, <3>8
  <2>2. CASE ~(index <= Len(inputs))
    <3>1. body = RemoveAt(projected, index) BY <1>17, <2>2
    <3>2. index \in 1..Len(projected) BY <1>16, <1>18
    <3> DEFINE rest == RemoveAt(projected, index)
    <3>6. /\ Len(rest) = Len(projected) - 1
          /\ \A k \in 1..(Len(projected) - 1) :
                rest[k] = IF k < index THEN projected[k] ELSE projected[k + 1]
      BY <3>2, <1>16, RemoveAtShape
    <3> HIDE DEF rest
    <3>7. Len(body) = n - 1 BY <3>1, <3>6, <1>16 DEF rest
    <3>3. /\ Len(body) = n - 1
          /\ \A k \in 1..(n - 1) : body[k] = IF k < index THEN projected[k] ELSE projected[k + 1]
      BY <3>1, <3>6, <3>7, <1>16 DEF rest
    <3>4. index = n BY <3>3, <2>2, <1>1, <1>15, <1>18
    <3>5. \A i \in 1..n : i # index => i <= Len(inputs) /\ body[i] = projected[i]
      <4> SUFFICES ASSUME NEW i \in 1..n, i # index
                   PROVE  i <= Len(inputs) /\ body[i] = projected[i]
        OBVIOUS
      <4>1. n \in Int /\ i \in Int /\ 1 <= i /\ i <= n /\ i # n BY <1>1, <3>4
      <4>2. i < index /\ i \in 1..(n - 1) BY <3>4, <4>1
      <4>3. i <= n - 1 BY <4>1
      <4>4. Len(inputs) = n - 1 BY <3>3, <1>15
      <4> QED BY <3>3, <4>2, <4>3, <4>4
    <3> QED BY <3>5, <1>19, <2>2
  <2> QED BY <2>1, <2>2
<1>21. index <= InputSlots => spending.inputs[index].coin.value = s.inputs[index].value
  <2> SUFFICES ASSUME index <= InputSlots
               PROVE  spending.inputs[index].coin.value = s.inputs[index].value
    OBVIOUS
  <2>1. Len(inputs) = n
    <3> HIDE DEF inputs, n
    <3>1. InputSlots \in Nat BY SizesAssumption
    <3> QED BY <3>1, <1>1, <1>6, <1>8, <1>18, <1>20
  <2>2. /\ Values(s.inputs) \in Seq(Int) /\ Len(Values(s.inputs)) = n
        /\ \A i \in 1..n : Values(s.inputs)[i] = s.inputs[i].value
    BY <1>2, <1>5, ProvenAssumption, ValuesShape
  <2>3. /\ Values(s.outputs) \in Seq(Int) /\ Len(Values(s.outputs)) = m
        /\ \A j \in 1..m : Values(s.outputs)[j] = s.outputs[j].value
    BY <1>2, <1>5, ProvenAssumption, ValuesShape
  <2>4. paid \in Seq(Int) /\ Len(paid) = n
        /\ \A i \in 1..n : paid[i] = spending.inputs[i].coin.value
    <3>1. paid = [i \in 1..n |-> spending.inputs[i].coin.value]
      <4> HIDE DEF inputs
      <4> QED BY <1>8, <2>1
    <3>2. \A i \in 1..n : spending.inputs[i].coin.value \in Int BY <1>7
    <3> HIDE DEF paid, n
    <3> QED BY <1>1, <3>1, <3>2
  <2>5. Values(outputs) = Values(s.outputs)
    <3>1. Values(outputs) = [j \in 1..m |-> outputs[j].value] BY <1>9, <1>11 DEF Values
    <3>2. Values(s.outputs) = [j \in 1..m |-> s.outputs[j].value] BY <1>2, <1>5 DEF Values
    <3>3. \A j \in 1..m : outputs[j].value = s.outputs[j].value BY <1>9, <1>11, <1>12
    <3> HIDE DEF outputs, m
    <3> QED BY <3>1, <3>2, <3>3
  <2>6. TotalOf(paid) = TotalOf(Values(s.inputs))
    <3>1. TotalOf(paid) - TotalOf(Values(outputs)) = s.fee BY <1>3 DEF SumSats
    <3>2. s.fee = TotalOf(Values(s.inputs)) - TotalOf(Values(s.outputs))
      BY ProvenAssumption DEF SumSats
    <3>3. TotalOf(paid) \in Int BY <2>4, TotalOfType
    <3>4. TotalOf(Values(s.inputs)) \in Int BY <2>2, TotalOfType
    <3>5. TotalOf(Values(s.outputs)) \in Int BY <2>3, TotalOfType
    <3> HIDE DEF paid, outputs
    <3> QED BY <3>1, <3>2, <3>3, <3>4, <3>5, <2>5
  <2>7. \A i \in 1..n : i # index => paid[i] = Values(s.inputs)[i]
    BY <2>2, <2>4, <1>20
  <2>8. TotalOf(paid) - TotalOf(Values(s.inputs)) = paid[index] - Values(s.inputs)[index]
    <3> HIDE DEF paid, n
    <3> DEFINE values == Values(s.inputs)
    <3>1. /\ paid \in Seq(Int) /\ values \in Seq(Int) /\ Len(paid) = Len(values)
          /\ index \in 1..Len(paid) /\ \A i \in 1..Len(paid) : i # index => paid[i] = values[i]
      BY <1>18, <2>2, <2>4, <2>7
    <3> HIDE DEF values
    <3>2. TotalOf(paid) - TotalOf(values) = paid[index] - values[index]
      BY <3>1, TotalsDifferAtOne
    <3> QED BY <3>2 DEF values
  <2>9. paid[index] \in Int /\ Values(s.inputs)[index] \in Int
    <3>1. index \in 1..n BY <1>18
    <3>2. Len(paid) = n /\ Len(Values(s.inputs)) = n BY <2>2, <2>4
    <3> HIDE DEF paid, n
    <3> QED BY <3>1, <3>2, <2>2, <2>4
  <2>10. TotalOf(paid) \in Int BY <2>4, TotalOfType
  <2>11. paid[index] = Values(s.inputs)[index]
    <3> HIDE DEF paid
    <3> QED BY <2>6, <2>8, <2>9, <2>10
  <2> QED BY <1>18, <2>2, <2>4, <2>11
<1>22. \A i \in DOMAIN s.inputs :
          /\ \/ spending.inputs[i].coin.value = s.inputs[i].value
             \/ i = s.designated + 1 /\ i > InputSlots
          /\ \/ i = s.designated + 1
             \/ /\ spending.inputs[i].outpoint = s.inputs[i].outpoint
                /\ spending.inputs[i].sequence = s.inputs[i].sequence
  <2> SUFFICES ASSUME NEW i \in 1..n
               PROVE  /\ \/ spending.inputs[i].coin.value = s.inputs[i].value
                         \/ i = s.designated + 1 /\ i > InputSlots
                      /\ \/ i = s.designated + 1
                         \/ /\ spending.inputs[i].outpoint = s.inputs[i].outpoint
                            /\ spending.inputs[i].sequence = s.inputs[i].sequence
    BY <1>2, <1>5
  <2>1. CASE i = index
    <3>1. InputSlots \in Nat /\ i \in Nat BY SizesAssumption
    <3> QED BY <1>5, <1>21, <2>1, <3>1
  <2>2. CASE i # index BY <1>20, <2>2
  <2> QED BY <2>1, <2>2
<1> QED BY <1>2, <1>4, <1>5, <1>12, <1>22 DEF IsSettlementOf

\* A verdict of the verifier's category is spent only in the settlement of the proven
\* statement it commits to, and so only to outputs without tokens.
LEMMA VerdictSettles ==
  ASSUME NEW spending, IsSpending(spending), NEW index \in DOMAIN spending.inputs,
         TokenIsPlaced(spending.inputs[index].coin),
         TokenCategory(spending.inputs[index].coin.token) = <<VerifierCategory>>,
         SettlementAuthorized(spending, index)
  PROVE  /\ \E s \in Proven : IsSettlementOf(spending, s)
         /\ \A j \in DOMAIN spending.outputs : spending.outputs[j].token = None
<1> DEFINE token == spending.inputs[index].coin.token
<1>1. IsToken(token) BY DEF IsSpending, IsCoin
<1>2. token # None /\ token.category = VerifierCategory /\ token.capability = "immutable"
  BY <1>1, CategoryNamesToken
<1>3. PICK s \in Proven : token.commitment = ProjectionCommitment(s)
  BY <1>2 DEF TokenIsPlaced
<1>4. Transcript(spending, index) = SerializedProjection(s)
  BY <1>3 DEF SettlementAuthorized, ProjectionCommitment, Digest
<1>5. Len(spending.outputs) \in Nat /\ DOMAIN spending.outputs = 1..Len(spending.outputs)
  BY ListShape DEF IsSpending, IsList
<1>6. \A j \in 1..Min({Len(spending.outputs), OutputSlots}) : spending.outputs[j].token = None
  <2> SUFFICES ASSUME NEW j \in 1..Min({Len(spending.outputs), OutputSlots})
               PROVE  spending.outputs[j].token = None
    OBVIOUS
  <2>1. TokenCategory(spending.outputs[j].token) = <<>> BY DEF SettlementAuthorized
  <2>2. j \in DOMAIN spending.outputs
    <3>1. Min({Len(spending.outputs), OutputSlots}) =
             IF Len(spending.outputs) <= OutputSlots THEN Len(spending.outputs) ELSE OutputSlots
      BY <1>5, SizesAssumption, MinOfTwo
    <3>2. OutputSlots \in Nat BY SizesAssumption
    <3> QED BY <1>5, <3>1, <3>2
  <2>3. IsToken(spending.outputs[j].token) BY <2>2 DEF IsSpending, IsCoin
  <2> QED BY <2>1, <2>3, CategoryNamesToken
<1>7. IsSettlementOf(spending, s) BY <1>4, <1>6, TranscriptIsProjection
<1>8. \A j \in DOMAIN spending.outputs : spending.outputs[j].token = None
  <2>1. Len(s.outputs) \in Nat /\ DOMAIN s.outputs = 1..Len(s.outputs)
    BY ProvenAssumption, ListShape DEF IsList
  <2>2. DOMAIN spending.outputs = DOMAIN s.outputs BY <1>5, <1>7, <2>1 DEF IsSettlementOf
  <2> QED BY <1>7, <2>2 DEF IsSettlementOf
<1> QED BY <1>7, <1>8

(***************************************************************************)
(* One transaction.                                                        *)
(***************************************************************************)

\* What the scripts see of a transaction that is accepted.
LEMMA AcceptedIsSpending ==
  ASSUME CoinsArePlaced, NEW tx, IsAccepted(tx)
  PROVE  /\ IsSpending(Spending(tx))
         /\ DOMAIN Spending(tx).inputs = DOMAIN tx.inputs
         /\ Spending(tx).outputs = tx.outputs
         /\ \A i \in DOMAIN tx.inputs :
               /\ TokenIsPlaced(Spending(tx).inputs[i].coin)
               /\ ScriptAllows(Spending(tx), i)
<1> DEFINE spending == Spending(tx)
<1>1. /\ DOMAIN spending.inputs = DOMAIN tx.inputs
      /\ spending.outputs = tx.outputs
      /\ spending.version = tx.version /\ spending.locktime = tx.locktime
      /\ \A i \in DOMAIN tx.inputs :
            /\ spending.inputs[i].sequence = tx.inputs[i].sequence
            /\ spending.inputs[i].coin = coins[tx.inputs[i].outpoint]
      /\ spending.inputs = [i \in DOMAIN tx.inputs |-> spending.inputs[i]]
  BY DEF Spending
<1>2. IsTransaction(tx) /\ \A i \in DOMAIN tx.inputs : tx.inputs[i].outpoint \in DOMAIN coins
  BY DEF IsAccepted
<1>3. \A i \in DOMAIN tx.inputs : IsCoin(spending.inputs[i].coin) /\ TokenIsPlaced(spending.inputs[i].coin)
  BY <1>1, <1>2 DEF CoinsArePlaced
<1>4. IsList(spending.inputs)
  <2>1. Len(tx.inputs) \in Nat /\ DOMAIN tx.inputs = 1..Len(tx.inputs)
    BY <1>2, ListShape DEF IsTransaction, IsList
  <2>2. spending.inputs = [i \in 1..Len(tx.inputs) |-> spending.inputs[i]] BY <1>1, <2>1
  <2> HIDE DEF spending
  <2> QED BY <2>1, <2>2, FunctionIsList DEF IsList
<1>5. IsSpending(spending) BY <1>1, <1>2, <1>3, <1>4 DEF IsSpending, IsTransaction
<1>6. \A i \in DOMAIN tx.inputs : ScriptAllows(spending, i) BY DEF IsAccepted
<1> QED BY <1>1, <1>3, <1>5, <1>6

\* A token of the verifier's category among the outputs is where a run keeps it.
LEMMA OutputsArePlaced ==
  ASSUME CoinsArePlaced, NEW tx, IsAccepted(tx), NEW j \in DOMAIN tx.outputs
  PROVE  IsCoin(tx.outputs[j]) /\ TokenIsPlaced(tx.outputs[j])
<1> DEFINE spending == Spending(tx)
           out == tx.outputs[j]
<1>1. IsSpending(spending) /\ DOMAIN spending.inputs = DOMAIN tx.inputs
      /\ spending.outputs = tx.outputs
  BY AcceptedIsSpending
<1>2. IsCoin(out) BY <1>1 DEF IsSpending
<1>3. SUFFICES ASSUME out.token # None, out.token.category = VerifierCategory
               PROVE  TokenIsPlaced(out)
  BY <1>2 DEF TokenIsPlaced
<1>4. \E i \in DOMAIN tx.inputs :
         LET token == spending.inputs[i].coin.token
         IN  token # None /\ token.category = VerifierCategory
  <2>1. TokensConserved(spending) BY DEF IsAccepted
  <2> DEFINE given == {i \in DOMAIN spending.inputs : spending.inputs[i].coin.token # None}
             minted(token) == \E i \in given :
                                 /\ spending.inputs[i].coin.token.category = token.category
                                 /\ spending.inputs[i].coin.token.capability = "minting"
             moved == {k \in DOMAIN spending.outputs :
                         /\ spending.outputs[k].token # None
                         /\ ~minted(spending.outputs[k].token)}
  <2>2. PICK from \in Injection(moved, given) :
           \A k \in moved : ComesFrom(spending.outputs[k].token, spending.inputs[from[k]].coin.token)
    BY <2>1 DEF TokensConserved
  <2>3. CASE minted(out.token) BY <1>1, <1>3, <2>3
  <2>4. CASE ~minted(out.token)
    <3>1. j \in moved BY <1>1, <1>3, <2>4
    <3>2. from[j] \in given BY <2>2, <3>1 DEF Injection
    <3>3. out.token.category = spending.inputs[from[j]].coin.token.category
      BY <1>1, <2>2, <3>1 DEF ComesFrom
    <3> QED BY <1>1, <1>3, <3>2, <3>3
  <2> QED BY <2>3, <2>4
<1>5. PICK i \in DOMAIN tx.inputs :
         /\ spending.inputs[i].coin.token # None
         /\ spending.inputs[i].coin.token.category = VerifierCategory
  BY <1>4
<1> DEFINE coin == spending.inputs[i].coin
<1>6. TokenIsPlaced(coin) /\ ScriptAllows(spending, i) /\ IsToken(coin.token)
  BY <1>1, AcceptedIsSpending DEF IsSpending, IsCoin
<1>7. IsToken(out.token) BY <1>2 DEF IsCoin
<1> HIDE DEF spending
<1>8. CASE coin.token.capability = "minting" /\ coin.locking = FactoryLocking
  <2>1. FactoryAllows(spending, i) BY <1>6, <1>8 DEF ScriptAllows
  <2>2. j \in 1..3 BY <1>1, <2>1, ListShape DEF FactoryAllows, IsSpending, IsList
  <2>3. CASE j = 1 BY <1>1, <1>3, <1>7, <1>8, <2>1, <2>3, CategoryNamesToken DEF FactoryAllows, TokenIsPlaced
  <2>4. CASE j = 2 BY <1>1, <1>3, <1>7, <2>1, <2>4, CategoryNamesToken DEF FactoryAllows, TokenIsPlaced
  <2>5. CASE j = 3 BY <1>1, <1>3, <1>7, <2>1, <2>5, CategoryNamesToken DEF FactoryAllows
  <2> QED BY <2>2, <2>3, <2>4, <2>5
<1>9. CASE coin.token.capability = "mutable" /\ coin.locking = StageZeroLocking
  <2>1. StagesAllow(spending) BY <1>6, <1>9 DEF ScriptAllows
  <2>2. /\ TokenCategory(out.token) = <<VerifierCategory>>
        /\ out.locking = VerdictLocking
        /\ out.token.commitment \in {ProjectionCommitment(s) : s \in Proven}
    BY <1>1, <1>3, <2>1 DEF StagesAllow
  <2> QED BY <1>7, <2>2, CategoryNamesToken DEF TokenIsPlaced
<1>10. CASE coin.token.capability = "immutable" /\ coin.locking = VerdictLocking
  <2>1. SettlementAuthorized(spending, i) BY <1>6, <1>10 DEF ScriptAllows
  <2>2. TokenCategory(coin.token) = <<VerifierCategory>> BY <1>5, <1>6, <1>10, CategoryNamesToken
  <2>3. \A k \in DOMAIN spending.outputs : spending.outputs[k].token = None
    BY <1>1, <1>6, <2>1, <2>2, VerdictSettles
  <2> QED BY <1>1, <1>3, <2>3
<1> QED BY <1>5, <1>6, <1>8, <1>9, <1>10 DEF TokenIsPlaced

(***************************************************************************)
(* The invariant.                                                          *)
(***************************************************************************)

\* Why a spending that was confirmed spends a seal.
SealIsSpentAsAuthorized(spending, i) ==
    spending.inputs[i].coin.locking.kind = "seal" =>
        IF spending.inputs[i].unlocking.selector = AggregateSelector
        THEN \E statement \in Proven : IsSettlementOf(spending, statement)
        ELSE IsSignedExit(spending, i)

\* A seal that an accepted transaction spends by its aggregate branch is next to a
\* verdict; one spent by the exit branch, under a signature for the whole transaction.
LEMMA AcceptedIsAuthorized ==
  ASSUME CoinsArePlaced, SignaturesAnswer, NEW tx, IsAccepted(tx), NEW i \in DOMAIN tx.inputs
  PROVE  SealIsSpentAsAuthorized(Spending(tx), i)
<1> DEFINE spending == Spending(tx)
           unlocking == spending.inputs[i].unlocking
<1>1. /\ IsSpending(spending) /\ DOMAIN spending.inputs = DOMAIN tx.inputs
      /\ \A k \in DOMAIN tx.inputs :
            TokenIsPlaced(spending.inputs[k].coin) /\ ScriptAllows(spending, k)
  BY AcceptedIsSpending
<1> HIDE DEF spending
<1> SUFFICES ASSUME spending.inputs[i].coin.locking.kind = "seal"
             PROVE  IF unlocking.selector = AggregateSelector
                    THEN \E statement \in Proven : IsSettlementOf(spending, statement)
                    ELSE IsSignedExit(spending, i)
  BY DEF SealIsSpentAsAuthorized, spending
<1>2. SealAllows(spending, i) BY <1>1 DEF ScriptAllows
<1>3. CASE unlocking.selector = AggregateSelector
  <2> DEFINE verifier == unlocking.index + 1
  <2>1. AggregateAllows(spending, unlocking) BY <1>2, <1>3 DEF SealAllows
  <2>2. /\ verifier \in DOMAIN spending.inputs
        /\ TokenCategory(spending.inputs[verifier].coin.token) = <<VerifierCategory>>
        /\ spending.inputs[verifier].coin.locking = VerdictLocking
    BY <2>1 DEF AggregateAllows
  <2> HIDE DEF verifier
  <2>3. SettlementAuthorized(spending, verifier) BY <1>1, <2>2 DEF ScriptAllows
  <2> QED BY <1>1, <1>3, <2>2, <2>3, VerdictSettles
<1>4. CASE unlocking.selector # AggregateSelector
  <2> DEFINE seal == spending.inputs[i].coin.locking
             signature == unlocking.signature
  <2>1. ExitAllows(spending, i, unlocking) BY <1>2, <1>4 DEF SealAllows
  <2>2. /\ signature \in signatures /\ signature.hashType = "ALL"
        /\ ExitKeyHash(signature.key) = seal.exitKeyHash
        /\ signature.digest = SignedDigest(spending, i, seal, signature.hashType)
    BY <2>1 DEF ExitAllows
  <2>3. PICK covered :
           signature.digest = SignedDigest(signature.draft, 1, covered, signature.hashType)
    BY <2>2 DEF SignaturesAnswer
  <2>4. /\ signature.draft.outputs = spending.outputs
        /\ signature.draft.locktime = spending.locktime
        /\ [k \in DOMAIN signature.draft.inputs |-> signature.draft.inputs[k].outpoint] =
               [k \in DOMAIN spending.inputs |-> spending.inputs[k].outpoint]
    <3> DEFINE a == SignedDigest(spending, i, seal, signature.hashType).content
               b == SignedDigest(signature.draft, 1, covered, signature.hashType).content
    <3>1. a = b BY <2>2, <2>3
    <3>2. /\ a.locktime = spending.locktime /\ a.outputs = spending.outputs
          /\ a.prevouts = [k \in DOMAIN spending.inputs |-> spending.inputs[k].outpoint]
      BY <2>2 DEF SignedDigest, Digest
    <3>3. /\ b.locktime = signature.draft.locktime /\ b.outputs = signature.draft.outputs
          /\ b.prevouts = [k \in DOMAIN signature.draft.inputs |-> signature.draft.inputs[k].outpoint]
      BY <2>2 DEF SignedDigest, Digest
    <3> HIDE DEF a, b
    <3> QED BY <3>1, <3>2, <3>3
  <2>5. IsSignedExit(spending, i) BY <2>2, <2>4 DEF IsSignedExit
  <2> QED BY <1>4, <2>5
<1> QED BY <1>3, <1>4

\* The inductive invariant.
CovenantInv ==
    /\ CoinsArePlaced
    /\ SignaturesAnswer
    /\ IsList(confirmed)
    /\ \A n \in DOMAIN confirmed : \A i \in DOMAIN confirmed[n].inputs :
          SealIsSpentAsAuthorized(confirmed[n], i)

LEMMA SignExitKeepsInv ==
  ASSUME CovenantInv, NEW draft, SignExit(draft)
  PROVE  CovenantInv'
<1>1. coins' = coins /\ confirmed' = confirmed /\ signatures \subseteq signatures'
  BY DEF SignExit
<1>2. CoinsArePlaced' BY <1>1 DEF CovenantInv, CoinsArePlaced
<1>3. SignaturesAnswer' BY DEF CovenantInv, SignaturesAnswer, SignExit
<1>4. ASSUME NEW n \in DOMAIN confirmed, NEW i \in DOMAIN confirmed[n].inputs
      PROVE  SealIsSpentAsAuthorized(confirmed[n], i)'
  <2>1. SealIsSpentAsAuthorized(confirmed[n], i) BY DEF CovenantInv
  <2>2. IsSignedExit(confirmed[n], i) => IsSignedExit(confirmed[n], i)'
    BY <1>1 DEF IsSignedExit
  <2> QED BY <1>1, <2>1, <2>2 DEF SealIsSpentAsAuthorized
<1> QED BY <1>1, <1>2, <1>3, <1>4 DEF CovenantInv

LEMMA ConfirmKeepsInv ==
  ASSUME CovenantInv, NEW tx, Confirm(tx)
  PROVE  CovenantInv'
<1>1. IsAccepted(tx) /\ signatures' = signatures /\ confirmed' = Append(confirmed, Spending(tx))
  BY DEF Confirm
<1>2. CoinsArePlaced'
  <2> SUFFICES ASSUME NEW o \in DOMAIN coins'
               PROVE  IsCoin(coins'[o]) /\ TokenIsPlaced(coins'[o])
    BY DEF CoinsArePlaced
  <2> DEFINE created == {<<Len(confirmed) + 1, j>> : j \in DOMAIN tx.outputs}
             spent == {tx.inputs[i].outpoint : i \in DOMAIN tx.inputs}
  <2>1. coins' = [p \in (DOMAIN coins \ spent) \cup created |->
                     IF p \in created THEN tx.outputs[p[2]] ELSE coins[p]]
    BY DEF Confirm
  <2>2. CASE o \in created
    <3>1. PICK j \in DOMAIN tx.outputs : o = <<Len(confirmed) + 1, j>> BY <2>2
    <3>2. coins'[o] = tx.outputs[j] BY <2>1, <2>2, <3>1
    <3> QED BY <1>1, <3>2, OutputsArePlaced DEF CovenantInv
  <2>3. CASE o \notin created BY <2>1, <2>3 DEF CovenantInv, CoinsArePlaced
  <2> QED BY <2>2, <2>3
<1>3. SignaturesAnswer' BY <1>1 DEF CovenantInv, SignaturesAnswer
<1>4. IsList(confirmed')
  BY <1>1, AppendedList DEF CovenantInv, IsList
<1>5. ASSUME NEW n \in DOMAIN confirmed', NEW i \in DOMAIN confirmed'[n].inputs
      PROVE  SealIsSpentAsAuthorized(confirmed[n], i)'
  <2>1. \A spending, k : SealIsSpentAsAuthorized(spending, k) <=> SealIsSpentAsAuthorized(spending, k)'
    BY <1>1 DEF SealIsSpentAsAuthorized, IsSignedExit
  <2>2. CASE n \in DOMAIN confirmed
    <3>1. confirmed'[n] = confirmed[n] BY <1>1, <2>2, AppendedList DEF CovenantInv, IsList
    <3> QED BY <2>1, <2>2, <3>1 DEF CovenantInv
  <2>3. CASE n \notin DOMAIN confirmed
    <3>1. confirmed'[n] = Spending(tx) BY <1>1, <2>3, AppendedList DEF CovenantInv, IsList
    <3>2. i \in DOMAIN tx.inputs BY <3>1 DEF Spending
    <3>3. SealIsSpentAsAuthorized(Spending(tx), i)
      BY <1>1, <3>2, AcceptedIsAuthorized DEF CovenantInv
    <3> QED BY <2>1, <3>1, <3>3
  <2> QED BY <2>2, <2>3
<1> QED BY <1>2, <1>3, <1>4, <1>5 DEF CovenantInv

LEMMA CovenantInvHolds == CovenantSpec => []CovenantInv
<1>1. CovenantInit => CovenantInv
  <2> SUFFICES ASSUME CovenantInit PROVE CovenantInv OBVIOUS
  <2>1. CoinsArePlaced BY GenesisAssumption DEF CovenantInit, CoinsArePlaced
  <2>2. SignaturesAnswer BY DEF CovenantInit, SignaturesAnswer
  <2>3. confirmed = <<>> /\ IsList(confirmed) BY DEF CovenantInit, IsList
  <2> QED BY <2>1, <2>2, <2>3 DEF CovenantInv
<1>2. CovenantInv /\ [CovenantNext]_covenantVars => CovenantInv'
  <2> SUFFICES ASSUME CovenantInv, [CovenantNext]_covenantVars PROVE CovenantInv' OBVIOUS
  <2>1. CASE CovenantNext BY <2>1, SignExitKeepsInv, ConfirmKeepsInv DEF CovenantNext
  <2>2. CASE UNCHANGED covenantVars
    BY <2>2 DEF covenantVars, CovenantInv, CoinsArePlaced, SignaturesAnswer,
                SealIsSpentAsAuthorized, IsSignedExit
  <2> QED BY <2>1, <2>2
<1> QED BY <1>1, <1>2, PTL DEF CovenantSpec

\* Whoever offers transactions, whatever tokens they make and whichever index a seal is
\* shown: a seal is spent by its aggregate branch only in the transaction that a proven
\* statement projects, and by its exit branch only in one its owner signed whole.
THEOREM SealsAreSpentAsAuthorizedHolds == CovenantSpec => []SealsAreSpentAsAuthorized
<1>1. CovenantInv => SealsAreSpentAsAuthorized
  BY DEF CovenantInv, SealsAreSpentAsAuthorized, SealIsSpentAsAuthorized
<1> QED BY <1>1, CovenantInvHolds, PTL

(***************************************************************************)
(* What the builders make is accepted.                                     *)
(***************************************************************************)

LEMMA NoTokensAreConserved ==
  ASSUME NEW spending, \A j \in DOMAIN spending.outputs : spending.outputs[j].token = None
  PROVE  TokensConserved(spending)
<1> DEFINE given == {i \in DOMAIN spending.inputs : spending.inputs[i].coin.token # None}
           minted(token) == \E i \in given :
                               /\ spending.inputs[i].coin.token.category = token.category
                               /\ spending.inputs[i].coin.token.capability = "minting"
           moved == {j \in DOMAIN spending.outputs :
                       /\ spending.outputs[j].token # None
                       /\ ~minted(spending.outputs[j].token)}
           from == [j \in {} |-> j]
<1>1. moved = {} OBVIOUS
<1>2. from \in Injection({}, given) BY DEF Injection, IsInjective
<1>3. from \in Injection(moved, given)
        /\ \A j \in moved : ComesFrom(spending.outputs[j].token, spending.inputs[from[j]].coin.token)
  BY <1>1, <1>2
<1> QED BY <1>3 DEF TokensConserved

\* What the scripts see of the settlement of a statement.
LEMMA SettlementShape ==
  ASSUME NEW s \in Proven, NEW verdict
  PROVE  LET tx == Settlement(s, verdict)
             spending == Spending(tx)
         IN  /\ tx.version = s.version /\ tx.locktime = s.locktime
             /\ tx.inputs \in Seq(Range(tx.inputs)) /\ tx.outputs \in Seq(Range(tx.outputs))
             /\ DOMAIN tx.inputs = DOMAIN s.inputs /\ DOMAIN tx.outputs = DOMAIN s.outputs
             /\ Len(tx.inputs) = Len(s.inputs) /\ Len(tx.outputs) = Len(s.outputs)
             /\ \A i \in DOMAIN s.inputs :
                   /\ tx.inputs[i].sequence = s.inputs[i].sequence
                   /\ i = s.designated + 1 => tx.inputs[i].outpoint = verdict
                   /\ i # s.designated + 1 =>
                         /\ tx.inputs[i].outpoint = s.inputs[i].outpoint
                         /\ tx.inputs[i].unlocking = AggregateUnlocking(s.designated)
             /\ \A j \in DOMAIN s.outputs :
                   /\ tx.outputs[j].value = s.outputs[j].value
                   /\ tx.outputs[j].token = None
                   /\ tx.outputs[j].locking = Materialized(s.outputs[j], StatementCommitment(s))
             /\ spending.version = s.version /\ spending.locktime = s.locktime
             /\ spending.inputs \in Seq(Range(spending.inputs))
             /\ DOMAIN spending.inputs = DOMAIN s.inputs /\ Len(spending.inputs) = Len(s.inputs)
             /\ spending.outputs = tx.outputs
             /\ \A i \in DOMAIN s.inputs :
                   /\ spending.inputs[i].outpoint = tx.inputs[i].outpoint
                   /\ spending.inputs[i].sequence = tx.inputs[i].sequence
                   /\ spending.inputs[i].unlocking = tx.inputs[i].unlocking
                   /\ spending.inputs[i].coin = coins[tx.inputs[i].outpoint]
<1> DEFINE tx == Settlement(s, verdict)
           spending == Spending(tx)
<1>1. /\ Len(s.inputs) \in Nat /\ DOMAIN s.inputs = 1..Len(s.inputs)
      /\ Len(s.outputs) \in Nat /\ DOMAIN s.outputs = 1..Len(s.outputs)
  BY ProvenAssumption, ListShape DEF IsList
<1>2. /\ tx.version = s.version /\ tx.locktime = s.locktime
      /\ tx.inputs = [i \in 1..Len(s.inputs) |-> tx.inputs[i]]
      /\ tx.outputs = [j \in 1..Len(s.outputs) |-> tx.outputs[j]]
      /\ \A i \in DOMAIN s.inputs :
            /\ tx.inputs[i].sequence = s.inputs[i].sequence
            /\ i = s.designated + 1 => tx.inputs[i].outpoint = verdict
            /\ i # s.designated + 1 =>
                  /\ tx.inputs[i].outpoint = s.inputs[i].outpoint
                  /\ tx.inputs[i].unlocking = AggregateUnlocking(s.designated)
      /\ \A j \in DOMAIN s.outputs :
            /\ tx.outputs[j].value = s.outputs[j].value
            /\ tx.outputs[j].token = None
            /\ tx.outputs[j].locking = Materialized(s.outputs[j], StatementCommitment(s))
  BY <1>1 DEF Settlement
<1> HIDE DEF tx
<1>3. /\ tx.inputs \in Seq(Range(tx.inputs)) /\ DOMAIN tx.inputs = 1..Len(s.inputs)
      /\ Len(tx.inputs) = Len(s.inputs)
  BY <1>1, <1>2, FunctionIsList
<1>4. /\ tx.outputs \in Seq(Range(tx.outputs)) /\ DOMAIN tx.outputs = 1..Len(s.outputs)
      /\ Len(tx.outputs) = Len(s.outputs)
  BY <1>1, <1>2, FunctionIsList
<1>5. /\ spending.version = s.version /\ spending.locktime = s.locktime
      /\ spending.inputs = [i \in 1..Len(s.inputs) |-> spending.inputs[i]]
      /\ spending.outputs = tx.outputs
      /\ \A i \in DOMAIN s.inputs :
            /\ spending.inputs[i].outpoint = tx.inputs[i].outpoint
            /\ spending.inputs[i].sequence = tx.inputs[i].sequence
            /\ spending.inputs[i].unlocking = tx.inputs[i].unlocking
            /\ spending.inputs[i].coin = coins[tx.inputs[i].outpoint]
  BY <1>1, <1>2, <1>3 DEF Spending
<1> HIDE DEF spending
<1>6. /\ spending.inputs \in Seq(Range(spending.inputs)) /\ DOMAIN spending.inputs = 1..Len(s.inputs)
      /\ Len(spending.inputs) = Len(s.inputs)
  BY <1>1, <1>5, FunctionIsList
<1> QED BY <1>1, <1>2, <1>3, <1>4, <1>5, <1>6 DEF tx, spending

\* The covenant rebuilds what the serializer wrote.
LEMMA ProjectionIsTranscript ==
  ASSUME NEW s \in Proven, NEW spending,
         Len(s.inputs) <= InputSlots, Len(s.outputs) <= OutputSlots,
         spending.version = s.version, spending.locktime = s.locktime,
         IsList(spending.inputs), Len(spending.inputs) = Len(s.inputs),
         IsList(spending.outputs), Len(spending.outputs) = Len(s.outputs),
         \A i \in DOMAIN s.inputs :
            /\ spending.inputs[i].sequence = s.inputs[i].sequence
            /\ spending.inputs[i].coin.value = s.inputs[i].value
            /\ i # s.designated + 1 => spending.inputs[i].outpoint = s.inputs[i].outpoint,
         \A j \in DOMAIN s.outputs :
            /\ spending.outputs[j].value = s.outputs[j].value
            /\ spending.outputs[j].locking = Materialized(s.outputs[j], StatementCommitment(s))
  PROVE  Transcript(spending, s.designated + 1) = SerializedProjection(s)
<1> DEFINE n == Len(s.inputs)
           m == Len(s.outputs)
           index == s.designated + 1
           inputs == SubSeq(spending.inputs, 1, Min({Len(spending.inputs), InputSlots}))
           outputs == SubSeq(spending.outputs, 1, Min({Len(spending.outputs), OutputSlots}))
           body == [i \in DOMAIN inputs |-> [outpoint |-> inputs[i].outpoint,
                                             sequence |-> WideWord(inputs[i].sequence),
                                             value |-> inputs[i].coin.value]]
           projected == [i \in DOMAIN s.inputs |-> [outpoint |-> s.inputs[i].outpoint,
                                                    sequence |-> s.inputs[i].sequence,
                                                    value |-> s.inputs[i].value]]
           paid == [i \in DOMAIN inputs |-> inputs[i].coin.value]
<1>1. /\ n \in Nat /\ DOMAIN s.inputs = 1..n /\ m \in Nat /\ DOMAIN s.outputs = 1..m
      /\ IsList(s.inputs) /\ IsList(s.outputs)
  BY ProvenAssumption, ListShape DEF IsList
<1>2. /\ s.designated \in Nat /\ ~(s.designated >= n)
      /\ IsWord(s.version) /\ IsWord(s.locktime)
      /\ \A i \in DOMAIN s.inputs : IsWord(s.inputs[i].sequence)
  BY ProvenAssumption, SerializedShape
<1>3. inputs = spending.inputs
  <2>1. Min({Len(spending.inputs), InputSlots}) = Len(spending.inputs)
    BY <1>1, SizesAssumption, MinOfTwo
  <2> QED BY <2>1, WholePrefix DEF IsList
<1>4. outputs = spending.outputs
  <2>1. Min({Len(spending.outputs), OutputSlots}) = Len(spending.outputs)
    BY <1>1, SizesAssumption, MinOfTwo
  <2> QED BY <2>1, WholePrefix DEF IsList
<1>5. DOMAIN spending.inputs = 1..n /\ DOMAIN spending.outputs = 1..m
  BY ListShape DEF IsList
<1> HIDE DEF inputs, outputs
<1>6. /\ NarrowWord(n) = n /\ NarrowWord(m) = m /\ NarrowWord(index - 1) = s.designated
      /\ WideWord(s.version) = s.version /\ WideWord(s.locktime) = s.locktime
  <2>1. n < Word \div 2 /\ m < Word \div 2
    <3>1. Word \div 2 \in Int BY SizesAssumption
    <3> QED BY <1>1, <3>1, SizesAssumption
  <2>2. s.designated < Word \div 2 /\ index - 1 = s.designated
    <3>1. Word \div 2 \in Int BY SizesAssumption
    <3> QED BY <1>1, <1>2, <2>1, <3>1
  <2> QED BY <1>2, <2>1, <2>2, WideIsFaithful DEF NarrowWord
<1>7. /\ body \in Seq(Range(body)) /\ Len(body) = n
      /\ \A i \in 1..n : body[i] = [outpoint |-> spending.inputs[i].outpoint,
                                    sequence |-> s.inputs[i].sequence,
                                    value |-> s.inputs[i].value]
  <2>1. body = [i \in 1..n |-> body[i]] BY <1>3, <1>5
  <2>2. \A i \in 1..n : body[i] = [outpoint |-> spending.inputs[i].outpoint,
                                   sequence |-> s.inputs[i].sequence,
                                   value |-> s.inputs[i].value]
    <3> SUFFICES ASSUME NEW i \in 1..n
                 PROVE  body[i] = [outpoint |-> spending.inputs[i].outpoint,
                                   sequence |-> s.inputs[i].sequence,
                                   value |-> s.inputs[i].value]
      OBVIOUS
    <3>1. body[i] = [outpoint |-> inputs[i].outpoint, sequence |-> WideWord(inputs[i].sequence),
                     value |-> inputs[i].coin.value]
      BY <1>3, <1>5
    <3>2. WideWord(s.inputs[i].sequence) = s.inputs[i].sequence BY <1>1, <1>2, WideIsFaithful
    <3> HIDE DEF body
    <3> QED BY <1>1, <1>3, <3>1, <3>2
  <2> HIDE DEF body
  <2> QED BY <1>1, <2>1, <2>2, FunctionIsList
<1>8. /\ projected \in Seq(Range(projected)) /\ Len(projected) = n
      /\ \A i \in 1..n : projected[i] = [outpoint |-> s.inputs[i].outpoint,
                                         sequence |-> s.inputs[i].sequence,
                                         value |-> s.inputs[i].value]
  <2>1. projected = [i \in 1..n |-> projected[i]] BY <1>1
  <2>2. \A i \in 1..n : projected[i] = [outpoint |-> s.inputs[i].outpoint,
                                        sequence |-> s.inputs[i].sequence,
                                        value |-> s.inputs[i].value]
    BY <1>1
  <2> HIDE DEF projected
  <2> QED BY <1>1, <2>1, <2>2, FunctionIsList
<1>9. RemoveAt(body, index) = ProjectedInputs(s.inputs, s.designated)
  <2>1. index \in 1..n BY <1>1, <1>2
  <2>2. \A i \in 1..n : i # index => body[i] = projected[i]
    <3> HIDE DEF body, projected
    <3> SUFFICES ASSUME NEW i \in 1..n, i # index PROVE body[i] = projected[i] OBVIOUS
    <3>1. spending.inputs[i].outpoint = s.inputs[i].outpoint BY <1>1
    <3> QED BY <1>7, <1>8, <3>1
  <2>3. RemoveAt(body, index) = RemoveAt(projected, index)
    <3>1. /\ body \in Seq(Range(body)) /\ projected \in Seq(Range(projected))
          /\ Len(body) = Len(projected) /\ index \in 1..Len(body)
          /\ \A i \in 1..Len(body) : i # index => body[i] = projected[i]
      <4> HIDE DEF body, projected
      <4> QED BY <1>7, <1>8, <2>1, <2>2
    <3> HIDE DEF body, projected, index
    <3> QED BY <3>1, AlikeRemoved
  <2> QED BY <2>3 DEF ProjectedInputs
<1>10. index <= Len(inputs) BY <1>1, <1>2, <1>3
<1>11. [j \in DOMAIN outputs |-> [value |-> outputs[j].value, locking |-> outputs[j].locking]] =
          [j \in DOMAIN s.outputs |->
              [value |-> s.outputs[j].value,
               locking |-> Materialized(s.outputs[j], StatementCommitment(s))]]
  BY <1>1, <1>4, <1>5
<1>12. SumSats(paid) - SumSats(Values(outputs)) = s.fee
  <2>1. paid = Values(s.inputs) BY <1>1, <1>3, <1>5 DEF Values
  <2>2. Values(outputs) = Values(s.outputs) BY <1>1, <1>4, <1>5 DEF Values
  <2> HIDE DEF paid
  <2> QED BY <2>1, <2>2, ProvenAssumption
<1>13. SerializedProjection(s) =
          [version |-> s.version, locktime |-> s.locktime,
           inputCount |-> n, designated |-> s.designated,
           inputs |-> ProjectedInputs(s.inputs, s.designated), outputCount |-> m,
           outputs |-> [j \in DOMAIN s.outputs |->
                           [value |-> s.outputs[j].value,
                            locking |-> Materialized(s.outputs[j], StatementCommitment(s))]],
           fee |-> s.fee]
  BY ProvenAssumption DEF SerializedProjection
<1>14. Transcript(spending, index) =
          [version |-> WideWord(spending.version), locktime |-> WideWord(spending.locktime),
           inputCount |-> NarrowWord(n), designated |-> NarrowWord(index - 1),
           inputs |-> IF index <= Len(inputs) THEN RemoveAt(body, index) ELSE body,
           outputCount |-> NarrowWord(m),
           outputs |-> [j \in DOMAIN outputs |-> [value |-> outputs[j].value,
                                                  locking |-> outputs[j].locking]],
           fee |-> SumSats(paid) - SumSats(Values(outputs))]
  BY DEF Transcript, inputs, outputs
<1> HIDE DEF body, paid, projected, index, n, m
<1> QED BY <1>6, <1>9, <1>10, <1>11, <1>12, <1>13, <1>14 DEF index

LEMMA SettlementPasses ==
  ASSUME CoinsArePlaced, NEW s \in Proven, NEW verdict \in DOMAIN coins,
         IsVerdictOf(coins[verdict], s),
         Len(s.inputs) <= InputSlots, Len(s.outputs) <= OutputSlots,
         \A i \in DOMAIN s.inputs \ {s.designated + 1} :
            /\ s.inputs[i].outpoint \in DOMAIN coins
            /\ coins[s.inputs[i].outpoint].value = s.inputs[i].value
            /\ coins[s.inputs[i].outpoint].locking.kind \in {"seal", "plain"}
  PROVE  IsAccepted(Settlement(s, verdict))
<1> DEFINE tx == Settlement(s, verdict)
           spending == Spending(tx)
           d == s.designated + 1
<1>1. /\ Len(s.inputs) \in Nat /\ DOMAIN s.inputs = 1..Len(s.inputs)
      /\ Len(s.outputs) \in Nat /\ DOMAIN s.outputs = 1..Len(s.outputs)
      /\ IsList(s.inputs) /\ IsList(s.outputs)
  BY ProvenAssumption, ListShape DEF IsList
<1>2. /\ s.designated \in Nat /\ ~(s.designated >= Len(s.inputs))
      /\ s.inputs # <<>>
      /\ IsWord(s.version) /\ IsWord(s.locktime)
      /\ \A i \in DOMAIN s.inputs : IsWord(s.inputs[i].sequence)
  BY ProvenAssumption, SerializedShape
<1>3. d \in DOMAIN s.inputs BY <1>1, <1>2
<1>4. /\ tx.version = s.version /\ tx.locktime = s.locktime
      /\ IsList(tx.inputs) /\ IsList(tx.outputs)
      /\ DOMAIN tx.inputs = DOMAIN s.inputs /\ DOMAIN tx.outputs = DOMAIN s.outputs
      /\ Len(tx.inputs) = Len(s.inputs) /\ Len(tx.outputs) = Len(s.outputs)
      /\ \A i \in DOMAIN s.inputs :
            /\ tx.inputs[i].sequence = s.inputs[i].sequence
            /\ i = d => tx.inputs[i].outpoint = verdict
            /\ i # d => /\ tx.inputs[i].outpoint = s.inputs[i].outpoint
                        /\ tx.inputs[i].unlocking = AggregateUnlocking(s.designated)
      /\ \A j \in DOMAIN s.outputs :
            /\ tx.outputs[j].value = s.outputs[j].value
            /\ tx.outputs[j].token = None
            /\ tx.outputs[j].locking = Materialized(s.outputs[j], StatementCommitment(s))
  BY SettlementShape DEF IsList
<1>5. /\ spending.version = s.version /\ spending.locktime = s.locktime
      /\ IsList(spending.inputs)
      /\ DOMAIN spending.inputs = DOMAIN s.inputs /\ Len(spending.inputs) = Len(s.inputs)
      /\ spending.outputs = tx.outputs
      /\ \A i \in DOMAIN s.inputs :
            /\ spending.inputs[i].outpoint = tx.inputs[i].outpoint
            /\ spending.inputs[i].sequence = tx.inputs[i].sequence
            /\ spending.inputs[i].unlocking = tx.inputs[i].unlocking
            /\ spending.inputs[i].coin = coins[tx.inputs[i].outpoint]
  BY SettlementShape DEF IsList
<1> HIDE DEF tx, spending
<1>6. \A i \in DOMAIN s.inputs : /\ tx.inputs[i].outpoint \in DOMAIN coins
                                 /\ spending.inputs[i].coin.value = s.inputs[i].value
  <2> SUFFICES ASSUME NEW i \in DOMAIN s.inputs
               PROVE  /\ tx.inputs[i].outpoint \in DOMAIN coins
                      /\ spending.inputs[i].coin.value = s.inputs[i].value
    OBVIOUS
  <2>1. CASE i = d BY <1>4, <1>5, <2>1 DEF IsVerdictOf
  <2>2. CASE i # d BY <1>4, <1>5, <2>2
  <2> QED BY <2>1, <2>2
<1>7. spending.inputs[d].coin = coins[verdict] BY <1>3, <1>4, <1>5
<1>8. \A i \in DOMAIN s.inputs : i # d => spending.inputs[i].coin.locking.kind \in {"seal", "plain"}
  BY <1>4, <1>5
<1>9. IsTransaction(tx)
  <2>1. \A j \in DOMAIN tx.outputs : IsCoin(tx.outputs[j])
    BY <1>4, ProvenAssumption DEF IsCoin, IsToken
  <2> QED BY <1>2, <1>4, <2>1 DEF IsTransaction
<1>10. tx.inputs # <<>>
  <2>1. 1 \in DOMAIN tx.inputs BY <1>1, <1>2, <1>4
  <2> QED BY <2>1
<1>11. \A i, k \in DOMAIN tx.inputs : tx.inputs[i].outpoint = tx.inputs[k].outpoint => i = k
  <2> SUFFICES ASSUME NEW i \in DOMAIN s.inputs, NEW k \in DOMAIN s.inputs,
                      tx.inputs[i].outpoint = tx.inputs[k].outpoint
               PROVE  i = k
    BY <1>4
  <2>1. coins[verdict].locking.kind = "L_verdict" BY DEF IsVerdictOf
  <2>2. spending.inputs[i].coin = spending.inputs[k].coin BY <1>5
  <2>3. i = d <=> k = d BY <1>7, <1>8, <2>1, <2>2
  <2>4. CASE i = d BY <2>3, <2>4
  <2>5. CASE i # d
    <3>1. s.inputs[i].outpoint = s.inputs[k].outpoint BY <1>4, <2>3, <2>5
    <3> QED BY <3>1, ProvenAssumption
  <2> QED BY <2>4, <2>5
<1>12. SumSats([i \in DOMAIN tx.inputs |-> spending.inputs[i].coin.value]) >= SumSats(Values(tx.outputs))
  <2> DEFINE paid == [i \in DOMAIN tx.inputs |-> spending.inputs[i].coin.value]
  <2>1. paid = Values(s.inputs) BY <1>4, <1>6 DEF Values
  <2>2. Values(tx.outputs) = Values(s.outputs) BY <1>4 DEF Values
  <2>3. /\ Values(s.inputs) \in Seq(Int) /\ Values(s.outputs) \in Seq(Int)
    BY ProvenAssumption, ValuesShape
  <2>4. SumSats(Values(s.inputs)) \in Int /\ SumSats(Values(s.outputs)) \in Int
    BY <2>3, TotalOfType DEF SumSats
  <2>5. s.fee \in Nat /\ s.fee = SumSats(Values(s.inputs)) - SumSats(Values(s.outputs))
    BY ProvenAssumption
  <2>6. SumSats(Values(s.inputs)) >= SumSats(Values(s.outputs)) BY <2>4, <2>5
  <2> HIDE DEF paid
  <2>7. SumSats(paid) >= SumSats(Values(tx.outputs)) BY <2>1, <2>2, <2>6
  <2> QED BY <2>7 DEF paid
<1>13. TokensConserved(spending)
  <2>1. \A j \in DOMAIN spending.outputs : spending.outputs[j].token = None BY <1>4, <1>5
  <2> QED BY <2>1, NoTokensAreConserved
<1>14. ASSUME NEW i \in DOMAIN tx.inputs PROVE ScriptAllows(spending, i)
  <2>1. CASE i = d
    <3>1. spending.inputs[i].coin = coins[verdict] BY <1>7, <2>1
    <3>2. coins[verdict].locking.kind = "L_verdict" BY DEF IsVerdictOf
    <3>3. IsToken(coins[verdict].token) BY DEF CoinsArePlaced, IsCoin
    <3>4. coins[verdict].token # None BY <3>3, CategoryNamesToken DEF IsVerdictOf
    <3>5. Transcript(spending, d) = SerializedProjection(s)
      <4>1. /\ Len(spending.outputs) = Len(s.outputs)
            /\ IsList(spending.outputs)
            /\ \A k \in DOMAIN s.inputs :
                  /\ spending.inputs[k].sequence = s.inputs[k].sequence
                  /\ spending.inputs[k].coin.value = s.inputs[k].value
                  /\ k # s.designated + 1 => spending.inputs[k].outpoint = s.inputs[k].outpoint
            /\ \A j \in DOMAIN s.outputs :
                  /\ spending.outputs[j].value = s.outputs[j].value
                  /\ spending.outputs[j].locking = Materialized(s.outputs[j], StatementCommitment(s))
        BY <1>4, <1>5, <1>6
      <4> QED BY <1>5, <4>1, ProjectionIsTranscript
    <3>6. \A j \in 1..Min({Len(spending.outputs), OutputSlots}) :
             TokenCategory(spending.outputs[j].token) = <<>>
      <4> SUFFICES ASSUME NEW j \in 1..Min({Len(spending.outputs), OutputSlots})
                   PROVE  TokenCategory(spending.outputs[j].token) = <<>>
        OBVIOUS
      <4>1. Len(spending.outputs) = Len(s.outputs) BY <1>4, <1>5
      <4>2. Min({Len(spending.outputs), OutputSlots}) = Len(s.outputs)
        BY <1>1, <4>1, SizesAssumption, MinOfTwo
      <4>3. j \in DOMAIN s.outputs BY <1>1, <4>2
      <4> QED BY <1>4, <1>5, <4>3 DEF TokenCategory
    <3>7. coins[verdict].token.commitment = Digest(ProjectionDomain, Transcript(spending, i))
      BY <2>1, <3>5 DEF IsVerdictOf, ProjectionCommitment
    <3> QED BY <3>1, <3>2, <3>4, <3>6, <3>7 DEF ScriptAllows, SettlementAuthorized
  <2>2. CASE i # d
    <3>1. spending.inputs[i].coin.locking.kind \in {"seal", "plain"} BY <1>4, <1>8, <2>2
    <3>2. spending.inputs[i].unlocking = AggregateUnlocking(s.designated) BY <1>4, <1>5, <2>2
    <3>3. s.designated \in 0..(InputSlots - 1)
      <4>1. InputSlots \in Nat BY SizesAssumption
      <4> QED BY <1>1, <1>2, <4>1
    <3>4. AggregateUnlocking(s.designated) =
             [selector |-> AggregateSelector, index |-> s.designated]
      BY <3>3 DEF AggregateUnlocking
    <3>5. AggregateAllows(spending, spending.inputs[i].unlocking)
      BY <1>3, <1>5, <1>7, <3>2, <3>4 DEF AggregateAllows, IsVerdictOf
    <3>6. SealAllows(spending, i) BY <3>2, <3>4, <3>5 DEF SealAllows, None
    <3> QED BY <3>1, <3>6 DEF ScriptAllows
  <2> QED BY <2>1, <2>2
<1>15. IsAccepted(tx) BY <1>4, <1>6, <1>9, <1>10, <1>11, <1>12, <1>13, <1>14 DEF IsAccepted, spending
<1> QED BY <1>15 DEF tx

\* Outpoints are never used again, so a seal that a signature names is, as long as it is
\* there, the one that was signed for.
SignedSpends ==
    /\ \A o \in DOMAIN coins : o[1] \in 0..Len(confirmed)
    /\ \A signature \in signatures :
          LET draft == signature.draft
              outpoint == draft.inputs[1].outpoint
          IN  /\ IsTransaction(draft) /\ Len(draft.inputs) = 1
              /\ \A j \in DOMAIN draft.outputs : draft.outputs[j].token = None
              /\ outpoint[1] \in 0..Len(confirmed)
              /\ outpoint \in DOMAIN coins =>
                    /\ coins[outpoint].locking.kind = "seal"
                    /\ SumSats(Values(draft.outputs)) <= coins[outpoint].value
                    /\ signature.digest =
                          SignedDigest(draft, 1, coins[outpoint].locking, signature.hashType)

LEMMA ExitPasses ==
  ASSUME CoinsArePlaced, SignedSpends, NEW signature \in signatures,
         signature.draft.inputs[1].outpoint \in DOMAIN coins,
         ExitKeyHash(signature.key) =
            coins[signature.draft.inputs[1].outpoint].locking.exitKeyHash,
         ExitUnlocking(signature) # None
  PROVE  IsAccepted(Unlocked(signature.draft, ExitUnlocking(signature)))
<1> DEFINE draft == signature.draft
           outpoint == draft.inputs[1].outpoint
           unlocking == ExitUnlocking(signature)
           tx == Unlocked(draft, unlocking)
           spending == Spending(tx)
           seal == coins[outpoint].locking
<1>1. /\ IsTransaction(draft) /\ Len(draft.inputs) = 1
      /\ \A j \in DOMAIN draft.outputs : draft.outputs[j].token = None
      /\ seal.kind = "seal"
      /\ SumSats(Values(draft.outputs)) <= coins[outpoint].value
      /\ signature.digest = SignedDigest(draft, 1, seal, signature.hashType)
  BY DEF SignedSpends
<1>2. /\ SignatureBytes(signature) = 65 /\ signature.hashType = "ALL"
      /\ unlocking = [selector |-> ExitSelector, key |-> signature.key, signature |-> signature]
  BY DEF ExitUnlocking
<1>3. DOMAIN draft.inputs = {1}
  <2>1. DOMAIN draft.inputs = 1..1 BY <1>1, ListShape DEF IsTransaction, IsList
  <2> QED BY <2>1
<1>4. /\ tx.version = draft.version /\ tx.locktime = draft.locktime /\ tx.outputs = draft.outputs
      /\ tx.inputs = <<[outpoint |-> outpoint, sequence |-> draft.inputs[1].sequence,
                        unlocking |-> unlocking]>>
  BY DEF Unlocked
<1> HIDE DEF unlocking, tx
<1>5. /\ Len(tx.inputs) = 1 /\ DOMAIN tx.inputs = {1} /\ tx.inputs # <<>>
      /\ tx.inputs[1].outpoint = outpoint
      /\ tx.inputs[1].sequence = draft.inputs[1].sequence
      /\ tx.inputs[1].unlocking = unlocking
      /\ IsList(tx.inputs)
  <2>1. /\ Len(tx.inputs) = 1 /\ DOMAIN tx.inputs = 1..1 /\ tx.inputs # <<>>
        /\ tx.inputs[1] = [outpoint |-> outpoint, sequence |-> draft.inputs[1].sequence,
                           unlocking |-> unlocking]
        /\ tx.inputs = [i \in 1..1 |-> tx.inputs[i]]
    BY <1>4
  <2>2. IsList(tx.inputs) BY <2>1, FunctionIsList DEF IsList
  <2> QED BY <2>1, <2>2
<1>6. /\ spending.version = draft.version /\ spending.locktime = draft.locktime
      /\ spending.outputs = draft.outputs
      /\ DOMAIN spending.inputs = {1}
      /\ spending.inputs[1].outpoint = outpoint
      /\ spending.inputs[1].sequence = draft.inputs[1].sequence
      /\ spending.inputs[1].unlocking = unlocking
      /\ spending.inputs[1].coin = coins[outpoint]
  BY <1>4, <1>5 DEF Spending
<1> HIDE DEF spending
<1>7. IsTransaction(tx) BY <1>1, <1>3, <1>4, <1>5 DEF IsTransaction
<1>8. \A i, k \in DOMAIN tx.inputs : tx.inputs[i].outpoint = tx.inputs[k].outpoint => i = k
  BY <1>5
<1>9. SumSats([i \in DOMAIN tx.inputs |-> spending.inputs[i].coin.value]) >= SumSats(Values(tx.outputs))
  <2> DEFINE paid == [i \in DOMAIN tx.inputs |-> spending.inputs[i].coin.value]
  <2>1. coins[outpoint].value \in Nat BY DEF CoinsArePlaced, IsCoin
  <2>2. paid = [i \in 1..1 |-> coins[outpoint].value]
    <3>1. 1..1 = {1} OBVIOUS
    <3> QED BY <1>5, <1>6, <3>1
  <2>3. paid \in Seq(Int) /\ Len(paid) = 1 /\ paid[1] = coins[outpoint].value BY <2>1, <2>2
  <2> HIDE DEF paid
  <2>4. SumSats(paid) = coins[outpoint].value BY <2>3, TotalOfOne DEF SumSats
  <2>5. SumSats(Values(draft.outputs)) \in Int
    <3>1. Values(draft.outputs) \in Seq(Int) BY <1>1, ValuesShape DEF IsTransaction, IsCoin
    <3> QED BY <3>1, TotalOfType DEF SumSats
  <2>6. SumSats(paid) >= SumSats(Values(tx.outputs)) BY <1>1, <1>4, <2>1, <2>4, <2>5
  <2> QED BY <2>6 DEF paid
<1>10. TokensConserved(spending) BY <1>1, <1>6, NoTokensAreConserved
<1>11. signature.digest = SignedDigest(spending, 1, seal, signature.hashType)
  <2>1. [i \in DOMAIN spending.inputs |-> spending.inputs[i].outpoint] =
           [i \in DOMAIN draft.inputs |-> draft.inputs[i].outpoint]
    BY <1>3, <1>6
  <2>2. [i \in DOMAIN spending.inputs |-> spending.inputs[i].sequence] =
           [i \in DOMAIN draft.inputs |-> draft.inputs[i].sequence]
    BY <1>3, <1>6
  <2>3. SignedDigest(spending, 1, seal, signature.hashType) =
           SignedDigest(draft, 1, seal, signature.hashType)
    BY <1>2, <1>6, <2>1, <2>2, Zenon DEF SignedDigest
  <2> QED BY <1>1, <2>3
<1>12. ExitAllows(spending, 1, unlocking)
  BY <1>2, <1>6, <1>11 DEF ExitAllows
<1>13. SealAllows(spending, 1)
  <2>1. unlocking.selector = 0 BY <1>2 DEF ExitSelector
  <2> QED BY <1>6, <1>12, <2>1 DEF SealAllows, unlocking, AggregateSelector
<1>14. \A i \in DOMAIN tx.inputs : ScriptAllows(spending, i)
  BY <1>1, <1>5, <1>6, <1>13 DEF ScriptAllows
<1>15. IsAccepted(tx) BY <1>4, <1>5, <1>7, <1>8, <1>9, <1>10, <1>14 DEF IsAccepted, spending
<1> QED BY <1>15 DEF tx, unlocking

LEMMA SignedSpendsHold == CovenantSpec => []SignedSpends
<1>1. CovenantInit => SignedSpends
  BY GenesisAssumption DEF CovenantInit, SignedSpends
<1>2. CovenantInv /\ SignedSpends /\ [CovenantNext]_covenantVars => SignedSpends'
  <2> SUFFICES ASSUME CovenantInv, SignedSpends, [CovenantNext]_covenantVars
               PROVE  SignedSpends'
    OBVIOUS
  <2>1. ASSUME NEW draft, SignExit(draft) PROVE SignedSpends'
    <3>1. /\ coins' = coins /\ confirmed' = confirmed /\ IsExitDraft(draft.tx)
          /\ signatures' = signatures \cup
                {[key |-> draft.key, scheme |-> draft.scheme, hashType |-> draft.hashType,
                  digest |-> SignedDigest(draft.tx, 1, coins[draft.tx.inputs[1].outpoint].locking,
                                          draft.hashType), draft |-> draft.tx]}
      BY <2>1 DEF SignExit
    <3>2. draft.tx.inputs[1].outpoint[1] \in 0..Len(confirmed)
      BY <3>1 DEF SignedSpends, IsExitDraft
    <3> SUFFICES ASSUME NEW signature \in signatures'
                 PROVE  LET outpoint == signature.draft.inputs[1].outpoint
                        IN  /\ IsTransaction(signature.draft) /\ Len(signature.draft.inputs) = 1
                            /\ \A j \in DOMAIN signature.draft.outputs :
                                  signature.draft.outputs[j].token = None
                            /\ outpoint[1] \in 0..Len(confirmed)
                            /\ outpoint \in DOMAIN coins =>
                                  /\ coins[outpoint].locking.kind = "seal"
                                  /\ SumSats(Values(signature.draft.outputs)) <= coins[outpoint].value
                                  /\ signature.digest =
                                        SignedDigest(signature.draft, 1, coins[outpoint].locking,
                                                     signature.hashType)
      BY <3>1 DEF SignedSpends
    <3>3. CASE signature \in signatures BY <3>3 DEF SignedSpends
    <3>4. CASE signature \notin signatures
      <4>1. /\ signature.draft = draft.tx /\ signature.hashType = draft.hashType
            /\ signature.digest =
                  SignedDigest(draft.tx, 1, coins[draft.tx.inputs[1].outpoint].locking,
                               draft.hashType)
        BY <3>1, <3>4
      <4> QED BY <3>1, <3>2, <4>1 DEF IsExitDraft
    <3> QED BY <3>3, <3>4
  <2>2. ASSUME NEW tx, Confirm(tx) PROVE SignedSpends'
    <3> DEFINE created == {<<Len(confirmed) + 1, j>> : j \in DOMAIN tx.outputs}
               spent == {tx.inputs[i].outpoint : i \in DOMAIN tx.inputs}
    <3>1. /\ coins' = [p \in (DOMAIN coins \ spent) \cup created |->
                          IF p \in created THEN tx.outputs[p[2]] ELSE coins[p]]
          /\ confirmed' = Append(confirmed, Spending(tx)) /\ signatures' = signatures
      BY <2>2 DEF Confirm
    <3>2. Len(confirmed) \in Nat /\ Len(confirmed') = Len(confirmed) + 1
      BY <3>1, AppendedList, ListShape DEF CovenantInv, IsList
    <3>3. \A o : o[1] \in 0..Len(confirmed) =>
             /\ o \notin created
             /\ o \in DOMAIN coins' => o \in DOMAIN coins /\ coins'[o] = coins[o]
      BY <3>1, <3>2
    <3>4. \A o \in DOMAIN coins' : o[1] \in 0..Len(confirmed')
      BY <3>1, <3>2 DEF SignedSpends
    <3>5. \A o : o[1] \in 0..Len(confirmed) => o[1] \in 0..Len(confirmed') BY <3>2
    <3> QED BY <3>1, <3>3, <3>4, <3>5 DEF SignedSpends
  <2>3. CASE UNCHANGED covenantVars BY <2>3 DEF covenantVars, SignedSpends
  <2> QED BY <2>1, <2>2, <2>3 DEF CovenantNext
<1> QED BY <1>1, <1>2, CovenantInvHolds, PTL DEF CovenantSpec

\* What the builders make for an authorized spender passes the scripts, whatever others
\* have confirmed before: the settlement of a proven statement, and a spend signed with
\* the key of an unspent seal.  Both are within the covenant's slots; the VM's limit of
\* 10,000 bytes on the transcript, met by oversized, non-standard lockings only, is
\* left out of the model (see Transcript).
THEOREM AuthorizedSpendsAreAcceptedHolds == CovenantSpec => []AuthorizedSpendsAreAccepted
<1>1. CovenantInv /\ SignedSpends => AuthorizedSpendsAreAccepted
  <2> SUFFICES ASSUME CovenantInv, SignedSpends PROVE AuthorizedSpendsAreAccepted OBVIOUS
  <2>1. SettlementIsAccepted BY SettlementPasses DEF SettlementIsAccepted, CovenantInv
  <2>2. ExitIsOpen BY ExitPasses DEF ExitIsOpen, CovenantInv
  <2> QED BY <2>1, <2>2 DEF AuthorizedSpendsAreAccepted
<1> QED BY <1>1, CovenantInvHolds, SignedSpendsHold, PTL
=============================================================================
