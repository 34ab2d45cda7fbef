------------------------ MODULE ProtocolRuntimeProofs ------------------------
(***************************************************************************)
(* Machine-checked proofs about the builders, evaluators and normalisers   *)
(* of protocol-runtime: the claimed models, the lane roots, the transition *)
(* output, the import statements and the life of a seal, for every value   *)
(* of their constants.                                                     *)
(***************************************************************************)
EXTENDS SealLifecycle, ModelJudgement, LaneRoots, TransitionOutput, ImportStatements, ListLemmas

(***************************************************************************)
(* What an evaluation says of a claimed model, for every question, gate    *)
(* and batch.                                                              *)
(***************************************************************************)

\* A claim is what the evaluator will make of the model it was claimed of.
ClaimIsConfirmed(model) ==
    /\ model.kind = "policy" => model.claim.accepted = PolicyVerdict(model.gates).accepted
    /\ model.kind = "conservation" => model.claim.accepted = ConservationVerdict(model).accepted
    /\ model.kind = "validity" => model.claim.accepted = ValidityVerdict(model).accepted
    /\ model.kind = "aggregation" => model.claim.accepted = AggregationVerdict(model).accepted

\* An evaluation is of the model it names, by the evaluator of its kind.
VerdictIsOfItsModel(judged) ==
    /\ judged.of.kind = "policy" => judged.verdict = PolicyVerdict(judged.of.gates)
    /\ judged.of.kind = "conservation" => judged.verdict = ConservationVerdict(judged.of)
    /\ judged.of.kind = "validity" => judged.verdict = ValidityVerdict(judged.of)
    /\ judged.of.kind = "aggregation" => judged.verdict = AggregationVerdict(judged.of)
    /\ judged.of.kind \in {"policy", "conservation", "validity", "aggregation"}

JudgementHolds ==
    /\ built # None => ClaimIsConfirmed(built)
    /\ builder.kind = "aggregation bind" => builder.root = OutputRoot(Outputs(builder.transitions))
    /\ examined # None => examined.kind \in {"validity", "aggregation"}
    /\ stored # None \/ examined # None \/ judgement # None => built # None
    /\ judgement # None => VerdictIsOfItsModel(judgement)

-----------------------------------------------------------------------------
\* The builders.

\* A claimed transition is valid exactly when its evaluator finds it so.
LEMMA ValidityClaimConfirmed ==
    ASSUME NEW relation, NEW witness, NEW public
    PROVE  LET derived == TransitionBind(relation, witness)
           IN  ClaimIsConfirmed([kind |-> "validity", relation |-> relation, witness |-> witness,
                                 public |-> public, derived |-> derived,
                                 claim |-> ValidityClaim(public, derived)])
  BY DEF ClaimIsConfirmed, ValidityClaim, ValidityVerdict

\* A claimed batch is accepted exactly when its evaluator accepts it, provided that
\* its derived values are those of its own transitions.
LEMMA AggregationClaimConfirmed ==
    ASSUME NEW relation, NEW transitions, NEW counts, NEW publicRoot, NEW publicBind,
           NEW aggregator
    PROVE  LET root == OutputRoot(Outputs(transitions))
               bind == BatchBind(transitions, root)
           IN  ClaimIsConfirmed([kind |-> "aggregation", relation |-> relation,
                   transitions |-> transitions, counts |-> counts, sums |-> Sums(transitions),
                   publicRoot |-> publicRoot, derivedRoot |-> root,
                   publicBind |-> publicBind, derivedBind |-> bind, aggregator |-> aggregator,
                   claim |-> AggregationClaim(transitions, publicRoot, root, publicBind, bind,
                                              aggregator)])
  BY DEF ClaimIsConfirmed, AggregationClaim, AggregationVerdict
-----------------------------------------------------------------------------
\* The lifecycle policy.

\* A group that failed is always reported: the first of the groups that did.
LEMMA FailureIsReported ==
    ASSUME NEW accepted \in SUBSET Groups, accepted # Groups
    PROVE  /\ FailureReason(accepted) \in Groups \ accepted
           /\ (Groups \ {"walletSpendability"} \subseteq accepted
                  => FailureReason(accepted) = "walletSpendability")
<1> DEFINE First(i) == /\ GroupOrder[i] \notin accepted
                       /\ \A j \in 1..(i - 1) : GroupOrder[j] \in accepted
<1>1. DOMAIN GroupOrder = 1..8
  BY DEF GroupOrder
<1>2. \E i \in 1..8 : First(i)
  <2> SUFFICES ASSUME \A i \in 1..8 : ~First(i) PROVE FALSE
    OBVIOUS
  <2>1. GroupOrder[1] \in accepted
    OBVIOUS
  <2>2. GroupOrder[2] \in accepted
    BY <2>1
  <2>3. GroupOrder[3] \in accepted
    BY <2>1, <2>2
  <2>4. GroupOrder[4] \in accepted
    BY <2>1, <2>2, <2>3
  <2>5. GroupOrder[5] \in accepted
    BY <2>1, <2>2, <2>3, <2>4
  <2>6. GroupOrder[6] \in accepted
    BY <2>1, <2>2, <2>3, <2>4, <2>5
  <2>7. GroupOrder[7] \in accepted
    BY <2>1, <2>2, <2>3, <2>4, <2>5, <2>6
  <2>8. GroupOrder[8] \in accepted
    BY <2>1, <2>2, <2>3, <2>4, <2>5, <2>6, <2>7
  <2>9. Groups \subseteq accepted
    BY <1>1, <2>1, <2>2, <2>3, <2>4, <2>5, <2>6, <2>7, <2>8 DEF Groups
  <2> QED
    BY <2>9
<1>3. PICK i \in 1..8 : First(i) /\ FailureReason(accepted) = GroupOrder[i]
  <2> DEFINE first == CHOOSE i \in 1..8 : First(i)
  <2>1. first \in 1..8 /\ First(first)
    BY <1>2
  <2>2. FailureReason(accepted) = GroupOrder[first]
    BY <1>1 DEF FailureReason
  <2> QED
    BY <2>1, <2>2
<1>4. FailureReason(accepted) \in Groups \ accepted
  BY <1>1, <1>3 DEF Groups
<1> QED
  BY <1>4

\* What a policy's verdict says of its gates, for every set of gates.
LEMMA PolicyVerdictIsSound ==
    ASSUME NEW gates
    PROVE  LET verdict == PolicyVerdict(gates)
           IN  /\ verdict.accepted <=> verdict.reason = "none"
               /\ verdict.accepted => /\ gates \cap NonClaimGates = {}
                                      /\ GateNames \ (NonClaimGates \cup PlaneBGates) \subseteq gates
                                      /\ "planeBRequired" \in gates => PlaneBGates \subseteq gates
               /\ verdict.reason # "none" => ~GroupAccepted(verdict.reason, gates)
               /\ verdict.recorded => verdict.reason \in {"none", "walletSpendability"}
<1> DEFINE accepted == {group \in Groups : GroupAccepted(group, gates)}
           verdict == PolicyVerdict(gates)
<1>1. Groups = {"proof", "chainSeal", "recovery", "carrier", "planeB", "nonClaim",
                "walletRecord", "walletSpendability"}
  <2>1. DOMAIN GroupOrder = 1..8
    BY DEF GroupOrder
  <2>2. Groups = {GroupOrder[1], GroupOrder[2], GroupOrder[3], GroupOrder[4], GroupOrder[5],
                  GroupOrder[6], GroupOrder[7], GroupOrder[8]}
    BY <2>1 DEF Groups
  <2> QED
    BY <2>2 DEF GroupOrder
<1>2. accepted \in SUBSET Groups
  OBVIOUS
<1>3. verdict.reason = FailureReason(accepted)
  BY DEF PolicyVerdict
<1>4. /\ verdict.accepted <=> accepted = Groups
      /\ verdict.recorded <=> Groups \ {"walletSpendability"} \subseteq accepted
  <2>1. verdict.recorded <=> {"proof", "chainSeal", "recovery", "carrier", "planeB", "nonClaim",
                              "walletRecord"} \subseteq accepted
    BY DEF PolicyVerdict
  <2>2. verdict.accepted <=> verdict.recorded /\ "walletSpendability" \in accepted
    BY DEF PolicyVerdict
  <2> QED
    BY <1>1, <1>2, <2>1, <2>2
<1>5. accepted = Groups => verdict.reason = "none"
  BY <1>3 DEF FailureReason
<1>6. accepted # Groups => /\ verdict.reason \in Groups \ accepted
                           /\ (verdict.recorded => verdict.reason = "walletSpendability")
  BY <1>2, <1>3, <1>4, FailureIsReported
<1>7. "none" \notin Groups
  BY <1>1
<1>8. ASSUME accepted = Groups
      PROVE  /\ gates \cap NonClaimGates = {}
             /\ GateNames \ (NonClaimGates \cup PlaneBGates) \subseteq gates
             /\ "planeBRequired" \in gates => PlaneBGates \subseteq gates
  <2>1. \A group \in Groups : GroupAccepted(group, gates)
    BY <1>8
  <2>2. /\ GroupAccepted("proof", gates) /\ GroupAccepted("chainSeal", gates)
        /\ GroupAccepted("recovery", gates) /\ GroupAccepted("carrier", gates)
        /\ GroupAccepted("planeB", gates) /\ GroupAccepted("nonClaim", gates)
        /\ GroupAccepted("walletRecord", gates) /\ GroupAccepted("walletSpendability", gates)
    BY <1>1, <2>1
  <2>3. /\ ProofGates \subseteq gates /\ ChainSealGates \subseteq gates
        /\ RecoveryGates \subseteq gates /\ CarrierGates \subseteq gates
        /\ "planeBRequired" \in gates => PlaneBGates \subseteq gates
        /\ NonClaimGates \cap gates = {} /\ WalletRecordGates \subseteq gates
        /\ WalletSpendabilityGates \subseteq gates
    BY <2>2 DEF GroupAccepted
  <2> QED
    BY <2>3 DEF GateNames
<1> QED
  BY <1>4, <1>5, <1>6, <1>7, <1>8

-----------------------------------------------------------------------------
\* The inductive invariant.

\* A step of a builder, of the store or of an evaluation keeps the claims confirmed.
LEMMA JudgementStep == JudgementHolds /\ [JudgementNext]_judgementVars => JudgementHolds'
<1> SUFFICES ASSUME JudgementHolds, [JudgementNext]_judgementVars PROVE JudgementHolds'
  OBVIOUS
<1> USE DEF JudgementHolds
<1>1. ASSUME NEW question, BuildPolicy(question) PROVE JudgementHolds'
  BY <1>1 DEF BuildPolicy, Keep, Idle, None, ClaimIsConfirmed, VerdictIsOfItsModel
<1>2. ASSUME NEW question, BuildConservation(question) PROVE JudgementHolds'
  BY <1>2 DEF BuildConservation, Keep, Idle, None, ClaimIsConfirmed, VerdictIsOfItsModel,
              ConservationVerdict
<1>3. ASSUME NEW question, BeginValidity(question) PROVE JudgementHolds'
  BY <1>3 DEF BeginValidity, ClaimIsConfirmed, VerdictIsOfItsModel
<1>4. ASSUME FinishValidity PROVE JudgementHolds'
  <2>1. built' # None => ClaimIsConfirmed(built')
    BY <1>4, ValidityClaimConfirmed DEF FinishValidity, Keep
  <2> QED
    BY <1>4, <2>1 DEF FinishValidity, Keep, Idle, None, ClaimIsConfirmed, VerdictIsOfItsModel
<1>5. ASSUME NEW question, BeginAggregation(question) PROVE JudgementHolds'
  BY <1>5 DEF BeginAggregation, ClaimIsConfirmed, VerdictIsOfItsModel
<1>6. ASSUME RootDerived PROVE JudgementHolds'
  BY <1>6 DEF RootDerived, ClaimIsConfirmed, VerdictIsOfItsModel
<1>7. ASSUME FinishAggregation PROVE JudgementHolds'
  <2>1. built' # None => ClaimIsConfirmed(built')
    BY <1>7, AggregationClaimConfirmed DEF FinishAggregation, Keep
  <2> QED
    BY <1>7, <2>1 DEF FinishAggregation, Keep, Idle, None, ClaimIsConfirmed, VerdictIsOfItsModel
<1>8. ASSUME NEW question, EditAsked(question) PROVE JudgementHolds'
  BY <1>8 DEF EditAsked, ClaimIsConfirmed, VerdictIsOfItsModel
<1>9. ASSUME AlterStored PROVE JudgementHolds'
  BY <1>9 DEF AlterStored, ClaimIsConfirmed, VerdictIsOfItsModel
<1>10. ASSUME EvaluatePolicy PROVE JudgementHolds'
  BY <1>10 DEF EvaluatePolicy, Judged, ClaimIsConfirmed, VerdictIsOfItsModel
<1>11. ASSUME EvaluateConservation PROVE JudgementHolds'
  BY <1>11 DEF EvaluateConservation, Judged, ClaimIsConfirmed, VerdictIsOfItsModel
<1>12. ASSUME BeginEvaluate PROVE JudgementHolds'
  BY <1>12 DEF BeginEvaluate, ClaimIsConfirmed, VerdictIsOfItsModel
<1>13. ASSUME FinishEvaluate PROVE JudgementHolds'
  BY <1>13 DEF FinishEvaluate, Judged, ClaimIsConfirmed, VerdictIsOfItsModel
<1>14. CASE UNCHANGED judgementVars
  BY <1>14 DEF judgementVars, ClaimIsConfirmed, VerdictIsOfItsModel
<1> QED
  BY <1>1, <1>2, <1>3, <1>4, <1>5, <1>6, <1>7, <1>8, <1>9, <1>10, <1>11, <1>12, <1>13, <1>14
     DEF JudgementNext

\* In every reachable state a claim is what the evaluator will find, and a verdict
\* is that of its model.
THEOREM JudgementsHold == JudgementSpec => []JudgementHolds
<1>1. JudgementInit => JudgementHolds
  BY DEF JudgementInit, JudgementHolds, Idle
<1> QED
  BY <1>1, JudgementStep, PTL DEF JudgementSpec

-----------------------------------------------------------------------------
\* The properties.

\* For every question and every edit of it: a model that nobody changed is
\* evaluated as its builder claimed.
THEOREM BuildersAreConfirmed == JudgementSpec => []EvaluationConfirmsTheBuilder
<1>1. JudgementHolds => EvaluationConfirmsTheBuilder
  BY DEF JudgementHolds, ClaimIsConfirmed, VerdictIsOfItsModel, EvaluationConfirmsTheBuilder
<1> QED
  BY <1>1, JudgementsHold, PTL

\* For every set of gates: an evaluated policy names a group that failed, and none
\* exactly when it accepts.
THEOREM FailuresAreNamed == JudgementSpec => []FailureNamesAFailedGroup
<1>1. JudgementHolds => FailureNamesAFailedGroup
  <2> SUFFICES ASSUME JudgementHolds, judgement # None, judgement.of.kind = "policy"
               PROVE  FailureNamesAFailedGroup
    BY DEF FailureNamesAFailedGroup
  <2>1. judgement.verdict = PolicyVerdict(judgement.of.gates)
    BY DEF JudgementHolds, VerdictIsOfItsModel
  <2> QED
    BY <2>1, PolicyVerdictIsSound DEF FailureNamesAFailedGroup
<1> QED
  BY <1>1, JudgementsHold, PTL

-----------------------------------------------------------------------------
\* Accepted batches.

\* A batch whose nullifiers are as many as its places for them spends none twice.
LEMMA NullifiersAreApart ==
    ASSUME NEW batch, IsList(batch), \A i \in DOMAIN batch : IsTransition(batch[i]),
           ~HasDuplicates(Nullifiers(batch)),
           NEW i \in DOMAIN batch, NEW k \in DOMAIN batch[i].nullifiers,
           NEW j \in DOMAIN batch, NEW l \in DOMAIN batch[j].nullifiers,
           batch[i].nullifiers[k] = batch[j].nullifiers[l]
    PROVE  i = j /\ k = l
<1> DEFINE lists == [n \in DOMAIN batch |-> batch[n].nullifiers]
           S == UNION {Range(batch[n].nullifiers) : n \in DOMAIN batch}
           flat == FlattenSeq(lists)
<1>1. Len(batch) \in Nat /\ DOMAIN batch = 1..Len(batch)
  BY ListShape DEF IsList
<1>2. \A n \in DOMAIN batch : batch[n].nullifiers \in Seq(S)
  <2> SUFFICES ASSUME NEW n \in DOMAIN batch PROVE batch[n].nullifiers \in Seq(S)
    OBVIOUS
  <2> DEFINE own == batch[n].nullifiers
  <2>1. own \in Seq(Range(own)) BY DEF IsTransition, IsList
  <2>2. Range(own) \subseteq S OBVIOUS
  <2> HIDE DEF own, S
  <2>3. own \in Seq(S)
    <3>1. /\ Len(own) \in Nat /\ own = [m \in 1..Len(own) |-> own[m]]
          /\ \A m \in 1..Len(own) : own[m] \in Range(own)
      BY <2>1, ListShape
    <3> QED BY <2>2, <3>1
  <2> QED BY <2>3 DEF own
<1> HIDE DEF S
<1>3. lists \in Seq(Seq(S)) /\ Len(lists) = Len(batch)
  <2>1. lists \in [1..Len(batch) -> Seq(S)] BY <1>1, <1>2
  <2> HIDE DEF lists
  <2> QED BY <1>1, <2>1, FunctionIsListOf
<1>4. flat \in Seq(S) BY <1>3, FlattenedType
<1>5. Cardinality({flat[n] : n \in DOMAIN flat}) = Len(flat)
  <2>1. flat = Nullifiers(batch) BY DEF Nullifiers
  <2> HIDE DEF flat
  <2> QED BY <2>1 DEF HasDuplicates
<1>6. \A n, m \in 1..Len(flat) : flat[n] = flat[m] => n = m
  <2> HIDE DEF flat
  <2> QED BY <1>4, <1>5, NoneRepeated
<1>7. /\ i \in 1..Len(lists) /\ lists[i] = batch[i].nullifiers /\ k \in 1..Len(lists[i])
      /\ j \in 1..Len(lists) /\ lists[j] = batch[j].nullifiers /\ l \in 1..Len(lists[j])
  <2>1. lists[i] = batch[i].nullifiers /\ lists[j] = batch[j].nullifiers OBVIOUS
  <2>2. DOMAIN batch[i].nullifiers = 1..Len(batch[i].nullifiers) BY <1>2, ListShape
  <2>3. DOMAIN batch[j].nullifiers = 1..Len(batch[j].nullifiers) BY <1>2, ListShape
  <2> HIDE DEF lists
  <2> QED BY <1>1, <1>3, <2>1, <2>2, <2>3
<1> HIDE DEF lists
<1> DEFINE p == Before(lists, i) + k
           q == Before(lists, j) + l
<1>8. p \in 1..Len(flat) /\ flat[p] = lists[i][k] BY <1>3, <1>7, FlattenedItem
<1>9. q \in 1..Len(flat) /\ flat[q] = lists[j][l] BY <1>3, <1>7, FlattenedItem
<1>10. p = q
  <2> HIDE DEF flat, p, q
  <2> QED BY <1>6, <1>7, <1>8, <1>9
<1>11. ~(i < j)
  <2> SUFFICES ASSUME i < j PROVE FALSE OBVIOUS
  <2>1. p < q BY <1>3, <1>7, PlacesApart
  <2>2. p \in Int /\ q \in Int BY <1>8, <1>9
  <2> HIDE DEF p, q
  <2> QED BY <1>10, <2>1, <2>2
<1>12. ~(j < i)
  <2> SUFFICES ASSUME j < i PROVE FALSE OBVIOUS
  <2>1. q < p BY <1>3, <1>7, PlacesApart
  <2>2. p \in Int /\ q \in Int BY <1>8, <1>9
  <2> HIDE DEF p, q
  <2> QED BY <1>10, <2>1, <2>2
<1>13. i = j BY <1>1, <1>11, <1>12
<1>14. Before(lists, i) \in Nat /\ k \in Nat /\ l \in Nat
  <2>1. Before(lists, i) \in Nat BY <1>3, <1>7, JoinedItems
  <2> QED BY <1>7, <2>1
<1> QED BY <1>10, <1>13, <1>14

\* Sums that balance are those of transitions that create nothing together.
LEMMA SumsOfDifferences ==
    ASSUME NEW batch, IsList(batch), \A i \in DOMAIN batch : IsTransition(batch[i]),
           SumsBalance(Sums(batch))
    PROVE  TotalOf([i \in DOMAIN batch |-> batch[i].input - batch[i].output - batch[i].fee]) = 0
<1> DEFINE in == [i \in DOMAIN batch |-> batch[i].input]
           out == [i \in DOMAIN batch |-> batch[i].output]
           fees == [i \in DOMAIN batch |-> batch[i].fee]
           moved == [i \in DOMAIN batch |-> batch[i].input - batch[i].output]
           kept == [i \in DOMAIN batch |-> batch[i].input - batch[i].output - batch[i].fee]
           n == Len(batch)
<1>1. n \in Nat /\ DOMAIN batch = 1..n
  BY ListShape DEF IsList
<1>2. \A i \in 1..n : batch[i].input \in Int /\ batch[i].output \in Int /\ batch[i].fee \in Int
  BY <1>1 DEF IsTransition
<1> HIDE DEF n
<1>3. \A i \in 1..n : /\ in[i] \in Int /\ out[i] \in Int /\ fees[i] \in Int
                      /\ moved[i] \in Int /\ moved[i] = in[i] - out[i]
                      /\ kept[i] \in Int /\ kept[i] = moved[i] - fees[i]
  BY <1>1, <1>2
<1>4. /\ in = [i \in 1..n |-> in[i]] /\ out = [i \in 1..n |-> out[i]]
      /\ fees = [i \in 1..n |-> fees[i]] /\ moved = [i \in 1..n |-> moved[i]]
      /\ kept = [i \in 1..n |-> kept[i]]
  BY <1>1
<1>5. /\ SumsBalance([input |-> TotalOf(in), output |-> TotalOf(out), fee |-> TotalOf(fees)])
  BY DEF Sums
<1>6. TotalOf(in) = TotalOf(out) + TotalOf(fees)
  <2> HIDE DEF in, out, fees
  <2> QED BY <1>5 DEF SumsBalance
<1> HIDE DEF in, out, fees, moved, kept
<1>7. /\ in \in Seq(Int) /\ Len(in) = n /\ out \in Seq(Int) /\ Len(out) = n
      /\ fees \in Seq(Int) /\ Len(fees) = n /\ moved \in Seq(Int) /\ Len(moved) = n
      /\ kept \in Seq(Int) /\ Len(kept) = n
  <2>1. in \in [1..n -> Int] /\ out \in [1..n -> Int] /\ fees \in [1..n -> Int]
    BY <1>3, <1>4
  <2>2. moved \in [1..n -> Int] /\ kept \in [1..n -> Int]
    BY <1>3, <1>4
  <2> QED BY <1>1, <2>1, <2>2
<1>8. TotalOf(moved) = TotalOf(in) - TotalOf(out)
  <2>1. /\ moved \in Seq(Int) /\ in \in Seq(Int) /\ out \in Seq(Int)
        /\ Len(moved) = Len(in) /\ Len(moved) = Len(out)
        /\ \A i \in 1..Len(moved) : moved[i] = in[i] - out[i]
    BY <1>3, <1>7
  <2> QED BY <2>1, TotalOfDifferences
<1>9. TotalOf(kept) = TotalOf(moved) - TotalOf(fees)
  <2>1. /\ kept \in Seq(Int) /\ moved \in Seq(Int) /\ fees \in Seq(Int)
        /\ Len(kept) = Len(moved) /\ Len(kept) = Len(fees)
        /\ \A i \in 1..Len(kept) : kept[i] = moved[i] - fees[i]
    BY <1>3, <1>7
  <2> QED BY <2>1, TotalOfDifferences
<1>10. TotalOf(in) \in Int /\ TotalOf(out) \in Int /\ TotalOf(fees) \in Int
  BY <1>7, TotalOfType
<1>11. TotalOf(kept) = 0
  BY <1>6, <1>8, <1>9, <1>10
<1> QED BY <1>11 DEF kept

\* A batch that is being evaluated has the form the normaliser demands, and a verdict on
\* it is hashed with it.
BatchesHold ==
    /\ examined # None /\ examined.kind = "aggregation" => IsAggregationModel(examined)
    /\ judgement # None /\ judgement.of.kind = "aggregation" =>
          /\ IsAggregationModel(judgement.of)
          /\ judgement.verdict = AggregationVerdict(judgement.of)
          /\ judgement.hash = Digest("aggregation-validity",
                                     AggregationPreimage(judgement.of, judgement.verdict))

LEMMA BatchStep == BatchesHold /\ [JudgementNext]_judgementVars => BatchesHold'
<1> SUFFICES ASSUME BatchesHold, [JudgementNext]_judgementVars PROVE BatchesHold'
  OBVIOUS
<1> USE DEF BatchesHold
<1>1. CASE examined' = examined /\ judgement' = judgement
  BY <1>1
<1>2. ASSUME EvaluatePolicy \/ EvaluateConservation PROVE BatchesHold'
  BY <1>2 DEF EvaluatePolicy, EvaluateConservation, Judged
<1>3. ASSUME BeginEvaluate PROVE BatchesHold'
  BY <1>3 DEF BeginEvaluate
<1>4. ASSUME FinishEvaluate PROVE BatchesHold'
  <2>1. CASE examined.kind = "validity"
    <3>1. judgement'.of.kind = "validity" /\ examined' = None
      BY <1>4, <2>1 DEF FinishEvaluate, Judged
    <3> QED BY <3>1
  <2>2. CASE examined.kind # "validity"
    <3> DEFINE verdict == AggregationVerdict(examined)
    <3>1. /\ judgement'.of = examined /\ judgement'.verdict = verdict
          /\ judgement'.hash = Digest("aggregation-validity", AggregationPreimage(examined, verdict))
          /\ examined' = None
      BY <1>4, <2>2 DEF FinishEvaluate, Judged
    <3>2. examined # None BY <1>4 DEF FinishEvaluate
    <3> HIDE DEF verdict
    <3> QED BY <3>1, <3>2 DEF verdict
  <2> QED BY <2>1, <2>2
<1>5. \/ examined' = examined /\ judgement' = judgement
      \/ EvaluatePolicy \/ EvaluateConservation \/ BeginEvaluate \/ FinishEvaluate
  BY DEF JudgementNext, BuildPolicy, BuildConservation, BeginValidity, BeginAggregation,
         EditAsked, FinishValidity, RootDerived, FinishAggregation, AlterStored, judgementVars
<1> QED
  BY <1>1, <1>2, <1>3, <1>4, <1>5

\* For every batch, edit and alteration: an accepted batch spends no nullifier twice, creates
\* no value, shows the public values of its own transitions and is hashed with them.
THEOREM AcceptedBatchesAreSound == JudgementSpec => []AcceptedBatchIsSound
<1>1. JudgementInit => BatchesHold
  BY DEF JudgementInit, BatchesHold
<1>2. BatchesHold => AcceptedBatchIsSound
  <2> DEFINE model == judgement.of
             batch == model.transitions
             spends == UNION {{i} \X DOMAIN batch[i].nullifiers : i \in DOMAIN batch}
             nullifier(spend) == batch[spend[1]].nullifiers[spend[2]]
  <2> SUFFICES ASSUME BatchesHold, judgement # None, model.kind = "aggregation",
                      judgement.verdict.accepted
               PROVE  /\ \A s, t \in spends : nullifier(s) = nullifier(t) => s = t
                      /\ TotalOf([i \in DOMAIN batch |->
                                     batch[i].input - batch[i].output - batch[i].fee]) = 0
                      /\ \A i \in DOMAIN batch : batch[i].valid
                      /\ model.publicRoot.content = Outputs(batch)
                      /\ model.publicBind.content.ids = [i \in DOMAIN batch |-> batch[i].id]
                      /\ model.aggregator \cap AggregatorPowers = {}
                      /\ judgement.hash.content.transitions = batch
    BY DEF AcceptedBatchIsSound
  <2>1. /\ IsList(batch) /\ \A i \in DOMAIN batch : IsTransition(batch[i])
        /\ judgement.verdict = AggregationVerdict(model)
        /\ judgement.hash = Digest("aggregation-validity", AggregationPreimage(model, judgement.verdict))
    BY DEF BatchesHold, IsAggregationModel
  <2>2. /\ EveryTransitionValid(batch) /\ ~HasDuplicates(Nullifiers(batch))
        /\ SumsBalance(Sums(batch))
        /\ model.publicRoot = OutputRoot(Outputs(batch))
        /\ model.publicBind = BatchBind(batch, OutputRoot(Outputs(batch)))
        /\ TrustBoundaryHolds(model.aggregator)
    BY <2>1 DEF AggregationVerdict
  <2>3. \A s, t \in spends : nullifier(s) = nullifier(t) => s = t
    <3> SUFFICES ASSUME NEW s \in spends, NEW t \in spends, nullifier(s) = nullifier(t)
                 PROVE  s = t
      OBVIOUS
    <3>1. PICK i \in DOMAIN batch : s \in {i} \X DOMAIN batch[i].nullifiers OBVIOUS
    <3>2. PICK j \in DOMAIN batch : t \in {j} \X DOMAIN batch[j].nullifiers OBVIOUS
    <3>3. /\ s = <<i, s[2]>> /\ s[1] = i /\ s[2] \in DOMAIN batch[i].nullifiers
          /\ t = <<j, t[2]>> /\ t[1] = j /\ t[2] \in DOMAIN batch[j].nullifiers
      BY <3>1, <3>2
    <3>4. batch[i].nullifiers[s[2]] = batch[j].nullifiers[t[2]] BY <3>3
    <3> HIDE DEF batch
    <3>5. i = j /\ s[2] = t[2] BY <2>1, <2>2, <3>3, <3>4, NullifiersAreApart
    <3> QED BY <3>3, <3>5
  <2>4. TotalOf([i \in DOMAIN batch |-> batch[i].input - batch[i].output - batch[i].fee]) = 0
    <3> HIDE DEF batch
    <3> QED BY <2>1, <2>2, SumsOfDifferences
  <2>5. \A i \in DOMAIN batch : batch[i].valid BY <2>2 DEF EveryTransitionValid
  <2>6. /\ model.publicRoot.content = Outputs(batch)
        /\ model.publicBind.content.ids = [i \in DOMAIN batch |-> batch[i].id]
    BY <2>2 DEF OutputRoot, BatchBind, Digest
  <2>7. model.aggregator \cap AggregatorPowers = {}
    BY <2>2 DEF TrustBoundaryHolds, AggregatorPowers
  <2>8. judgement.hash.content.transitions = batch
    BY <2>1 DEF AggregationPreimage, Digest
  <2> QED BY <2>3, <2>4, <2>5, <2>6, <2>7, <2>8
<1> QED
  BY <1>1, <1>2, BatchStep, PTL DEF JudgementSpec

(***************************************************************************)
(* A master root stands for a tuple that was shown, for every set of notes *)
(* and epochs and whatever is put into the arguments in between.           *)
(*                                                                         *)
(* The property is about the last answers.  It follows from what each      *)
(* record on the way owes to the one it was hashed from: a lane root is    *)
(* that of its own tuple, a master root that of the lane root next to it,  *)
(* and the hash awaited is that of the tuple that was shown.               *)
(***************************************************************************)

RootsHold ==
    /\ lane # None => lane.laneRoot = LaneRootHash(lane.tuple)
    /\ master # None => master.masterRoot = MasterRootHash(master.lanes[1].laneRoot)
    /\ hashing # None => hashing.expected = LaneRootHash(hashing.shown)
    /\ MasterRootIsBacked

\* What a master root says, read back from the digest.
LEMMA MasterRootNamesItsTuple ==
    ASSUME NEW tuple
    PROVE  MasterRootHash(LaneRootHash(tuple)).content.lanes[1].laneRoot.content = tuple
  BY DEF MasterRootHash, MasterRootSet, LaneRootHash, Digest

LEMMA RootStep == RootsHold /\ [LaneNext]_laneVars => RootsHold'
<1> SUFFICES ASSUME RootsHold, [LaneNext]_laneVars PROVE RootsHold'
  OBVIOUS
<1> USE DEF RootsHold, MasterRootIsBacked
\* The tree: no root of a lane is touched.
<1>1. ASSUME NEW note, AppendNote(note) PROVE RootsHold'
  BY <1>1 DEF AppendNote
<1>2. ASSUME NEW index, NEW note, OverwriteLeaf(index, note) PROVE RootsHold'
  BY <1>2 DEF OverwriteLeaf
<1>3. ASSUME BeginRoot PROVE RootsHold'
  BY <1>3 DEF BeginRoot
<1>4. ASSUME DigestParent PROVE RootsHold'
  BY <1>4 DEF DigestParent
\* The lane.
<1>5. ASSUME NEW tuple, BuildLaneRoot(tuple) PROVE RootsHold'
  <2>1. lane'.laneRoot = LaneRootHash(lane'.tuple)
    BY <1>5 DEF BuildLaneRoot, BuiltLane
  <2> QED
    BY <1>5, <2>1 DEF BuildLaneRoot
<1>6. ASSUME NEW tuple, BuildMasterRoot(tuple) PROVE RootsHold'
  <2>1. master'.masterRoot = MasterRootHash(master'.lanes[1].laneRoot)
    BY <1>6 DEF BuildMasterRoot, BuiltMaster, BuiltLane
  <2> QED
    BY <1>6, <2>1 DEF BuildMasterRoot
<1>7. ASSUME NEW laneRoot, BeginMasterHash(laneRoot) PROVE RootsHold'
  BY <1>7 DEF BeginMasterHash
<1>8. ASSUME NEW laneRoot, ReplaceArguments(laneRoot) PROVE RootsHold'
  <2>1. hashing'.expected = hashing.expected /\ hashing'.shown = hashing.shown
    BY <1>8 DEF ReplaceArguments
  <2> QED
    BY <1>8, <2>1 DEF ReplaceArguments
\* The answer is thrown away unless the lane root read now is the hash awaited.
<1>9. ASSUME FinishMasterHash PROVE RootsHold'
  <2>1. CASE hashing.arguments.laneRoot = hashing.expected
    <3>1. masterHash'.hash = MasterRootHash(LaneRootHash(hashing.shown))
          /\ masterHash'.shown = hashing.shown
      BY <1>9, <2>1 DEF FinishMasterHash
    <3> QED
      BY <1>9, <3>1, MasterRootNamesItsTuple DEF FinishMasterHash
  <2>2. CASE hashing.arguments.laneRoot # hashing.expected
    BY <1>9, <2>2 DEF FinishMasterHash
  <2> QED
    BY <2>1, <2>2
\* Equal lane roots are those of one tuple, so the summary need not hash again.
<1>10. ASSUME Summarise PROVE RootsHold'
  <2>1. summary'.masterRoot = MasterRootHash(LaneRootHash(lane.tuple))
        /\ summary'.tuple = lane.tuple
    BY <1>10 DEF Summarise
  <2> QED
    BY <1>10, <2>1, MasterRootNamesItsTuple DEF Summarise
<1>11. CASE UNCHANGED laneVars
  BY <1>11 DEF laneVars
<1> QED
  BY <1>1, <1>2, <1>3, <1>4, <1>5, <1>6, <1>7, <1>8, <1>9, <1>10, <1>11 DEF LaneNext

\* For every tree, epoch and edit: the master root of a summary commits to the tuple
\* the summary prints, and apntMasterRootHashV0 to the tuple it was called with.
THEOREM MasterRootsAreBacked == LaneSpec => []MasterRootIsBacked
<1>1. LaneInit => RootsHold
  BY DEF LaneInit, RootsHold, MasterRootIsBacked
<1>2. RootsHold => MasterRootIsBacked
  BY DEF RootsHold
<1> QED
  BY <1>1, <1>2, RootStep, PTL DEF LaneSpec

(***************************************************************************)
(* A note root is that of the snapshot noteTreeRootV0 was called with, for *)
(* every depth, every list of notes and every edit while it waits: at any  *)
(* time the level it works on is a level of the tree over that snapshot,   *)
(* and its parents are the first nodes of the next.                        *)
(***************************************************************************)

AreCapacities(capacity, last) ==
    capacity = [depth \in 0..last |-> IF depth = 0 THEN 1 ELSE 2 * capacity[depth - 1]]

LEMMA CapacitiesExist == \A last \in Nat : \E capacity : AreCapacities(capacity, last)
<1> DEFINE S == {last \in Nat : \E capacity : AreCapacities(capacity, last)}
<1>1. 0 \in S
  <2> DEFINE g == [depth \in 0..0 |-> 1]
  <2>1. AreCapacities(g, 0) BY DEF AreCapacities
  <2> QED BY <2>1
<1>2. ASSUME NEW last \in Nat, last \in S PROVE last + 1 \in S
  <2>1. PICK capacity : AreCapacities(capacity, last) BY <1>2
  <2> DEFINE g == [depth \in 0..(last + 1) |->
                      IF depth = last + 1 THEN 2 * capacity[last] ELSE capacity[depth]]
  <2>2. \A depth \in 0..last : capacity[depth] = IF depth = 0 THEN 1 ELSE 2 * capacity[depth - 1]
    BY <2>1 DEF AreCapacities
  <2>3. \A depth \in 0..(last + 1) : g[depth] = IF depth = 0 THEN 1 ELSE 2 * g[depth - 1]
    <3> SUFFICES ASSUME NEW depth \in 0..(last + 1)
                 PROVE  g[depth] = IF depth = 0 THEN 1 ELSE 2 * g[depth - 1]
      OBVIOUS
    <3>1. CASE depth = last + 1 BY <3>1
    <3>2. CASE depth \in 0..last
      <4>1. g[depth] = capacity[depth] BY <3>2
      <4>2. depth # 0 => g[depth - 1] = capacity[depth - 1] BY <3>2
      <4> QED BY <2>2, <3>2, <4>1, <4>2
    <3> QED BY <3>1, <3>2
  <2>4. AreCapacities(g, last + 1) BY <2>3 DEF AreCapacities
  <2> QED BY <2>4
<1> HIDE DEF S
<1>3. \A last \in Nat : last \in S BY <1>1, <1>2, Induction
<1> QED BY <1>3 DEF S

\* A tree has one node at the top, and every level twice as many as the one above it.
LEMMA CapacityOfDepths ==
    /\ CapacityForDepth[0] = 1
    /\ \A depth \in 1..TreeDepth : CapacityForDepth[depth] = 2 * CapacityForDepth[depth - 1]
    /\ \A depth \in 0..TreeDepth : /\ CapacityForDepth[depth] \in Nat \ {0}
                                   /\ depth # 0 => CapacityForDepth[depth] > 1
<1> DEFINE f == CHOOSE capacity : AreCapacities(capacity, TreeDepth)
<1>1. CapacityForDepth = f BY DEF CapacityForDepth, AreCapacities
<1>2. TreeDepth \in Nat BY LaneAssumption
<1>3. AreCapacities(f, TreeDepth) BY <1>2, CapacitiesExist
<1> HIDE DEF f
<1>4. f[0] = 1 /\ \A depth \in 1..TreeDepth : f[depth] = 2 * f[depth - 1]
  BY <1>2, <1>3 DEF AreCapacities
<1> DEFINE T == {depth \in Nat : depth <= TreeDepth =>
                    f[depth] \in Nat \ {0} /\ (depth # 0 => f[depth] > 1)}
<1>5. 0 \in T BY <1>4
<1>6. ASSUME NEW depth \in Nat, depth \in T PROVE depth + 1 \in T
  <2> SUFFICES ASSUME depth + 1 <= TreeDepth
               PROVE  f[depth + 1] \in Nat \ {0} /\ f[depth + 1] > 1
    OBVIOUS
  <2>1. depth + 1 \in 1..TreeDepth /\ (depth + 1) - 1 = depth BY <1>2
  <2>2. f[depth + 1] = 2 * f[depth] BY <1>4, <2>1
  <2>3. f[depth] \in Nat \ {0}
    <3>1. depth <= TreeDepth BY <1>2
    <3>2. depth <= TreeDepth => f[depth] \in Nat \ {0} BY <1>6
    <3> QED BY <3>1, <3>2
  <2> HIDE DEF T
  <2> QED BY <2>2, <2>3
<1>7. \A depth \in Nat : depth \in T
  <2> HIDE DEF T
  <2> QED BY <1>5, <1>6, Induction
<1>8. \A depth \in 0..TreeDepth : f[depth] \in Nat \ {0} /\ (depth # 0 => f[depth] > 1)
  BY <1>2, <1>7
<1> QED BY <1>1, <1>4, <1>8

AreLevels(nodes, notes, last) ==
    nodes = [height \in 0..last |->
                [position \in 1..CapacityForDepth[TreeDepth - height] |->
                    IF height = 0 THEN Padded(notes)[position]
                    ELSE Parent(nodes[height - 1][2 * position - 1],
                                nodes[height - 1][2 * position])]]

LEMMA LevelsExist ==
    ASSUME NEW notes
    PROVE  \A last \in Nat : \E nodes : AreLevels(nodes, notes, last)
<1> DEFINE S == {last \in Nat : \E nodes : AreLevels(nodes, notes, last)}
           Level(nodes, height) ==
               [position \in 1..CapacityForDepth[TreeDepth - height] |->
                   IF height = 0 THEN Padded(notes)[position]
                   ELSE Parent(nodes[height - 1][2 * position - 1], nodes[height - 1][2 * position])]
<1>0. \A nodes, last : AreLevels(nodes, notes, last) <=>
                           nodes = [height \in 0..last |-> Level(nodes, height)]
  BY DEF AreLevels
<1>1. 0 \in S
  <2> DEFINE g == [height \in 0..0 |->
                      [position \in 1..CapacityForDepth[TreeDepth - height] |->
                          Padded(notes)[position]]]
  <2>1. \A height \in 0..0 : Level(g, height) =
            [position \in 1..CapacityForDepth[TreeDepth - height] |-> Padded(notes)[position]]
    OBVIOUS
  <2>2. g = [height \in 0..0 |-> Level(g, height)]
    <3> HIDE DEF Level
    <3> QED BY <2>1
  <2> HIDE DEF Level, g
  <2>3. AreLevels(g, notes, 0) BY <1>0, <2>2
  <2> QED BY <2>3
<1>2. ASSUME NEW last \in Nat, last \in S PROVE last + 1 \in S
  <2>1. PICK nodes : AreLevels(nodes, notes, last) BY <1>2
  <2> DEFINE top == Level(nodes, last + 1)
             g == [height \in 0..(last + 1) |-> IF height = last + 1 THEN top ELSE nodes[height]]
  <2>2. \A height \in 0..last : nodes[height] = Level(nodes, height)
    <3> HIDE DEF Level
    <3> QED BY <1>0, <2>1
  <2>3. ASSUME NEW height \in 0..(last + 1), NEW other, height # 0 => other[height - 1] = nodes[height - 1]
        PROVE  Level(other, height) = Level(nodes, height)
    BY <2>3
  <2> HIDE DEF Level
  <2>4. ASSUME NEW height \in 0..(last + 1) PROVE g[height] = Level(g, height)
    <3>1. height # 0 => g[height - 1] = nodes[height - 1] OBVIOUS
    <3>2. g[height] = Level(nodes, height) BY <2>2
    <3> HIDE DEF g
    <3>3. Level(g, height) = Level(nodes, height) BY <2>3, <3>1
    <3> QED BY <3>2, <3>3
  <2>5. g = [height \in 0..(last + 1) |-> Level(g, height)] BY <2>4
  <2> HIDE DEF g
  <2>6. AreLevels(g, notes, last + 1) BY <1>0, <2>5
  <2> QED BY <2>6
<1> HIDE DEF S
<1>3. \A last \in Nat : last \in S BY <1>1, <1>2, Induction
<1> QED BY <1>3 DEF S

\* The levels of the tree over a snapshot: its padded leaves, and parents above them.
LEMMA LevelsOfTree ==
    ASSUME NEW notes
    PROVE  /\ \A position \in 1..Capacity : TreeLevels(notes)[0][position] = Padded(notes)[position]
           /\ \A height \in 1..TreeDepth : \A position \in 1..CapacityForDepth[TreeDepth - height] :
                 TreeLevels(notes)[height][position] =
                     Parent(TreeLevels(notes)[height - 1][2 * position - 1],
                            TreeLevels(notes)[height - 1][2 * position])
<1> DEFINE f == CHOOSE nodes : AreLevels(nodes, notes, TreeDepth)
<1>1. TreeLevels(notes) = f BY DEF TreeLevels, AreLevels
<1>2. TreeDepth \in Nat BY LaneAssumption
<1>3. AreLevels(f, notes, TreeDepth) BY <1>2, LevelsExist
<1> HIDE DEF f
<1>4. \A height \in 0..TreeDepth : f[height] =
         [position \in 1..CapacityForDepth[TreeDepth - height] |->
             IF height = 0 THEN Padded(notes)[position]
             ELSE Parent(f[height - 1][2 * position - 1], f[height - 1][2 * position])]
  BY <1>3 DEF AreLevels
<1>5. \A position \in 1..Capacity : f[0][position] = Padded(notes)[position]
  <2>1. 0 \in 0..TreeDepth /\ TreeDepth - 0 = TreeDepth BY <1>2
  <2> QED BY <1>4, <2>1 DEF Capacity
<1>6. ASSUME NEW height \in 1..TreeDepth, NEW position \in 1..CapacityForDepth[TreeDepth - height]
      PROVE  f[height][position] = Parent(f[height - 1][2 * position - 1], f[height - 1][2 * position])
  <2>1. height \in 0..TreeDepth /\ height # 0 BY <1>2
  <2> QED BY <1>4, <2>1
<1> QED BY <1>1, <1>5, <1>6

\* Working on the level at a height, noteTreeRootV0 has digested the first parents.
WorksAt(rooted, height) ==
    LET nodes == TreeLevels(rooted.of)
    IN  /\ IsList(rooted.level) /\ Len(rooted.level) = CapacityForDepth[TreeDepth - height]
        /\ \A position \in 1..CapacityForDepth[TreeDepth - height] :
              rooted.level[position] = nodes[height][position]
        /\ IsList(rooted.parents)
        /\ Len(rooted.parents) < CapacityForDepth[TreeDepth - height - 1]
        /\ \A position \in 1..Len(rooted.parents) :
              rooted.parents[position] = nodes[height + 1][position]

SnapshotHolds ==
    /\ rooting # None =>
          /\ rooting = [level |-> rooting.level, parents |-> rooting.parents, of |-> rooting.of]
          /\ \E height \in 0..(TreeDepth - 1) : WorksAt(rooting, height)
    /\ NoteRootIsOneSnapshot

LEMMA PaddedLevel ==
    ASSUME NEW notes
    PROVE  IsList(Padded(notes)) /\ Len(Padded(notes)) = Capacity
<1>1. Capacity \in Nat BY CapacityOfDepths, LaneAssumption DEF Capacity
<1>2. Padded(notes) = [i \in 1..Capacity |-> Padded(notes)[i]] BY DEF Padded
<1> QED BY <1>1, <1>2, FunctionIsList DEF IsList

LEMMA BeginRootStep == SnapshotHolds /\ BeginRoot => SnapshotHolds'
<1> SUFFICES ASSUME SnapshotHolds, BeginRoot PROVE SnapshotHolds'
  OBVIOUS
<1>1. TreeDepth \in Nat BY LaneAssumption
<1>2. CASE TreeDepth = 0
  <2>1. noteRoot'.root = Padded(leaves)[1] /\ noteRoot'.of = leaves /\ rooting' = rooting
        /\ rooting = None
    BY <1>2 DEF BeginRoot
  <2>2. 1 \in 1..Capacity BY <1>2, CapacityOfDepths DEF Capacity
  <2>3. ReferenceRoot(leaves) = Padded(leaves)[1]
    BY <1>2, <2>2, LevelsOfTree DEF ReferenceRoot
  <2> QED
    BY <2>1, <2>3 DEF SnapshotHolds, NoteRootIsOneSnapshot
<1>3. CASE TreeDepth # 0
  <2>1. rooting' = [level |-> Padded(leaves), parents |-> <<>>, of |-> leaves]
        /\ noteRoot' = noteRoot
    BY <1>3 DEF BeginRoot
  <2>2. /\ IsList(Padded(leaves)) /\ Len(Padded(leaves)) = CapacityForDepth[TreeDepth - 0]
        /\ \A position \in 1..CapacityForDepth[TreeDepth - 0] :
              Padded(leaves)[position] = TreeLevels(leaves)[0][position]
    <3>1. TreeDepth - 0 = TreeDepth BY <1>1
    <3> QED BY <3>1, PaddedLevel, LevelsOfTree DEF Capacity
  <2>3. /\ IsList(<<>>) /\ Len(<<>>) < CapacityForDepth[TreeDepth - 0 - 1]
        /\ \A position \in 1..Len(<<>>) : <<>>[position] = TreeLevels(leaves)[0 + 1][position]
    <3>1. TreeDepth - 0 - 1 \in 0..TreeDepth BY <1>1, <1>3
    <3>2. CapacityForDepth[TreeDepth - 0 - 1] \in Nat \ {0} BY <3>1, CapacityOfDepths
    <3>3. IsList(<<>>) BY DEF IsList
    <3> QED BY <3>2, <3>3
  <2>4. WorksAt(rooting', 0) BY <2>1, <2>2, <2>3 DEF WorksAt
  <2>5. 0 \in 0..(TreeDepth - 1) BY <1>1, <1>3
  <2>6. rooting' = [level |-> rooting'.level, parents |-> rooting'.parents, of |-> rooting'.of]
    BY <2>1
  <2> QED
    BY <2>1, <2>4, <2>5, <2>6 DEF SnapshotHolds, NoteRootIsOneSnapshot
<1> QED BY <1>2, <1>3

LEMMA DigestParentStep == SnapshotHolds /\ DigestParent => SnapshotHolds'
<1> SUFFICES ASSUME SnapshotHolds, DigestParent PROVE SnapshotHolds'
  OBVIOUS
<1> DEFINE level == rooting.level
           done == rooting.parents
           parents == Append(done, Parent(level[2 * Len(done) + 1], level[2 * Len(done) + 2]))
           nodes == TreeLevels(rooting.of)
<1>1. TreeDepth \in Nat BY LaneAssumption
<1>2. rooting # None BY DEF DigestParent
<1>3. rooting = [level |-> level, parents |-> done, of |-> rooting.of]
  BY <1>2 DEF SnapshotHolds
<1>4. PICK height \in 0..(TreeDepth - 1) : WorksAt(rooting, height)
  BY <1>2 DEF SnapshotHolds
<1> DEFINE width == CapacityForDepth[TreeDepth - height]
           above == CapacityForDepth[TreeDepth - height - 1]
<1>5. /\ height \in Nat /\ height + 1 \in 1..TreeDepth /\ TreeDepth - height \in 1..TreeDepth
      /\ TreeDepth - height - 1 \in 0..TreeDepth /\ TreeDepth - (height + 1) = TreeDepth - height - 1
      /\ (height + 1) - 1 = height
  BY <1>1
<1>6. /\ width = 2 * above /\ above \in Nat \ {0}
      /\ TreeDepth - height - 1 # 0 => above > 1
  BY <1>5, CapacityOfDepths
<1>7. /\ IsList(level) /\ Len(level) = width
      /\ \A position \in 1..width : level[position] = nodes[height][position]
      /\ IsList(done) /\ Len(done) < above
      /\ \A position \in 1..Len(done) : done[position] = nodes[height + 1][position]
  BY <1>4 DEF WorksAt
<1>8. \A position \in 1..above :
         nodes[height + 1][position] =
             Parent(nodes[height][2 * position - 1], nodes[height][2 * position])
  BY <1>5, LevelsOfTree
<1>9. \/ /\ 2 * Len(parents) < Len(level)
         /\ rooting' = [rooting EXCEPT !.parents = parents] /\ noteRoot' = noteRoot
      \/ /\ 2 * Len(parents) = Len(level) /\ Len(parents) > 1
         /\ rooting' = [rooting EXCEPT !.level = parents, !.parents = <<>>] /\ noteRoot' = noteRoot
      \/ /\ 2 * Len(parents) = Len(level) /\ Len(parents) = 1
         /\ noteRoot' = [root |-> parents[1], of |-> rooting.of]
         /\ rooting' = None
  BY DEF DigestParent
<1>10. Len(done) \in Nat /\ DOMAIN done = 1..Len(done)
  BY <1>7, ListShape DEF IsList
<1>11. /\ IsList(parents) /\ Len(parents) = Len(done) + 1
       /\ \A position \in 1..(Len(done) + 1) : parents[position] = nodes[height + 1][position]
  <2> DEFINE n == Len(done)
             new == Parent(level[2 * n + 1], level[2 * n + 2])
  <2>1. n \in Nat /\ n + 1 \in 1..above /\ 2 * n + 1 \in 1..width /\ 2 * n + 2 \in 1..width
        /\ 2 * (n + 1) - 1 = 2 * n + 1 /\ 2 * (n + 1) = 2 * n + 2
    <3>1. n \in Nat /\ n < above BY <1>7, <1>10
    <3> HIDE DEF n, width, above
    <3> QED BY <1>6, <3>1
  <2>2. nodes[height + 1][n + 1] = Parent(nodes[height][2 * n + 1], nodes[height][2 * n + 2])
    <3> HIDE DEF n, nodes, above, width
    <3>1. nodes[height + 1][n + 1] =
             Parent(nodes[height][2 * (n + 1) - 1], nodes[height][2 * (n + 1)])
      BY <1>8, <2>1
    <3> QED BY <2>1, <3>1
  <2>3. level[2 * n + 1] = nodes[height][2 * n + 1] /\ level[2 * n + 2] = nodes[height][2 * n + 2]
    <3> HIDE DEF n, nodes, above, width, level
    <3> QED BY <1>7, <2>1
  <2>4. new = nodes[height + 1][n + 1] BY <2>2, <2>3
  <2>5. done \in Seq(Range(done)) BY <1>7 DEF IsList
  <2> HIDE DEF new, nodes, level, done
  <2>6. /\ Append(done, new) \in Seq(Range(Append(done, new)))
        /\ Len(Append(done, new)) = n + 1
        /\ \A k \in DOMAIN done : Append(done, new)[k] = done[k]
        /\ Append(done, new)[n + 1] = new
    BY <2>5, AppendedList
  <2>7. parents = Append(done, new) BY DEF new
  <2> HIDE DEF parents
  <2>8. \A position \in 1..(n + 1) : parents[position] = nodes[height + 1][position]
    <3> SUFFICES ASSUME NEW position \in 1..(n + 1)
                 PROVE  parents[position] = nodes[height + 1][position]
      OBVIOUS
    <3>1. CASE position = n + 1 BY <2>4, <2>6, <2>7, <3>1
    <3>2. CASE position # n + 1
      <4>1. position \in 1..n BY <2>1, <3>2
      <4>2. position \in DOMAIN done BY <1>10, <4>1
      <4> QED BY <1>7, <2>6, <2>7, <4>1, <4>2
    <3> QED BY <3>1, <3>2
  <2> QED BY <2>6, <2>7, <2>8 DEF IsList
<1> HIDE DEF level, done, parents, nodes, width, above
\* Nodes are left to be made on the level above.
<1>12. CASE /\ 2 * Len(parents) < Len(level)
            /\ rooting' = [rooting EXCEPT !.parents = parents] /\ noteRoot' = noteRoot
  <2>1. rooting' = [level |-> level, parents |-> parents, of |-> rooting.of]
    BY <1>3, <1>12
  <2>2. Len(parents) < above BY <1>6, <1>7, <1>10, <1>11, <1>12
  <2>3. WorksAt(rooting', height)
    BY <1>7, <1>11, <2>1, <2>2 DEF WorksAt, nodes, width, above
  <2>4. rooting' = [level |-> rooting'.level, parents |-> rooting'.parents, of |-> rooting'.of]
    BY <2>1
  <2> QED
    BY <1>12, <2>3, <2>4 DEF SnapshotHolds, NoteRootIsOneSnapshot
\* The level above is complete, and not the top.
<1>13. CASE /\ 2 * Len(parents) = Len(level) /\ Len(parents) > 1
            /\ rooting' = [rooting EXCEPT !.level = parents, !.parents = <<>>]
            /\ noteRoot' = noteRoot
  <2>1. rooting' = [level |-> parents, parents |-> <<>>, of |-> rooting.of]
    BY <1>3, <1>13
  <2>2. Len(parents) = above /\ above > 1 BY <1>6, <1>7, <1>10, <1>11, <1>13
  <2>3. TreeDepth - height - 1 # 0
    <3> SUFFICES ASSUME TreeDepth - height - 1 = 0 PROVE FALSE OBVIOUS
    <3>1. above = 1 BY CapacityOfDepths DEF above
    <3> QED BY <2>2, <3>1
  <2>4. height + 1 \in 0..(TreeDepth - 1) /\ TreeDepth - (height + 1) - 1 \in 0..TreeDepth
    BY <1>1, <1>5, <2>3
  <2>5. CapacityForDepth[TreeDepth - (height + 1) - 1] \in Nat \ {0}
    BY <2>4, CapacityOfDepths
  <2>6. /\ IsList(parents) /\ Len(parents) = CapacityForDepth[TreeDepth - (height + 1)]
        /\ \A position \in 1..CapacityForDepth[TreeDepth - (height + 1)] :
              parents[position] = nodes[height + 1][position]
    <3>1. CapacityForDepth[TreeDepth - (height + 1)] = above BY <1>5 DEF above
    <3>2. Len(done) + 1 = above BY <1>11, <2>2
    <3> QED BY <1>11, <2>2, <3>1, <3>2
  <2>7. IsList(<<>>) /\ Len(<<>>) = 0 BY DEF IsList
  <2>8. WorksAt(rooting', height + 1)
    BY <2>1, <2>5, <2>6, <2>7 DEF WorksAt, nodes
  <2>9. rooting' = [level |-> rooting'.level, parents |-> rooting'.parents, of |-> rooting'.of]
    BY <2>1
  <2> QED
    BY <1>13, <2>4, <2>8, <2>9 DEF SnapshotHolds, NoteRootIsOneSnapshot
\* The only node of the top is the root.
<1>14. CASE /\ 2 * Len(parents) = Len(level) /\ Len(parents) = 1
            /\ noteRoot' = [root |-> parents[1], of |-> rooting.of]
            /\ rooting' = None
  <2>1. above = 1 /\ Len(done) = 0
    <3>1. 2 * 1 = 2 * above BY <1>6, <1>7, <1>14
    <3>2. above = 1 BY <1>6, <3>1
    <3>3. Len(done) + 1 = 1 BY <1>11, <1>14
    <3> QED BY <1>10, <3>2, <3>3
  <2>2. height + 1 = TreeDepth BY <1>1, <1>5, <1>6, <2>1
  <2>3. parents[1] = nodes[height + 1][1] BY <1>11, <2>1
  <2>4. parents[1] = ReferenceRoot(rooting.of) BY <2>2, <2>3 DEF ReferenceRoot, nodes
  <2> QED
    BY <1>14, <2>4 DEF SnapshotHolds, NoteRootIsOneSnapshot
<1> QED
  BY <1>9, <1>12, <1>13, <1>14

LEMMA SnapshotStep == SnapshotHolds /\ [LaneNext]_laneVars => SnapshotHolds'
<1> SUFFICES ASSUME SnapshotHolds, [LaneNext]_laneVars PROVE SnapshotHolds'
  OBVIOUS
<1>1. CASE rooting' = rooting /\ noteRoot' = noteRoot
  BY <1>1 DEF SnapshotHolds, NoteRootIsOneSnapshot, WorksAt
<1>2. BeginRoot => SnapshotHolds' BY BeginRootStep
<1>3. DigestParent => SnapshotHolds' BY DigestParentStep
<1>4. BeginRoot \/ DigestParent \/ (rooting' = rooting /\ noteRoot' = noteRoot)
  BY DEF LaneNext, laneVars, AppendNote, OverwriteLeaf, BuildLaneRoot, BuildMasterRoot,
         BeginMasterHash, ReplaceArguments, FinishMasterHash, Summarise
<1> QED
  BY <1>1, <1>2, <1>3, <1>4

\* For every depth, note and edit: a note root is the top of the tree over the snapshot it
\* was asked of, and a master root commits to the tuple it is shown with.
THEOREM RootsAreAlwaysBacked == LaneSpec => []RootsAreBacked
<1>1. LaneInit => SnapshotHolds
  BY DEF LaneInit, SnapshotHolds, NoteRootIsOneSnapshot
<1>2. SnapshotHolds => NoteRootIsOneSnapshot
  BY DEF SnapshotHolds
<1>3. NoteRootIsOneSnapshot /\ MasterRootIsBacked => RootsAreBacked
  BY DEF RootsAreBacked
<1> QED
  BY <1>1, <1>2, <1>3, SnapshotStep, MasterRootsAreBacked, PTL DEF LaneSpec

(***************************************************************************)
(* Published carriers can be relayed, for every payload length, number of  *)
(* carriers, carrier value and fee.                                        *)
(*                                                                         *)
(* The property needs that the accounting in hand is the one made for the  *)
(* bin the output commits to: it is made once, together with the draft,    *)
(* and an output is only published when it came out as funded.             *)
(***************************************************************************)

\* What CarriersArePaid says of the accounting of a bin.
LeastValue(payload) ==
    LET length == payload + (IF payload > 75 THEN 4 ELSE 3)
        prefix == IF length > 252 THEN 3 ELSE 1
    IN  3 * (length + prefix + 156)
Pays(accounting, bin) ==
    /\ accounting.payload = bin.payload
    /\ accounting.carriers >= bin.count
    /\ accounting.value >= LeastValue(bin.payload)
    /\ accounting.status = "funded" =>
          accounting.available - accounting.fee - accounting.carriers * accounting.value
              >= accounting.minimum

Funded == funding # None /\ funding.status = "funded"

FundingHolds ==
    /\ unbound # None /\ funding # None =>
          Pays(funding, unbound.planeBPacketBinCommitment32.content)
    /\ slot # None => unbound # None
    /\ statement # None => unbound # None /\ Funded
    /\ output # None =>
          /\ unbound # None /\ Funded
          /\ output.planeBPacketBinCommitment32 = unbound.planeBPacketBinCommitment32

\* The code's lengths of a push and of its length prefix are those of the property,
\* up to the 255 bytes a carrier holds.
LEMMA DustIsLeastValue ==
    ASSUME NEW payload \in 1..255
    PROVE  DustMinimum(CarrierBytecodeLength(payload)) = LeastValue(payload)
  BY DEF DustMinimum, CarrierBytecodeLength, CompactSizeLength, LeastValue

\* More bins do not need fewer carriers.
LEMMA CountsMultiply ==
    ASSUME NEW count \in Nat, NEW bins \in Nat \ {0}
    PROVE  count * bins \in Nat /\ count * bins >= count
<1>1. PICK more \in Nat : bins = more + 1
  <2>1. bins - 1 \in Nat /\ bins = (bins - 1) + 1
    OBVIOUS
  <2> QED
    BY <2>1
<1>2. count * bins = count * more + count /\ count * more \in Nat
  BY <1>1
<1> QED
  BY <1>2

LEMMA AccountingPays ==
    ASSUME NEW bin, IsPacketBin(bin), NEW funds \in Funding, CarrierAccounting(bin, funds) # None
    PROVE  Pays(CarrierAccounting(bin, funds), bin)
<1> DEFINE dust == DustMinimum(CarrierBytecodeLength(bin.payload))
           value == IF funds.override = 0 THEN dust ELSE funds.override
           carriers == bin.count * funds.bins
           required == carriers * value + funds.fee + funds.minimum
           accounting == CarrierAccounting(bin, funds)
<1>1. /\ funds.override \in Nat /\ funds.bins \in Nat /\ funds.fee \in Nat
      /\ funds.available \in Nat /\ funds.minimum \in Nat
  BY FundingAssumption
<1>2. bin.payload \in 1..255 /\ funds.bins # 0 /\ ~(value < dust)
  BY DEF CarrierAccounting
<1>3. bin.count \in Nat
  BY DEF IsPacketBin
<1>4. dust = LeastValue(bin.payload) /\ dust \in Nat
  BY <1>2, DustIsLeastValue DEF LeastValue
<1>5. value \in Nat /\ value >= LeastValue(bin.payload)
  BY <1>1, <1>2, <1>4
<1>6. carriers \in Nat /\ carriers >= bin.count
  BY <1>1, <1>2, <1>3, CountsMultiply
<1>7. /\ accounting.payload = bin.payload /\ accounting.carriers = carriers
      /\ accounting.value = value /\ accounting.fee = funds.fee
      /\ accounting.minimum = funds.minimum /\ accounting.available = funds.available
      /\ accounting.status = "funded" => funds.available >= required
  BY DEF CarrierAccounting
<1>8. funds.available >= required =>
          funds.available - funds.fee - carriers * value >= funds.minimum
  <2>1. carriers * value \in Nat
    BY <1>5, <1>6
  <2> QED
    BY <1>1, <2>1
<1> HIDE DEF value, carriers, required, accounting
<1>9. Pays(accounting, bin)
  BY <1>5, <1>6, <1>7, <1>8 DEF Pays
<1> QED
  BY <1>9 DEF accounting

LEMMA OutputStep == FundingHolds /\ [OutputNext]_outputVars => FundingHolds'
<1> SUFFICES ASSUME FundingHolds, [OutputNext]_outputVars PROVE FundingHolds'
  OBVIOUS
<1> USE DEF FundingHolds, Funded
<1>1. ASSUME NEW batch \in Batches, NEW bin \in PacketBins, NEW funds \in Funding,
             DraftOutput(batch, bin, funds)
      PROVE  FundingHolds'
  <2>1. unbound'.planeBPacketBinCommitment32.content = bin
    BY <1>1 DEF DraftOutput, PacketBinCommitment, Digest
  <2>2. unbound' # None
    BY <1>1 DEF DraftOutput, None
  <2>3. funding' # None => Pays(funding', bin)
    BY <1>1, AccountingPays DEF DraftOutput
  <2>4. statement = None /\ output = None /\ statement' = statement /\ output' = output
    BY <1>1 DEF DraftOutput
  <2> QED
    BY <2>1, <2>2, <2>3, <2>4 DEF Pays
<1>2. ASSUME CommitStatement PROVE FundingHolds'
  BY <1>2 DEF CommitStatement, Pays
<1>3. ASSUME FillSlot PROVE FundingHolds'
  <2>1. output'.planeBPacketBinCommitment32 = unbound.planeBPacketBinCommitment32
    BY <1>3 DEF FillSlot
  <2> QED
    BY <1>3, <2>1 DEF FillSlot, Pays
<1>4. ASSUME NEW bytecode, ParseShown(bytecode) PROVE FundingHolds'
  BY <1>4 DEF ParseShown, Pays
<1>5. CASE UNCHANGED outputVars
  BY <1>5 DEF outputVars, Pays
<1> QED
  BY <1>1, <1>2, <1>3, <1>4, <1>5 DEF OutputNext

\* For every bin and every funding: a published output is paid for, and so is each of
\* its carriers, at three times the bytes it adds and will add when it is spent.
THEOREM CarriersAlwaysPaid == OutputSpec => []CarriersArePaid
<1>1. OutputInit => FundingHolds
  BY DEF OutputInit, FundingHolds
<1>2. FundingHolds => CarriersArePaid
  BY DEF FundingHolds, Funded, Pays, LeastValue, CarriersArePaid
<1> QED
  BY <1>1, <1>2, OutputStep, PTL DEF OutputSpec
-----------------------------------------------------------------------------
\* The bytecode of an output, unit by unit.

Contents(out) == <<Tag, Version0, out.transitionStatementBind32, out.consumedSealSetCommitment32,
                   out.newNoteBatchRoot32, out.planeBPacketBinCommitment32,
                   out.proofTranscriptBind32>>

FieldUnits(out) ==
    FlattenSeq([i \in DOMAIN FieldOrder |-> PushAndDrop(32, out[FieldOrder[i]])])

LEMMA FieldPushes ==
    ASSUME NEW S, NEW out,
           \A i \in 1..5 : PushAndDrop(32, out[FieldOrder[i]]) \in Seq(S)
    PROVE  /\ FieldUnits(out) \in Seq(S) /\ Len(FieldUnits(out)) = 15
           /\ \A i \in 1..5, k \in 1..3 :
                 FieldUnits(out)[3 * (i - 1) + k] = PushAndDrop(32, out[FieldOrder[i]])[k]
<1> DEFINE pushes == [i \in DOMAIN FieldOrder |-> PushAndDrop(32, out[FieldOrder[i]])]
           flat == FlattenSeq(pushes)
<1>1. DOMAIN FieldOrder = 1..5
  BY DEF FieldOrder
<1>2. pushes \in Seq(Seq(S)) /\ Len(pushes) = 5
  <2>1. pushes \in [1..5 -> Seq(S)] BY <1>1
  <2>2. 5 \in Nat OBVIOUS
  <2> HIDE DEF pushes
  <2> QED BY <2>1, <2>2, FunctionIsListOf
<1>3. \A i \in 1..5 : pushes[i] = PushAndDrop(32, out[FieldOrder[i]]) /\ Len(pushes[i]) = 3
  <2>1. \A i \in 1..5 : pushes[i] = PushAndDrop(32, out[FieldOrder[i]]) BY <1>1
  <2>2. \A i \in 1..5 : Len(PushAndDrop(32, out[FieldOrder[i]])) = 3 BY DEF PushAndDrop
  <2> QED BY <2>1, <2>2
<1> HIDE DEF pushes
<1>4. flat \in Seq(S) BY <1>2, FlattenedType
<1>5. /\ Len(flat) = Len(pushes) * 3
      /\ \A i \in 1..Len(pushes), k \in 1..3 : flat[(i - 1) * 3 + k] = pushes[i][k]
  <2>1. /\ 3 \in Nat /\ Len(pushes) # 0
        /\ \A i \in 1..Len(pushes) : Len(pushes[i]) = 3
    BY <1>2, <1>3
  <2>2. \A m \in Nat :
           (\A i \in 1..Len(pushes) : Len(pushes[i]) = m) =>
              /\ Len(flat) = Len(pushes) * m
              /\ \A i \in 1..Len(pushes), k \in 1..m : flat[(i - 1) * m + k] = pushes[i][k]
    <3> SUFFICES ASSUME NEW m \in Nat, \A i \in 1..Len(pushes) : Len(pushes[i]) = m
                 PROVE  /\ Len(flat) = Len(pushes) * m
                        /\ \A i \in 1..Len(pushes), k \in 1..m :
                              flat[(i - 1) * m + k] = pushes[i][k]
      OBVIOUS
    <3>1. Len(pushes) # 0 BY <2>1
    <3> QED BY <1>2, <3>1, JoinedRows
  <2> QED BY <2>1, <2>2
<1>6. Len(flat) = 15
  BY <1>2, <1>5
<1>7. ASSUME NEW i \in 1..5, NEW k \in 1..3
      PROVE  flat[3 * (i - 1) + k] = PushAndDrop(32, out[FieldOrder[i]])[k]
  <2>1. i \in 1..Len(pushes) BY <1>2
  <2>2. (i - 1) * 3 + k = 3 * (i - 1) + k OBVIOUS
  <2>3. flat[(i - 1) * 3 + k] = pushes[i][k] BY <1>5, <2>1
  <2> HIDE DEF flat
  <2> QED BY <1>3, <2>2, <2>3
<1>8. flat = FieldUnits(out)
  BY DEF FieldUnits, pushes
<1> HIDE DEF flat
<1> QED
  BY <1>4, <1>6, <1>7, <1>8

\* Seven pushes, each a length byte, its data and a drop, and a last opcode.
LEMMA BytecodeUnits ==
    ASSUME NEW out
    PROVE  /\ IsList(Bytecode(out)) /\ Len(Bytecode(out)) = 22
           /\ \A push \in 1..7 :
                 /\ Bytecode(out)[3 * push - 2] = LengthByte(PushSizes[push])
                 /\ Bytecode(out)[3 * push - 1] = Data(PushSizes[push], Contents(out)[push])
                 /\ Bytecode(out)[3 * push] = Opcode("OP_DROP")
           /\ Bytecode(out)[22] = Opcode("OP_1")
<1> DEFINE S == {LengthByte(20), LengthByte(1), LengthByte(32), Data(20, Tag), Data(1, Version0),
                 Opcode("OP_DROP"), Opcode("OP_1")}
                \cup {Data(32, out[FieldOrder[i]]) : i \in 1..5}
           tag == PushAndDrop(20, Tag)
           version == PushAndDrop(1, Version0)
           flat == FieldUnits(out)
           head == tag \o version
           body == head \o flat
           end == <<Opcode("OP_1")>>
           whole == body \o end
<1>1. /\ LengthByte(20) \in S /\ LengthByte(1) \in S /\ LengthByte(32) \in S
      /\ Data(20, Tag) \in S /\ Data(1, Version0) \in S
      /\ Opcode("OP_DROP") \in S /\ Opcode("OP_1") \in S
      /\ \A i \in 1..5 : Data(32, out[FieldOrder[i]]) \in S
  OBVIOUS
<1> HIDE DEF S
<1>2. /\ tag \in Seq(S) /\ Len(tag) = 3 /\ version \in Seq(S) /\ Len(version) = 3
      /\ end \in Seq(S) /\ Len(end) = 1 /\ end[1] = Opcode("OP_1")
      /\ \A i \in 1..5 : PushAndDrop(32, out[FieldOrder[i]]) \in Seq(S)
  BY <1>1 DEF PushAndDrop
<1>3. /\ tag[1] = LengthByte(20) /\ tag[2] = Data(20, Tag) /\ tag[3] = Opcode("OP_DROP")
      /\ version[1] = LengthByte(1) /\ version[2] = Data(1, Version0)
      /\ version[3] = Opcode("OP_DROP")
  BY DEF PushAndDrop
<1>4. /\ flat \in Seq(S) /\ Len(flat) = 15
      /\ \A i \in 1..5, k \in 1..3 :
            flat[3 * (i - 1) + k] = PushAndDrop(32, out[FieldOrder[i]])[k]
  <2>1. \A i \in 1..5 : PushAndDrop(32, out[FieldOrder[i]]) \in Seq(S) BY <1>2
  <2> QED BY <2>1, FieldPushes
<1>5. Bytecode(out) = whole
  BY DEF Bytecode, TagBytes, FieldUnits
<1> HIDE DEF tag, version, flat, end
<1>6. /\ head \in Seq(S) /\ Len(head) = 6
      /\ \A k \in 1..6 : head[k] = IF k <= 3 THEN tag[k] ELSE version[k - 3]
  <2>1. tag \in Seq(S) /\ version \in Seq(S) BY <1>2
  <2>2. /\ head \in Seq(S) /\ Len(head) = Len(tag) + Len(version)
        /\ \A k \in 1..(Len(tag) + Len(version)) :
              head[k] = IF k <= Len(tag) THEN tag[k] ELSE version[k - Len(tag)]
    BY <2>1, ConcatShape
  <2> QED BY <1>2, <2>2
<1> HIDE DEF head
<1>7. /\ body \in Seq(S) /\ Len(body) = 21
      /\ \A k \in 1..21 : body[k] = IF k <= 6 THEN head[k] ELSE flat[k - 6]
  <2>1. head \in Seq(S) /\ flat \in Seq(S) BY <1>4, <1>6
  <2>2. /\ body \in Seq(S) /\ Len(body) = Len(head) + Len(flat)
        /\ \A k \in 1..(Len(head) + Len(flat)) :
              body[k] = IF k <= Len(head) THEN head[k] ELSE flat[k - Len(head)]
    BY <2>1, ConcatShape
  <2>3. Len(head) = 6 /\ Len(flat) = 15 BY <1>4, <1>6
  <2>4. ASSUME NEW k \in 1..21 PROVE body[k] = IF k <= 6 THEN head[k] ELSE flat[k - 6]
    <3>1. k \in 1..(Len(head) + Len(flat)) BY <2>3
    <3> QED BY <2>2, <2>3, <3>1
  <2>5. Len(body) = 21 BY <2>2, <2>3
  <2> QED BY <2>2, <2>4, <2>5
<1> HIDE DEF body
<1>8. /\ whole \in Seq(S) /\ Len(whole) = 22
      /\ \A k \in 1..22 : whole[k] = IF k <= 21 THEN body[k] ELSE end[k - 21]
  <2>1. body \in Seq(S) /\ end \in Seq(S) BY <1>2, <1>7
  <2>2. /\ whole \in Seq(S) /\ Len(whole) = Len(body) + Len(end)
        /\ \A k \in 1..(Len(body) + Len(end)) :
              whole[k] = IF k <= Len(body) THEN body[k] ELSE end[k - Len(body)]
    BY <2>1, ConcatShape
  <2>3. Len(body) = 21 /\ Len(end) = 1 BY <1>2, <1>7
  <2>4. ASSUME NEW k \in 1..22 PROVE whole[k] = IF k <= 21 THEN body[k] ELSE end[k - 21]
    <3>1. k \in 1..(Len(body) + Len(end)) BY <2>3
    <3> QED BY <2>2, <2>3, <3>1
  <2>5. Len(whole) = 22 BY <2>2, <2>3
  <2> QED BY <2>2, <2>4, <2>5
<1> HIDE DEF whole
<1>9. whole[22] = Opcode("OP_1") BY <1>2, <1>8
<1>10. /\ whole[1] = LengthByte(20) /\ whole[2] = Data(20, Tag) /\ whole[3] = Opcode("OP_DROP")
       /\ whole[4] = LengthByte(1) /\ whole[5] = Data(1, Version0)
       /\ whole[6] = Opcode("OP_DROP")
  <2>1. \A k \in 1..6 : whole[k] = head[k]
    <3> SUFFICES ASSUME NEW k \in 1..6 PROVE whole[k] = head[k] OBVIOUS
    <3>1. k \in 1..22 /\ k <= 21 /\ k \in 1..21 /\ k <= 6 OBVIOUS
    <3>2. whole[k] = body[k] BY <1>8, <3>1
    <3>3. body[k] = head[k] BY <1>7, <3>1
    <3> QED BY <3>2, <3>3
  <2>2. /\ head[1] = tag[1] /\ head[2] = tag[2] /\ head[3] = tag[3]
        /\ head[4] = version[1] /\ head[5] = version[2] /\ head[6] = version[3]
    BY <1>6
  <2> QED BY <1>3, <2>1, <2>2
<1>11. \A i \in 1..5 : /\ whole[3 * i + 4] = LengthByte(32)
                       /\ whole[3 * i + 5] = Data(32, out[FieldOrder[i]])
                       /\ whole[3 * i + 6] = Opcode("OP_DROP")
  <2> SUFFICES ASSUME NEW i \in 1..5
               PROVE  /\ whole[3 * i + 4] = LengthByte(32)
                      /\ whole[3 * i + 5] = Data(32, out[FieldOrder[i]])
                      /\ whole[3 * i + 6] = Opcode("OP_DROP")
    OBVIOUS
  <2>1. \A k \in 1..3 : whole[3 * i + 3 + k] = flat[3 * (i - 1) + k]
    <3> SUFFICES ASSUME NEW k \in 1..3 PROVE whole[3 * i + 3 + k] = flat[3 * (i - 1) + k]
      OBVIOUS
    <3> DEFINE place == 3 * i + 3 + k
    <3>1. place \in 7..21 /\ place - 6 = 3 * (i - 1) + k OBVIOUS
    <3> HIDE DEF place
    <3>2. whole[place] = body[place]
      <4>1. place \in 1..22 /\ place <= 21 BY <3>1
      <4> QED BY <1>8, <4>1
    <3>3. body[place] = flat[place - 6]
      <4>1. place \in 1..21 /\ ~(place <= 6) BY <3>1
      <4> QED BY <1>7, <4>1
    <3> QED BY <3>1, <3>2, <3>3 DEF place
  <2>2. \A k \in 1..3 : flat[3 * (i - 1) + k] = PushAndDrop(32, out[FieldOrder[i]])[k]
    BY <1>4
  <2>3. \A k \in 1..3 : whole[3 * i + 3 + k] = PushAndDrop(32, out[FieldOrder[i]])[k]
    BY <2>1, <2>2
  <2>4. /\ PushAndDrop(32, out[FieldOrder[i]])[1] = LengthByte(32)
        /\ PushAndDrop(32, out[FieldOrder[i]])[2] = Data(32, out[FieldOrder[i]])
        /\ PushAndDrop(32, out[FieldOrder[i]])[3] = Opcode("OP_DROP")
    BY DEF PushAndDrop
  <2> QED BY <2>3, <2>4
<1>12. ASSUME NEW push \in 1..7
       PROVE  /\ whole[3 * push - 2] = LengthByte(PushSizes[push])
              /\ whole[3 * push - 1] = Data(PushSizes[push], Contents(out)[push])
              /\ whole[3 * push] = Opcode("OP_DROP")
  <2>1. CASE push = 1
    <3>1. PushSizes[1] = 20 /\ Contents(out)[1] = Tag BY DEF PushSizes, TagBytes, Contents
    <3> QED BY <1>10, <2>1, <3>1
  <2>2. CASE push = 2
    <3>1. PushSizes[2] = 1 /\ Contents(out)[2] = Version0 BY DEF PushSizes, Contents
    <3> QED BY <1>10, <2>2, <3>1
  <2>3. CASE push > 2
    <3>1. PICK i \in 1..5 : push = i + 2
      <4>1. push - 2 \in 1..5 /\ push = (push - 2) + 2 BY <2>3
      <4> QED BY <4>1
    <3>2. PushSizes[i + 2] = 32 BY DEF PushSizes
    <3>3. Contents(out)[i + 2] = out[FieldOrder[i]]
      <4>1. i = 1 \/ i = 2 \/ i = 3 \/ i = 4 \/ i = 5 OBVIOUS
      <4> QED BY <4>1 DEF Contents, FieldOrder
    <3>4. 3 * push - 2 = 3 * i + 4 /\ 3 * push - 1 = 3 * i + 5 /\ 3 * push = 3 * i + 6
      BY <3>1
    <3> HIDE DEF Contents, PushSizes
    <3> QED BY <1>11, <3>1, <3>2, <3>3, <3>4
  <2> QED BY <2>1, <2>2, <2>3
<1>13. IsList(whole)
  <2>1. whole = [i \in 1..22 |-> whole[i]] BY <1>8, ListShape
  <2> QED BY <2>1, FunctionIsList DEF IsList
<1> QED
  BY <1>5, <1>8, <1>9, <1>12, <1>13
\* Where a unit stands in its push.
LEMMA UnitOfPush ==
    ASSUME NEW i \in 1..22
    PROVE  i = 22 \/ \E push \in 1..7 : i \in {3 * push - 2, 3 * push - 1, 3 * push}
<1>1. \/ i \in {3 * 1 - 2, 3 * 1 - 1, 3 * 1} \/ i \in {3 * 2 - 2, 3 * 2 - 1, 3 * 2}
      \/ i \in {3 * 3 - 2, 3 * 3 - 1, 3 * 3} \/ i \in {3 * 4 - 2, 3 * 4 - 1, 3 * 4}
      \/ i \in {3 * 5 - 2, 3 * 5 - 1, 3 * 5} \/ i \in {3 * 6 - 2, 3 * 6 - 1, 3 * 6}
      \/ i \in {3 * 7 - 2, 3 * 7 - 1, 3 * 7} \/ i = 22
  OBVIOUS
<1> QED
  BY <1>1

\* The offset of a push: the tag takes 20 bytes, the version 1 and a digest 32.
FirstByte(push) == IF push = 1 THEN 0 ELSE IF push = 2 THEN 22 ELSE 25 + 34 * (push - 3)

LEMMA UnitOffsets ==
    ASSUME NEW out
    PROVE  /\ \A push \in 1..7 :
                 /\ OffsetOf(Bytecode(out), 3 * push - 2) = FirstByte(push)
                 /\ OffsetOf(Bytecode(out), 3 * push - 1) = FirstByte(push) + 1
                 /\ OffsetOf(Bytecode(out), 3 * push) = FirstByte(push) + 1 + PushSizes[push]
           /\ OffsetOf(Bytecode(out), 22) = 195
<1> DEFINE code == Bytecode(out)
           lengths == [i \in DOMAIN code |-> ByteLength(code[i])]
           start == RunningTotals(lengths)
<1>1. /\ IsList(code) /\ Len(code) = 22 /\ code[22] = Opcode("OP_1")
      /\ \A push \in 1..7 :
            /\ code[3 * push - 2] = LengthByte(PushSizes[push])
            /\ code[3 * push - 1] = Data(PushSizes[push], Contents(out)[push])
            /\ code[3 * push] = Opcode("OP_DROP")
  BY BytecodeUnits
<1>2. \A i : OffsetOf(code, i) = start[i - 1]
  BY DEF OffsetOf
<1> HIDE DEF code
<1>3. DOMAIN code = 1..22
  <2>1. code \in Seq(Range(code)) BY <1>1 DEF IsList
  <2> QED BY <1>1, <2>1, ListShape
<1>4. /\ lengths = [i \in 1..22 |-> lengths[i]]
      /\ \A i \in 1..22 : lengths[i] = ByteLength(code[i])
  BY <1>3
<1> HIDE DEF lengths
<1>5. Len(lengths) = 22
  <2>1. 22 \in Nat OBVIOUS
  <2> QED BY <1>4, <2>1, FunctionIsList
<1>6. start[0] = 0 /\ \A n \in 1..22 : start[n] = start[n - 1] + lengths[n]
  <2>1. Len(lengths) \in Nat BY <1>5
  <2> QED BY <1>5, <2>1, RunningTotalsStep
<1> HIDE DEF start
<1>7. ASSUME NEW push \in 1..7
      PROVE  /\ lengths[3 * push - 2] = 1
             /\ lengths[3 * push - 1] = PushSizes[push]
             /\ lengths[3 * push] = 1
  <2>1. 3 * push - 2 \in 1..22 /\ 3 * push - 1 \in 1..22 /\ 3 * push \in 1..22 OBVIOUS
  <2>2. ByteLength(code[3 * push - 2]) = 1 BY <1>1 DEF ByteLength, LengthByte
  <2>3. ByteLength(code[3 * push - 1]) = PushSizes[push] BY <1>1 DEF ByteLength, Data
  <2>4. ByteLength(code[3 * push]) = 1 BY <1>1 DEF ByteLength, Opcode
  <2> QED BY <1>4, <2>1, <2>2, <2>3, <2>4
<1>8. /\ PushSizes[1] = 20 /\ PushSizes[2] = 1 /\ PushSizes[3] = 32 /\ PushSizes[4] = 32
      /\ PushSizes[5] = 32 /\ PushSizes[6] = 32 /\ PushSizes[7] = 32
  BY DEF PushSizes, TagBytes
<1>9. \A push \in 1..7 : PushSizes[push] \in Nat
                         /\ FirstByte(push + 1) = FirstByte(push) + 1 + PushSizes[push] + 1
                         /\ FirstByte(push) \in Nat
  <2> SUFFICES ASSUME NEW push \in 1..7
               PROVE  PushSizes[push] \in Nat
                      /\ FirstByte(push + 1) = FirstByte(push) + 1 + PushSizes[push] + 1
                      /\ FirstByte(push) \in Nat
    OBVIOUS
  <2>1. push = 1 \/ push = 2 \/ (push \in 3..7 /\ PushSizes[push] = 32)
    <3>1. \/ push = 1 \/ push = 2 \/ push = 3 \/ push = 4 \/ push = 5 \/ push = 6 \/ push = 7
      OBVIOUS
    <3>2. CASE push = 1 BY <3>2
    <3>3. CASE push = 2 BY <3>3
    <3>4. CASE push # 1 /\ push # 2
      <4>1. push \in 3..7 BY <3>4
      <4>2. PushSizes[push] = 32 BY <1>8, <3>1, <3>4
      <4> QED BY <4>1, <4>2
    <3> QED BY <3>2, <3>3, <3>4
  <2> QED BY <1>8, <2>1 DEF FirstByte
<1>10. ASSUME NEW push \in 1..7, start[3 * push - 3] = FirstByte(push)
       PROVE  /\ start[3 * push - 2] = FirstByte(push) + 1
              /\ start[3 * push - 1] = FirstByte(push) + 1 + PushSizes[push]
              /\ start[3 * push] = FirstByte(push + 1)
  <2>1. /\ 3 * push - 2 \in 1..22 /\ (3 * push - 2) - 1 = 3 * push - 3
        /\ 3 * push - 1 \in 1..22 /\ (3 * push - 1) - 1 = 3 * push - 2
        /\ 3 * push \in 1..22 /\ 3 * push - 1 = 3 * push - 1
    OBVIOUS
  <2>2. start[3 * push - 2] = FirstByte(push) + 1 BY <1>6, <1>7, <1>10, <2>1
  <2>3. start[3 * push - 1] = FirstByte(push) + 1 + PushSizes[push]
    BY <1>6, <1>7, <2>1, <2>2
  <2>4. start[3 * push] = FirstByte(push) + 1 + PushSizes[push] + 1
    BY <1>6, <1>7, <2>1, <2>3
  <2> QED BY <1>9, <2>2, <2>3, <2>4
<1> DEFINE T == {n \in Nat : n <= 6 => start[3 * n] = FirstByte(n + 1)}
<1>11. 0 \in T
  BY <1>6 DEF FirstByte
<1>12. ASSUME NEW n \in Nat, n \in T PROVE n + 1 \in T
  <2> SUFFICES ASSUME n + 1 <= 6 PROVE start[3 * (n + 1)] = FirstByte(n + 1 + 1)
    OBVIOUS
  <2>1. n + 1 \in 1..7 /\ 3 * (n + 1) - 3 = 3 * n OBVIOUS
  <2>2. start[3 * n] = FirstByte(n + 1)
    <3>1. n <= 6 => start[3 * n] = FirstByte(n + 1) BY <1>12
    <3> QED BY <3>1
  <2> HIDE DEF T
  <2> QED BY <1>10, <2>1, <2>2
<1>13. \A n \in Nat : n \in T
  <2> HIDE DEF T
  <2> QED BY <1>11, <1>12, Induction
<1>14. ASSUME NEW push \in 1..7 PROVE start[3 * push - 3] = FirstByte(push)
  <2>1. push - 1 \in Nat /\ push - 1 <= 6 /\ (push - 1) + 1 = push
        /\ 3 * (push - 1) = 3 * push - 3
    OBVIOUS
  <2>2. push - 1 \in T BY <1>13, <2>1
  <2>3. start[3 * (push - 1)] = FirstByte((push - 1) + 1) BY <2>1, <2>2
  <2> QED BY <2>1, <2>3
<1>15. start[21] = 195
  <2>1. PICK last \in 1..7 : last = 7 OBVIOUS
  <2>2. start[3 * last] = FirstByte(last + 1) BY <1>10, <1>14
  <2>3. 3 * last = 21 /\ FirstByte(last + 1) = 195 BY <2>1 DEF FirstByte
  <2> QED BY <2>2, <2>3
<1>16. ASSUME NEW push \in 1..7
       PROVE  /\ OffsetOf(code, 3 * push - 2) = FirstByte(push)
              /\ OffsetOf(code, 3 * push - 1) = FirstByte(push) + 1
              /\ OffsetOf(code, 3 * push) = FirstByte(push) + 1 + PushSizes[push]
  <2>1. /\ (3 * push - 2) - 1 = 3 * push - 3 /\ (3 * push - 1) - 1 = 3 * push - 2 OBVIOUS
  <2> QED BY <1>2, <1>10, <1>14, <2>1
<1>17. OffsetOf(code, 22) = 195
  <2>1. 22 - 1 = 21 OBVIOUS
  <2> QED BY <1>2, <1>15, <2>1
<1> QED
  BY <1>16, <1>17 DEF code
-----------------------------------------------------------------------------
\* The projection slot, and the parser.

SlotUnit == 20   \* the data of the seventh push
Template(out) ==
    [i \in 1..22 |-> IF i = SlotUnit THEN Data(32, Zeros) ELSE Bytecode(out)[i]]

\* Every output has a slot: the data of its last push, which starts where the code
\* computes it to start and no other unit does.
LEMMA SlotOfOutput ==
    ASSUME NEW out
    PROVE  /\ ProjectionSlot(out) =
                 [bytecode |-> Bytecode(out), offset |-> SlotOffset, template |-> Template(out)]
           /\ OffsetOf(Bytecode(out), SlotUnit) = SlotOffset
           /\ Bytecode(out)[SlotUnit] = Data(32, out[SlotField])
<1> DEFINE code == Bytecode(out)
           inSlot == {i \in DOMAIN code : OffsetOf(code, i) = SlotOffset}
<1>1. SlotOffset = 162
  <2>1. 5 \in DOMAIN FieldOrder /\ FieldOrder[5] = SlotField
        /\ \A i \in DOMAIN FieldOrder : FieldOrder[i] = SlotField => i = 5
    BY DEF FieldOrder, SlotField
  <2>2. (CHOOSE i \in DOMAIN FieldOrder : FieldOrder[i] = SlotField) = 5
    BY <2>1
  <2>3. FieldOffset(5) = 162
    BY DEF FieldOffset, PrefixBytes, TagBytes
  <2> QED BY <2>2, <2>3 DEF SlotOffset
<1>2. BytecodeBytes = 196
  BY DEF BytecodeBytes, PrefixBytes, TagBytes, FieldOrder
<1>3. /\ Len(code) = 22 /\ DOMAIN code = 1..22 /\ code[22] = Opcode("OP_1")
      /\ \A push \in 1..7 : code[3 * push - 1] = Data(PushSizes[push], Contents(out)[push])
  <2>1. IsList(code) /\ Len(code) = 22 BY BytecodeUnits
  <2>2. DOMAIN code = 1..22 BY <2>1, ListShape DEF IsList
  <2> QED BY <2>1, <2>2, BytecodeUnits
<1>4. /\ \A push \in 1..7 :
            /\ OffsetOf(code, 3 * push - 2) = FirstByte(push)
            /\ OffsetOf(code, 3 * push - 1) = FirstByte(push) + 1
            /\ OffsetOf(code, 3 * push) = FirstByte(push) + 1 + PushSizes[push]
      /\ OffsetOf(code, 22) = 195
  BY UnitOffsets
<1> HIDE DEF code
<1>5. ASSUME NEW i \in 1..22 PROVE OffsetOf(code, i) = 162 <=> i = 20
  <2>1. CASE i = 22 BY <1>4, <2>1
  <2>2. ASSUME NEW push \in 1..7, i \in {3 * push - 2, 3 * push - 1, 3 * push}
        PROVE  OffsetOf(code, i) = 162 <=> i = 20
    <3>1. /\ PushSizes[1] = 20 /\ PushSizes[2] = 1 /\ PushSizes[3] = 32 /\ PushSizes[4] = 32
          /\ PushSizes[5] = 32 /\ PushSizes[6] = 32 /\ PushSizes[7] = 32
      BY DEF PushSizes, TagBytes
    <3>2. /\ FirstByte(1) = 0 /\ FirstByte(2) = 22 /\ FirstByte(3) = 25 /\ FirstByte(4) = 59
          /\ FirstByte(5) = 93 /\ FirstByte(6) = 127 /\ FirstByte(7) = 161
      BY DEF FirstByte
    <3>3. push = 1 \/ push = 2 \/ push = 3 \/ push = 4 \/ push = 5 \/ push = 6 \/ push = 7
      OBVIOUS
    <3>4. i = 3 * push - 2 \/ i = 3 * push - 1 \/ i = 3 * push BY <2>2
    <3>5. \/ OffsetOf(code, i) = FirstByte(push) /\ i = 3 * push - 2
          \/ OffsetOf(code, i) = FirstByte(push) + 1 /\ i = 3 * push - 1
          \/ OffsetOf(code, i) = FirstByte(push) + 1 + PushSizes[push] /\ i = 3 * push
      BY <1>4, <3>4
    <3>6. CASE push = 1 BY <3>1, <3>2, <3>5, <3>6
    <3>7. CASE push = 2 BY <3>1, <3>2, <3>5, <3>7
    <3>8. CASE push = 3 BY <3>1, <3>2, <3>5, <3>8
    <3>9. CASE push = 4 BY <3>1, <3>2, <3>5, <3>9
    <3>10. CASE push = 5 BY <3>1, <3>2, <3>5, <3>10
    <3>11. CASE push = 6 BY <3>1, <3>2, <3>5, <3>11
    <3>12. CASE push = 7 BY <3>1, <3>2, <3>5, <3>12
    <3> QED BY <3>3, <3>6, <3>7, <3>8, <3>9, <3>10, <3>11, <3>12
  <2> QED BY <2>1, <2>2, UnitOfPush
<1>6. inSlot = {20}
  BY <1>1, <1>3, <1>5
<1>7. code[20] = Data(32, out[SlotField])
  <2>1. PICK push \in 1..7 : push = 7 OBVIOUS
  <2>2. code[3 * push - 1] = Data(PushSizes[push], Contents(out)[push]) BY <1>3
  <2>3. 3 * push - 1 = 20 BY <2>1
  <2>4. PushSizes[7] = 32 /\ Contents(out)[7] = out[SlotField]
    BY DEF PushSizes, Contents, SlotField
  <2> QED BY <2>1, <2>2, <2>3, <2>4
<1>8. OffsetOf(code, Len(code)) + ByteLength(code[Len(code)]) = BytecodeBytes
  <2>1. ByteLength(code[22]) = 1 BY <1>3 DEF ByteLength, Opcode
  <2> QED BY <1>2, <1>3, <1>4, <2>1
<1>9. ProjectionSlot(out) =
         [bytecode |-> code, offset |-> SlotOffset,
          template |-> [i \in DOMAIN code |-> IF i \in inSlot THEN Data(32, Zeros) ELSE code[i]]]
  <2>1. \A i \in inSlot : code[i] = Data(32, out[SlotField]) BY <1>6, <1>7
  <2> QED BY <1>8, <2>1 DEF ProjectionSlot, code
<1>10. [i \in DOMAIN code |-> IF i \in inSlot THEN Data(32, Zeros) ELSE code[i]]
         = Template(out)
  BY <1>3, <1>6 DEF SlotUnit, Template, code
<1>11. OffsetOf(code, 20) = SlotOffset
  <2>1. 20 \in 1..22 OBVIOUS
  <2> QED BY <1>1, <1>5, <2>1
<1> QED
  BY <1>7, <1>9, <1>10, <1>11 DEF code, SlotUnit

\* Outputs that differ in nothing but the slot's field have one template.
LEMMA TemplateIsShared ==
    ASSUME NEW a, NEW b,
           a.transitionStatementBind32 = b.transitionStatementBind32,
           a.consumedSealSetCommitment32 = b.consumedSealSetCommitment32,
           a.newNoteBatchRoot32 = b.newNoteBatchRoot32,
           a.planeBPacketBinCommitment32 = b.planeBPacketBinCommitment32
    PROVE  ProjectionSlot(a).template = ProjectionSlot(b).template
<1>1. \A push \in 1..6 : Contents(a)[push] = Contents(b)[push]
  BY DEF Contents
<1>2. ASSUME NEW i \in 1..22, i # SlotUnit PROVE Bytecode(a)[i] = Bytecode(b)[i]
  <2>1. CASE i = 22 BY <2>1, BytecodeUnits
  <2>2. ASSUME NEW push \in 1..7, i \in {3 * push - 2, 3 * push - 1, 3 * push}
        PROVE  Bytecode(a)[i] = Bytecode(b)[i]
    <3>1. CASE i = 3 * push - 2 BY <3>1, BytecodeUnits
    <3>2. CASE i = 3 * push - 1
      <4>1. push \in 1..6 BY <1>2, <3>2 DEF SlotUnit
      <4> QED BY <1>1, <3>2, <4>1, BytecodeUnits
    <3>3. CASE i = 3 * push BY <3>3, BytecodeUnits
    <3> QED BY <2>2, <3>1, <3>2, <3>3
  <2> QED BY <2>1, <2>2, UnitOfPush
<1>3. ASSUME NEW out PROVE ProjectionSlot(out).template = Template(out)
  <2>1. ProjectionSlot(out) =
           [bytecode |-> Bytecode(out), offset |-> SlotOffset, template |-> Template(out)]
    BY SlotOfOutput
  <2> QED BY <2>1
<1>4. Template(a) = Template(b)
  BY <1>2 DEF Template
<1> QED
  BY <1>3, <1>4

\* A unit with data is a data unit.
IsUnit(unit) == unit.unit = "data" => unit = Data(unit.size, unit.value)

\* What the parser reads, it reads in full: the bytecode of its answer is the one it read.
LEMMA ParsedBytecode ==
    ASSUME NEW bytecode, IsList(bytecode), \A i \in DOMAIN bytecode : IsUnit(bytecode[i]),
           Parse(bytecode) # None
    PROVE  Bytecode(Parse(bytecode)) = bytecode
<1> DEFINE fields == Parse(bytecode)
           code == Bytecode(fields)
<1>1. DOMAIN PushSizes = 1..7 /\ Len(PushSizes) = 7
  BY DEF PushSizes
<1>2. /\ \A push \in 1..7 : ReadsPush(bytecode, push)
      /\ PushAt(bytecode, 1).value = Tag /\ PushAt(bytecode, 2).value = Version0
      /\ Len(bytecode) = 22 /\ bytecode[22] = Opcode("OP_1")
      /\ fields = [field \in {FieldOrder[i] : i \in DOMAIN FieldOrder} |->
                      PushAt(bytecode, 2 + CHOOSE i \in DOMAIN FieldOrder :
                                               FieldOrder[i] = field).value]
  BY <1>1 DEF Parse
<1>3. DOMAIN FieldOrder = 1..5
      /\ \A i, j \in 1..5 : FieldOrder[i] = FieldOrder[j] => i = j
  BY DEF FieldOrder
<1>4. \A i \in 1..5 : fields[FieldOrder[i]] = PushAt(bytecode, 2 + i).value
  BY <1>2, <1>3
<1> HIDE DEF fields
<1>5. \A push \in 1..7 : Contents(fields)[push] = PushAt(bytecode, push).value
  <2>1. /\ fields.transitionStatementBind32 = PushAt(bytecode, 3).value
        /\ fields.consumedSealSetCommitment32 = PushAt(bytecode, 4).value
        /\ fields.newNoteBatchRoot32 = PushAt(bytecode, 5).value
        /\ fields.planeBPacketBinCommitment32 = PushAt(bytecode, 6).value
        /\ fields.proofTranscriptBind32 = PushAt(bytecode, 7).value
    BY <1>4 DEF FieldOrder
  <2> QED BY <1>2, <2>1 DEF Contents
<1>6. ASSUME NEW push \in 1..7
      PROVE  /\ bytecode[3 * push - 2] = LengthByte(PushSizes[push])
             /\ bytecode[3 * push - 1] = Data(PushSizes[push], PushAt(bytecode, push).value)
             /\ bytecode[3 * push] = Opcode("OP_DROP")
  <2>1. /\ (3 * push - 2) + 1 = 3 * push - 1 /\ (3 * push - 2) + 2 = 3 * push
        /\ 3 * push - 1 \in 1..22
    OBVIOUS
  <2>2. /\ bytecode[3 * push - 2] = LengthByte(PushSizes[push])
        /\ bytecode[3 * push - 1].unit = "data" /\ bytecode[3 * push - 1].size = PushSizes[push]
        /\ bytecode[3 * push] = Opcode("OP_DROP")
    BY <1>2, <2>1 DEF ReadsPush
  <2>3. DOMAIN bytecode = 1..22 BY <1>2, ListShape DEF IsList
  <2>4. IsUnit(bytecode[3 * push - 1]) BY <2>1, <2>3
  <2> QED BY <2>2, <2>4 DEF IsUnit, PushAt
<1>7. /\ IsList(code) /\ Len(code) = 22 /\ code[22] = Opcode("OP_1")
      /\ \A push \in 1..7 :
            /\ code[3 * push - 2] = LengthByte(PushSizes[push])
            /\ code[3 * push - 1] = Data(PushSizes[push], Contents(fields)[push])
            /\ code[3 * push] = Opcode("OP_DROP")
  BY BytecodeUnits
<1> HIDE DEF code
<1>8. ASSUME NEW i \in 1..22 PROVE code[i] = bytecode[i]
  <2>1. CASE i = 22 BY <1>2, <1>7, <2>1
  <2>2. ASSUME NEW push \in 1..7, i \in {3 * push - 2, 3 * push - 1, 3 * push}
        PROVE  code[i] = bytecode[i]
    BY <1>5, <1>6, <1>7, <2>2
  <2> QED BY <2>1, <2>2, UnitOfPush
<1>9. code = [i \in 1..22 |-> code[i]] /\ bytecode = [i \in 1..22 |-> bytecode[i]]
  BY <1>2, <1>7, ListShape DEF IsList
<1>10. code = bytecode
  BY <1>8, <1>9
<1> QED
  BY <1>10 DEF code, fields
(***************************************************************************)
(* A published output is the one its statement committed to, is read back  *)
(* as it is, and its carriers are paid, for every batch, packet bin,       *)
(* funding and bytecode shown to a recipient.                              *)
(*                                                                         *)
(* The statement is made before the transcript bind is known, and the slot *)
(* is computed anew once it is: the property needs that the template       *)
(* does not depend on the bind.                                            *)
(***************************************************************************)

OutputHolds ==
    /\ slot # None =>
          /\ \E out : slot = ProjectionSlot(out)
          /\ slot.template = ProjectionSlot(unbound).template
    /\ statement # None =>
          statement.content = [template |-> ProjectionSlot(unbound).template, offset |-> SlotOffset]
    /\ output # None =>
          /\ statement # None
          /\ slot = ProjectionSlot(output)
    /\ ParsedIsCanonical

\* Everything a recipient is shown is a list of units.
LEMMA ShownUnits ==
    ASSUME NEW out, slot = ProjectionSlot(out), NEW bytecode \in Shown(slot.bytecode)
    PROVE  IsList(bytecode) /\ \A i \in DOMAIN bytecode : IsUnit(bytecode[i])
<1> DEFINE code == Bytecode(out)
           others == {LengthByte(31), Data(31, Zeros), Data(32, Zeros), Data(1, [version |-> 1]),
                      Opcode("OP_1"), Opcode("OP_DROP")}
           S == {unit \in Range(code) \cup others : IsUnit(unit)}
<1>1. slot.bytecode = code /\ slot.template = Template(out)
  BY SlotOfOutput
<1>2. \A unit \in others : IsUnit(unit)
  BY DEF IsUnit, LengthByte, Data, Opcode
<1>3. /\ IsList(code) /\ Len(code) = 22 /\ code[22] = Opcode("OP_1")
      /\ \A push \in 1..7 :
            /\ code[3 * push - 2] = LengthByte(PushSizes[push])
            /\ code[3 * push - 1] = Data(PushSizes[push], Contents(out)[push])
            /\ code[3 * push] = Opcode("OP_DROP")
  BY BytecodeUnits
<1> HIDE DEF code, others
<1>4. /\ code \in Seq(Range(code)) /\ DOMAIN code = 1..22 /\ code = [i \in 1..22 |-> code[i]]
      /\ \A i \in 1..22 : code[i] \in Range(code)
  <2>1. code \in Seq(Range(code)) BY <1>3 DEF IsList
  <2> QED BY <1>3, <2>1, ListShape
<1>5. ASSUME NEW i \in 1..22 PROVE IsUnit(code[i])
  <2>1. CASE i = 22 BY <1>3, <2>1 DEF IsUnit, Opcode
  <2>2. ASSUME NEW push \in 1..7, i \in {3 * push - 2, 3 * push - 1, 3 * push}
        PROVE  IsUnit(code[i])
    <3>1. CASE i = 3 * push - 2 BY <1>3, <3>1 DEF IsUnit, LengthByte
    <3>2. CASE i = 3 * push - 1 BY <1>3, <3>2 DEF IsUnit, Data
    <3>3. CASE i = 3 * push BY <1>3, <3>3 DEF IsUnit, Opcode
    <3> QED BY <2>2, <3>1, <3>2, <3>3
  <2> QED BY <2>1, <2>2, UnitOfPush
<1>6. \A i \in 1..22 : code[i] \in S
  BY <1>4, <1>5
<1>7. others \subseteq S /\ Data(32, Zeros) \in S
  BY <1>2 DEF others
<1>8. \A unit \in S : IsUnit(unit)
  OBVIOUS
<1> HIDE DEF S
<1>9. code \in Seq(S) /\ Len(code) = 22
  <2>1. code \in [1..22 -> S] BY <1>4, <1>6
  <2>2. 22 \in Nat OBVIOUS
  <2> QED BY <2>1, <2>2, FunctionIsListOf
<1>10. Template(out) \in Seq(S)
  <2>1. Template(out) \in [1..22 -> S] BY <1>6, <1>7 DEF Template, code
  <2>2. 22 \in Nat OBVIOUS
  <2> QED BY <2>1, <2>2, FunctionIsListOf
<1>11. bytecode \in Seq(S)
  <2>1. \/ bytecode = code \/ bytecode = Template(out)
        \/ \E i \in 1..22 : bytecode = RemoveAt(code, i)
        \/ \E i \in 1..22 : bytecode = InsertAt(code, i, code[i])
        \/ \E i \in 1..22, unit \in others : bytecode = ReplaceAt(code, i, unit)
    <3>1. \/ bytecode = slot.bytecode \/ bytecode = slot.template
          \/ \E i \in DOMAIN slot.bytecode : bytecode = RemoveAt(slot.bytecode, i)
          \/ \E i \in DOMAIN slot.bytecode : bytecode = InsertAt(slot.bytecode, i, slot.bytecode[i])
          \/ \E i \in DOMAIN slot.bytecode, unit \in others :
                 bytecode = ReplaceAt(slot.bytecode, i, unit)
      BY DEF Shown, others
    <3> QED BY <1>1, <1>4, <3>1
  <2>2. CASE bytecode = code \/ bytecode = Template(out) BY <1>9, <1>10, <2>2
  <2>3. ASSUME NEW i \in 1..22, bytecode = RemoveAt(code, i) PROVE bytecode \in Seq(S)
    <3>1. i \in 1..Len(code) BY <1>9
    <3> QED BY <1>9, <2>3, <3>1, RemoveAtShape
  <2>4. ASSUME NEW i \in 1..22, bytecode = InsertAt(code, i, code[i]) PROVE bytecode \in Seq(S)
    <3>1. i \in 1..Len(code) /\ code[i] \in S BY <1>6, <1>9
    <3> QED BY <1>9, <2>4, <3>1, InsertAtType
  <2>5. ASSUME NEW i \in 1..22, NEW unit \in others, bytecode = ReplaceAt(code, i, unit)
        PROVE  bytecode \in Seq(S)
    <3>1. i \in 1..Len(code) /\ unit \in S BY <1>7, <1>9
    <3> QED BY <1>9, <2>5, <3>1, ReplaceAtType
  <2> QED BY <2>1, <2>2, <2>3, <2>4, <2>5
<1>12. /\ bytecode = [i \in 1..Len(bytecode) |-> bytecode[i]] /\ Len(bytecode) \in Nat
       /\ DOMAIN bytecode = 1..Len(bytecode) /\ \A i \in 1..Len(bytecode) : bytecode[i] \in S
  BY <1>11, ListShape
<1>13. IsList(bytecode)
  BY <1>12, FunctionIsList DEF IsList
<1> QED
  BY <1>8, <1>12, <1>13

LEMMA OutputHoldsStep ==
    FundingHolds /\ OutputHolds /\ [OutputNext]_outputVars => OutputHolds'
<1> SUFFICES ASSUME FundingHolds, OutputHolds, [OutputNext]_outputVars PROVE OutputHolds'
  OBVIOUS
<1>1. ASSUME NEW batch, NEW bin, NEW funds, DraftOutput(batch, bin, funds) PROVE OutputHolds'
  <2>1. statement = None /\ output = None
    BY <1>1 DEF DraftOutput, FundingHolds
  <2>2. slot' = ProjectionSlot(unbound') /\ statement' = None /\ output' = None
        /\ found' = found /\ parsed' = parsed
    BY <1>1, <2>1 DEF DraftOutput
  <2> QED
    BY <2>2 DEF OutputHolds, ParsedIsCanonical
<1>2. ASSUME CommitStatement PROVE OutputHolds'
  <2>1. slot # None /\ statement = None /\ slot' = slot /\ unbound' = unbound
        /\ output' = output /\ found' = found /\ parsed' = parsed
        /\ statement'.content = [template |-> slot.template, offset |-> slot.offset]
    BY <1>2 DEF CommitStatement, Digest
  <2>2. slot.template = ProjectionSlot(unbound).template /\ slot.offset = SlotOffset
    <3>1. PICK out : slot = ProjectionSlot(out) BY <2>1 DEF OutputHolds
    <3>2. slot.offset = SlotOffset BY <3>1, SlotOfOutput
    <3> QED BY <2>1, <3>2 DEF OutputHolds
  <2>3. output = None BY <2>1 DEF OutputHolds
  <2> QED
    BY <2>1, <2>2, <2>3 DEF OutputHolds, ParsedIsCanonical
<1>3. ASSUME FillSlot PROVE OutputHolds'
  <2>1. statement # None /\ statement' = statement /\ unbound' = unbound
        /\ found' = found /\ parsed' = parsed /\ slot' = ProjectionSlot(output')
    BY <1>3 DEF FillSlot
  <2>2. /\ output'.transitionStatementBind32 = unbound.transitionStatementBind32
        /\ output'.consumedSealSetCommitment32 = unbound.consumedSealSetCommitment32
        /\ output'.newNoteBatchRoot32 = unbound.newNoteBatchRoot32
        /\ output'.planeBPacketBinCommitment32 = unbound.planeBPacketBinCommitment32
    BY <1>3 DEF FillSlot
  <2>3. slot'.template = ProjectionSlot(unbound).template
    BY <2>1, <2>2, TemplateIsShared
  <2> QED
    BY <2>1, <2>3 DEF OutputHolds, ParsedIsCanonical
<1>4. ASSUME slot # None, NEW bytecode \in Shown(slot.bytecode), ParseShown(bytecode)
      PROVE  OutputHolds'
  <2>1. PICK out : slot = ProjectionSlot(out) BY <1>4 DEF OutputHolds
  <2>2. IsList(bytecode) /\ \A i \in DOMAIN bytecode : IsUnit(bytecode[i])
    BY <1>4, <2>1, ShownUnits
  <2>3. Parse(bytecode) # None => Bytecode(Parse(bytecode)) = bytecode
    BY <2>2, ParsedBytecode
  <2> QED
    BY <1>4, <2>3 DEF ParseShown, OutputHolds, ParsedIsCanonical
<1>5. CASE UNCHANGED outputVars
  BY <1>5 DEF outputVars, OutputHolds, ParsedIsCanonical
<1> QED
  BY <1>1, <1>2, <1>3, <1>4, <1>5 DEF OutputNext

\* For every batch, bin, funding and bytecode: what is published is what the statement
\* committed to, what a recipient reads back, and what the carriers can pay for.
THEOREM PublishedOutputsAreSound == OutputSpec => []PublishedOutputIsSound
<1>1. OutputInit => FundingHolds /\ OutputHolds
  BY DEF OutputInit, FundingHolds, OutputHolds, ParsedIsCanonical
<1>2. OutputHolds => StatementFixesOutput
  <2> SUFFICES ASSUME OutputHolds, output # None PROVE StatementFixesOutput
    BY DEF StatementFixesOutput
  <2>1. statement # None /\ slot = ProjectionSlot(output) BY DEF OutputHolds
  <2>2. /\ slot = [bytecode |-> Bytecode(output), offset |-> SlotOffset,
                   template |-> Template(output)]
        /\ OffsetOf(Bytecode(output), SlotUnit) = SlotOffset
        /\ Bytecode(output)[SlotUnit] = Data(32, output.proofTranscriptBind32)
    BY <2>1, SlotOfOutput DEF SlotField
  <2>3. /\ slot # None /\ slot.bytecode = Bytecode(output) /\ slot.offset = SlotOffset
        /\ slot.template = ProjectionSlot(output).template
    BY <2>1, <2>2 DEF None
  <2>4. statement.content = [template |-> slot.template, offset |-> slot.offset]
    BY <2>1, <2>3 DEF OutputHolds
  <2>5. SlotUnit \in DOMAIN slot.bytecode
    <3>1. DOMAIN Bytecode(output) = 1..22 BY BytecodeUnits, ListShape DEF IsList
    <3> QED BY <2>3, <3>1 DEF SlotUnit
  <2>6. /\ OffsetOf(slot.bytecode, SlotUnit) = statement.content.offset
        /\ slot.bytecode[SlotUnit].value = output.proofTranscriptBind32
    BY <2>2, <2>3, <2>4 DEF Data
  <2> QED
    BY <2>3, <2>4, <2>5, <2>6 DEF StatementFixesOutput
<1>3. FundingHolds => CarriersArePaid
  BY DEF FundingHolds, Funded, Pays, LeastValue, CarriersArePaid
<1>4. FundingHolds /\ OutputHolds => PublishedOutputIsSound
  BY <1>2, <1>3 DEF OutputHolds, PublishedOutputIsSound
<1> QED
  BY <1>1, <1>4, OutputStep, OutputHoldsStep, PTL DEF OutputSpec

(***************************************************************************)
(* Import statements: what is answered is one import, for every record     *)
(* handed over and every overwriting of it.                                *)
(*                                                                         *)
(* The property needs that the checks speak of the copy that is answered   *)
(* and not of the caller's memory: between the two digests the copy of a   *)
(* statement V0 is known to correspond to its projection, and nothing the  *)
(* caller writes after that reaches a field which a check has read.        *)
(***************************************************************************)

\* What a caller can hand over.
IsDraft(given) == DOMAIN given = {"kind", "record"}

\* What a call has copied before the first digest, and has checked after it.
IsCopy0(copy) ==
    DOMAIN copy = Fields0 /\ IsProjection(copy.projection) /\ IsList(copy.cells)
Corresponds0(copy) ==
    /\ References0Hold(copy.scopes) /\ SealIsClosed(copy)
    /\ FundingIsProjected(copy) /\ CellsAreProjected(copy)

\* What the checks after the second digest add.
Belongs0(copy) ==
    /\ Scopes0Belong(copy, SkeletonSet(SkeletonsOf(copy)))
    /\ ScopesAreNamed(copy) /\ AccountingIsProjected(copy)

\* The scopes that the notes name spend the outpoint the seal closes.
NotesSpendTheSeal(record) ==
    \A note \in ToSet(record.notes) :
        note.scope.content.outpoint = Wire(record.close.outpoint)

ImportHolds ==
    /\ held # None => IsDraft(held)
    /\ call # None => held # None
    /\ call # None /\ held.kind = "statement-v0" =>
          /\ IsCopy0(call.copy)
          /\ call.stage = "skeletons" => Corresponds0(call.copy)
    /\ call # None /\ held.kind = "statement-v1" => DOMAIN call.copy = Fields1
    /\ AnswerIsOneImport

-----------------------------------------------------------------------------
\* The answered fields.

\* What normalising leaves of the record, apart from the order of its lists.
LEMMA OrderedFields ==
    ASSUME NEW record, {"notes", "cells", "scopes"} \subseteq DOMAIN record
    PROVE  /\ DOMAIN InOrder(record) = DOMAIN record
           /\ InOrder(record).cells = ByIndex(record.cells)
           /\ "projection" \in DOMAIN record => InOrder(record).projection = record.projection
  BY DEF InOrder

LEMMA SortedIsList ==
    ASSUME NEW items, NEW keys, IsList(items)
    PROVE  IsList(SortedBy(items, keys))
<1> DEFINE sorted == SortedBy(items, keys)
<1>1. Len(items) \in Nat /\ DOMAIN items = 1..Len(items)
  BY ListShape DEF IsList
<1>2. sorted = [n \in 1..Len(items) |-> items[PlaceOf(keys, n)]]
  BY <1>1 DEF SortedBy
<1>3. sorted = [n \in 1..Len(items) |-> sorted[n]]
  BY <1>2
<1> HIDE DEF sorted
<1>4. sorted \in Seq(Range(sorted))
  BY <1>1, <1>3, FunctionIsList
<1> QED
  BY <1>4 DEF sorted, IsList

\* A note that the scopes are named by is in one of them.
LEMMA NotedScope ==
    ASSUME NEW record, ScopesAreNamed(record), NEW note \in ToSet(record.notes)
    PROVE  \E j \in DOMAIN record.scopes : record.scopes[j].commitment = note.scope
<1>1. PICK i \in DOMAIN record.notes : note = record.notes[i]
  BY DEF ToSet
<1>2. note.scope \in ToSet(Column(record.notes, "scope"))
  BY <1>1 DEF ToSet, Column
<1>3. note.scope \in ToSet(Column(record.scopes, "commitment"))
  BY <1>2 DEF ScopesAreNamed
<1> QED
  BY <1>3 DEF ToSet, Column

\* The outpoint a scope's commitment hashes is that of the scope, in wire order.
LEMMA HashedOutpoint ==
    ASSUME NEW scope, "outpoint" \in DOMAIN scope
    PROVE  /\ ScopeCommitment0(scope).content.outpoint = Wire(scope.outpoint)
           /\ ScopeCommitment1(scope).content.outpoint = Wire(scope.outpoint)
<1>1. EncodeScope0(scope).outpoint = Wire(scope.outpoint)
  BY DEF EncodeScope0
<1>2. EncodeScope1(scope).outpoint = Wire(scope.outpoint)
  BY DEF EncodeScope1
<1> QED
  BY <1>1, <1>2 DEF ScopeCommitment0, ScopeCommitment1, Digest

\* A list without the count before it.
LEMMA TailOfCounted ==
    ASSUME NEW S, NEW items \in Seq(S), NEW head
    PROVE  Tail(<<head>> \o items) = items
<1> DEFINE both == <<head>> \o items
<1>1. Len(items) \in Nat /\ items = [i \in 1..Len(items) |-> items[i]]
  BY ListShape
<1>2. /\ both \in Seq(S \cup {head}) /\ Len(both) = Len(items) + 1
      /\ \A i \in 1..Len(items) : both[i + 1] = items[i]
  BY <1>1
<1> HIDE DEF both
<1>3. Tail(both) = [i \in 1..Len(items) |-> both[i + 1]]
  <2>1. Len(both) - 1 = Len(items) /\ both # <<>>
    BY <1>1, <1>2
  <2>2. /\ Tail(both) \in Seq(S \cup {head}) /\ Len(Tail(both)) = Len(items)
        /\ \A i \in 1..Len(items) : Tail(both)[i] = both[i + 1]
    BY <1>1, <1>2, <2>1
  <2>3. Tail(both) = [i \in 1..Len(items) |-> Tail(both)[i]]
    BY <2>2, ListShape
  <2> QED
    BY <2>2, <2>3
<1>4. [i \in 1..Len(items) |-> both[i + 1]] = [i \in 1..Len(items) |-> items[i]]
  BY <1>2
<1> QED
  BY <1>1, <1>3, <1>4 DEF both

\* The places that a filter of places keeps.
LEMMA BackingPlaces ==
    ASSUME NEW copy, IsCopy0(copy), CellsAreProjected(copy)
    PROVE  LET outputs == copy.projection.outputs
               picked == {i \in DOMAIN outputs : outputs[i].role = BackingRole}
               backing == Kept([i \in DOMAIN outputs |-> i], picked)
           IN  /\ backing \in Seq(picked)
               /\ DOMAIN copy.cells = DOMAIN backing /\ DOMAIN backing = 1..Len(backing)
               /\ \A k \in picked : \E j \in DOMAIN backing : backing[j] = k
               /\ \A i \in DOMAIN backing : /\ copy.cells[i].index = backing[i] - 1
                                            /\ copy.cells[i].profile = outputs[backing[i]].profile
               /\ picked \subseteq Nat
<1> DEFINE outputs == copy.projection.outputs
           n == Len(outputs)
           picked == {i \in DOMAIN outputs : outputs[i].role = BackingRole}
           numbers == [i \in DOMAIN outputs |-> i]
           backing == Kept(numbers, picked)
<1>1. IsList(outputs) /\ IsList(copy.cells)
  BY DEF IsCopy0, IsProjection, Bounded
<1>2. /\ n \in Nat /\ DOMAIN outputs = 1..n
      /\ Len(copy.cells) \in Nat /\ DOMAIN copy.cells = 1..Len(copy.cells)
  BY <1>1, ListShape DEF IsList
<1>3. Len(backing) = Len(copy.cells)
  BY DEF CellsAreProjected
<1>4. \A i \in DOMAIN backing : /\ copy.cells[i].index = backing[i] - 1
                                /\ copy.cells[i].profile = outputs[backing[i]].profile
  BY DEF CellsAreProjected
<1>5. numbers = [i \in 1..n |-> i] /\ picked \in SUBSET (1..n)
  BY <1>2
<1> HIDE DEF n, outputs, picked, numbers
<1>6. backing \in Seq(picked) /\ \A k \in picked : \E j \in 1..Len(backing) : backing[j] = k
  <2>1. ASSUME NEW p \in SUBSET (1..n), NEW f, f = [i \in 1..n |-> i]
        PROVE  Kept(f, p) \in Seq(p) /\ \A k \in p : \E j \in 1..Len(Kept(f, p)) : Kept(f, p)[j] = k
    BY <1>2, <2>1, KeptNumbers
  <2> QED
    BY <1>5, <2>1
<1> HIDE DEF backing
<1>7. DOMAIN backing = 1..Len(backing)
  BY <1>6, ListShape
<1>8. picked \subseteq Nat
  BY <1>5
<1> QED
  BY <1>2, <1>3, <1>4, <1>6, <1>7, <1>8 DEF backing, numbers, picked, outputs

\* The skeletons of the cells are those of the private-backing outputs.
LEMMA SkeletonsOfOutputs ==
    ASSUME NEW copy, IsCopy0(copy), CellsAreProjected(copy)
    PROVE  LET outputs == copy.projection.outputs
               picked == {i \in DOMAIN outputs : outputs[i].role = BackingRole}
           IN  /\ ToSet(Tail(SkeletonSet(SkeletonsOf(copy)).content)) =
                      {[index |-> i - 1, value |-> outputs[i].value, profile |-> outputs[i].profile] :
                          i \in picked}
               /\ {cell.index : cell \in ToSet(copy.cells)} = {i - 1 : i \in picked}
<1> DEFINE outputs == copy.projection.outputs
           picked == {i \in DOMAIN outputs : outputs[i].role = BackingRole}
           backing == Kept([i \in DOMAIN outputs |-> i], picked)
           m == Len(backing)
           Skeleton(i) == [index |-> i - 1, value |-> outputs[i].value, profile |-> outputs[i].profile]
           skeletons == SkeletonsOf(copy)
           keys == Column(skeletons, "index")
           sorted == SortedBy(skeletons, keys)
<1>1. /\ backing \in Seq(picked)
      /\ DOMAIN copy.cells = 1..m /\ DOMAIN backing = 1..m
      /\ \A k \in picked : \E j \in 1..m : backing[j] = k
      /\ \A i \in 1..m : /\ copy.cells[i].index = backing[i] - 1
                         /\ copy.cells[i].profile = outputs[backing[i]].profile
      /\ picked \subseteq Nat
  <2>1. /\ backing \in Seq(picked)
        /\ DOMAIN copy.cells = DOMAIN backing /\ DOMAIN backing = 1..m
        /\ \A k \in picked : \E j \in DOMAIN backing : backing[j] = k
        /\ \A i \in DOMAIN backing : /\ copy.cells[i].index = backing[i] - 1
                                     /\ copy.cells[i].profile = outputs[backing[i]].profile
        /\ picked \subseteq Nat
    BY BackingPlaces
  <2> HIDE DEF backing, picked, outputs, m
  <2> QED
    BY <2>1
<1>2. skeletons = [i \in DOMAIN copy.cells |->
                      [index |-> copy.cells[i].index, value |-> outputs[copy.cells[i].index + 1].value,
                       profile |-> copy.cells[i].profile]]
  BY DEF SkeletonsOf
<1> HIDE DEF outputs, picked, backing, skeletons
<1>3. m \in Nat /\ \A i \in 1..m : backing[i] \in picked
  BY <1>1, ListShape
<1>4. ASSUME NEW i \in 1..m
      PROVE  /\ copy.cells[i].index = backing[i] - 1
             /\ backing[i] \in Nat /\ copy.cells[i].index + 1 = backing[i]
  <2>1. backing[i] \in Nat /\ copy.cells[i].index = backing[i] - 1
    BY <1>1, <1>3
  <2> QED
    BY <2>1
<1>5. skeletons = [i \in 1..m |-> Skeleton(backing[i])]
  BY <1>1, <1>2, <1>4
<1> HIDE DEF m, Skeleton
<1>6. skeletons = [i \in 1..m |-> skeletons[i]] /\ DOMAIN skeletons = 1..m
  BY <1>5
<1>7. keys \in [1..m -> Int]
  <2>1. \A i \in 1..m : skeletons[i]["index"] = backing[i] - 1 /\ backing[i] \in Nat
    BY <1>4, <1>5 DEF Skeleton
  <2>2. keys = [i \in 1..m |-> skeletons[i]["index"]]
    BY <1>6 DEF Column
  <2>3. \A i \in 1..m : skeletons[i]["index"] \in Int
    BY <2>1
  <2> QED
    BY <2>2, <2>3
<1> HIDE DEF keys
<1>8. PICK order : IsSortingOrder(order, skeletons, keys, m)
  <2>1. IsArray(skeletons, m)
    BY <1>6 DEF IsArray
  <2> QED
    BY <1>3, <1>7, <2>1, SortedOrder
<1>9. /\ order \in [1..m -> 1..m] /\ sorted = [k \in 1..m |-> skeletons[order[k]]]
      /\ \A j \in 1..m : \E k \in 1..m : order[k] = j
  BY <1>8 DEF IsSortingOrder
<1> HIDE DEF sorted
<1>10. \A k \in 1..m : sorted[k] = Skeleton(backing[order[k]]) /\ order[k] \in 1..m
  BY <1>5, <1>9
<1>11. ToSet(sorted) = {Skeleton(i) : i \in picked}
  <2>1. DOMAIN sorted = 1..m
    BY <1>9
  <2>2. ASSUME NEW k \in 1..m PROVE sorted[k] \in {Skeleton(i) : i \in picked}
    BY <1>3, <1>10
  <2>3. ASSUME NEW i \in picked PROVE \E k \in 1..m : sorted[k] = Skeleton(i)
    <3>1. PICK j \in 1..m : backing[j] = i
      BY <1>1
    <3>2. PICK k \in 1..m : order[k] = j
      BY <1>9
    <3> QED
      BY <1>10, <3>1, <3>2
  <2> QED
    BY <2>1, <2>2, <2>3 DEF ToSet
<1>12. SkeletonSet(skeletons).content = <<[count |-> Len(sorted)]>> \o sorted
  BY DEF SkeletonSet, EncodeSkeletons, Counted, ByIndex, Digest, keys, sorted
<1>13. Tail(<<[count |-> Len(sorted)]>> \o sorted) = sorted
  <2>1. sorted \in Seq(Range(sorted))
    <3>1. sorted = [k \in 1..m |-> sorted[k]]
      BY <1>9
    <3> QED
      BY <1>3, <3>1, FunctionIsList
  <2> QED
    BY <2>1, TailOfCounted
<1>14. {cell.index : cell \in ToSet(copy.cells)} = {i - 1 : i \in picked}
  <2>1. ToSet(copy.cells) = {copy.cells[j] : j \in 1..m}
    BY <1>1 DEF ToSet
  <2>2. ASSUME NEW cell \in ToSet(copy.cells) PROVE \E i \in picked : cell.index = i - 1
    <3>1. PICK j \in 1..m : cell = copy.cells[j]
      BY <2>1
    <3> QED
      BY <1>1, <1>3, <3>1
  <2>3. ASSUME NEW i \in picked PROVE \E cell \in ToSet(copy.cells) : cell.index = i - 1
    <3>1. PICK j \in 1..m : backing[j] = i
      BY <1>1
    <3>2. copy.cells[j] \in ToSet(copy.cells) /\ copy.cells[j].index = backing[j] - 1
      BY <1>1, <2>1
    <3> QED
      BY <3>1, <3>2
  <2> QED
    BY <2>2, <2>3
<1> QED
  BY <1>11, <1>12, <1>13, <1>14 DEF skeletons, picked, outputs, Skeleton
\* What the checks say of the copy is what the property says of it.
LEMMA CopyIsBacked ==
    ASSUME NEW copy, IsCopy0(copy), Corresponds0(copy), Belongs0(copy)
    PROVE  StatementIsBacked(copy) /\ NotesSpendTheSeal(copy)
<1> DEFINE outputs == copy.projection.outputs
           inputs == copy.projection.inputs
           picked == {i \in DOMAIN outputs : outputs[i].role = BackingRole}
           skeletons == {[index |-> i - 1, value |-> outputs[i].value, profile |-> outputs[i].profile] :
                            i \in picked}
           set == SkeletonSet(SkeletonsOf(copy))
<1>1. ToSet(Tail(set.content)) = skeletons /\ {cell.index : cell \in ToSet(copy.cells)} = {i - 1 : i \in picked}
  BY SkeletonsOfOutputs DEF Corresponds0
<1> HIDE DEF skeletons, set
<1>2. \A j \in DOMAIN copy.scopes :
         /\ IsScope0(copy.scopes[j].scope)
         /\ copy.scopes[j].commitment = ScopeCommitment0(copy.scopes[j].scope)
  BY DEF Corresponds0, References0Hold, AreReferences0
<1>3. \A j \in DOMAIN copy.scopes :
         /\ copy.scopes[j].scope.outpoint = copy.funding.outpoint
         /\ copy.scopes[j].scope.skeletons = set
  BY DEF Belongs0, Scopes0Belong, set
<1>4. copy.funding.outpoint = copy.close.outpoint
  BY DEF Corresponds0, SealIsClosed
<1>5. ASSUME NEW note \in ToSet(copy.notes)
      PROVE  /\ \E reference \in ToSet(copy.scopes) :
                   /\ note.scope = ScopeCommitment0(reference.scope)
                   /\ ToSet(Tail(reference.scope.skeletons.content)) = skeletons
             /\ note.scope.content.outpoint = Wire(copy.close.outpoint)
  <2>1. PICK j \in DOMAIN copy.scopes : copy.scopes[j].commitment = note.scope
    BY NotedScope DEF Belongs0
  <2>2. copy.scopes[j] \in ToSet(copy.scopes)
    BY DEF ToSet
  <2>3. /\ note.scope = ScopeCommitment0(copy.scopes[j].scope)
        /\ copy.scopes[j].scope.skeletons = set
        /\ copy.scopes[j].scope.outpoint = copy.close.outpoint
    BY <1>2, <1>3, <1>4, <2>1
  <2>4. "outpoint" \in DOMAIN copy.scopes[j].scope
    BY <1>2 DEF IsScope0, HasFields
  <2>5. note.scope.content.outpoint = Wire(copy.close.outpoint)
    BY <2>3, <2>4, HashedOutpoint
  <2> QED
    BY <1>1, <2>2, <2>3, <2>5
<1>6. copy.accounting.backing = SumOf(Column(OfRole(outputs, {BackingRole}), "value"))
  BY DEF Belongs0, AccountingIsProjected, ProjectionAccounting
<1>7. \E input \in ToSet(inputs) :
         /\ input.role = FundingRole /\ input.outpoint = copy.close.outpoint
         /\ input.value = copy.accounting.funding
  <2> DEFINE place == copy.close.index + 1
  <2>1. /\ place \in DOMAIN inputs
        /\ inputs[place].role = FundingRole
        /\ inputs[place].outpoint = copy.funding.outpoint
        /\ inputs[place].value = copy.funding.value
    BY DEF Corresponds0, FundingIsProjected
  <2>2. copy.accounting.funding = copy.funding.value
    BY DEF Belongs0, AccountingIsProjected
  <2>3. inputs[place] \in ToSet(inputs)
    BY <2>1 DEF ToSet
  <2> QED
    BY <1>4, <2>1, <2>2, <2>3
<1>8. StatementIsBacked(copy)
  BY <1>1, <1>5, <1>6, <1>7 DEF StatementIsBacked, skeletons
<1>9. NotesSpendTheSeal(copy)
  BY <1>5 DEF NotesSpendTheSeal
<1> QED
  BY <1>8, <1>9

\* StatementIsBacked in the fields it reads.
FieldsAreBacked(accounting, projection, cells, notes, scopes, close) ==
    LET outputs == projection.outputs
        backing == {i \in DOMAIN outputs : outputs[i].role = BackingRole}
        skeletons == {[index |-> i - 1, value |-> outputs[i].value, profile |-> outputs[i].profile] :
                         i \in backing}
    IN  /\ accounting.backing = SumOf(Column(OfRole(outputs, {BackingRole}), "value"))
        /\ {cell.index : cell \in ToSet(cells)} = {i - 1 : i \in backing}
        /\ \A note \in ToSet(notes) : \E reference \in ToSet(scopes) :
              /\ note.scope = ScopeCommitment0(reference.scope)
              /\ ToSet(Tail(reference.scope.skeletons.content)) = skeletons
        /\ \E input \in ToSet(projection.inputs) :
              /\ input.role = FundingRole /\ input.outpoint = close.outpoint
              /\ input.value = accounting.funding

LEMMA BackedFields ==
    ASSUME NEW record
    PROVE  StatementIsBacked(record) <=>
               FieldsAreBacked(record.accounting, record.projection, record.cells, record.notes,
                               record.scopes, record.close)
  BY DEF StatementIsBacked, FieldsAreBacked

\* Packet table and fee, read last, are in neither.
AnswersFrom(copy, answered) ==
    \E table, fee : answered = [copy EXCEPT !.table = table, !.fee = fee]
LEMMA LastReadFields ==
    ASSUME NEW copy, NEW answered, AnswersFrom(copy, answered), DOMAIN copy \in {Fields0, Fields1}
    PROVE  /\ DOMAIN copy = Fields0 /\ StatementIsBacked(copy) => StatementIsBacked(answered)
           /\ NotesSpendTheSeal(copy) => NotesSpendTheSeal(answered)
<1>1. \A field \in DOMAIN copy : field \notin {"table", "fee"} => answered[field] = copy[field]
  BY DEF AnswersFrom
<1>2. {"notes", "cells", "scopes", "close"} \subseteq DOMAIN copy
  BY DEF Fields0, Fields1
<1>3. /\ answered.notes = copy.notes /\ answered.cells = copy.cells
      /\ answered.scopes = copy.scopes /\ answered.close = copy.close
  BY <1>1, <1>2
<1>4. DOMAIN copy = Fields0 => /\ answered.projection = copy.projection
                               /\ answered.accounting = copy.accounting
  BY <1>1 DEF Fields0
<1>5. DOMAIN copy = Fields0 /\ StatementIsBacked(copy) => StatementIsBacked(answered)
  BY <1>3, <1>4, BackedFields
<1>6. NotesSpendTheSeal(copy) => NotesSpendTheSeal(answered)
  BY <1>3 DEF NotesSpendTheSeal
<1> QED
  BY <1>5, <1>6

LEMMA Copy1SpendsTheSeal ==
    ASSUME NEW copy, References1Hold(copy.scopes), SealIsClosed(copy), Scopes1Belong(copy),
           ScopesAreNamed(copy)
    PROVE  NotesSpendTheSeal(copy)
<1> SUFFICES ASSUME NEW note \in ToSet(copy.notes)
             PROVE  note.scope.content.outpoint = Wire(copy.close.outpoint)
  BY DEF NotesSpendTheSeal
<1>1. PICK j \in DOMAIN copy.scopes : copy.scopes[j].commitment = note.scope
  BY NotedScope
<1>2. /\ IsScope1(copy.scopes[j].scope)
      /\ note.scope = ScopeCommitment1(copy.scopes[j].scope)
  BY <1>1 DEF References1Hold, AreReferences1
<1>3. copy.scopes[j].scope.outpoint = copy.close.outpoint
  BY DEF Scopes1Belong, SealIsClosed
<1>4. "outpoint" \in DOMAIN copy.scopes[j].scope
  BY <1>2 DEF IsScope1, HasFields
<1> QED
  BY <1>2, <1>3, <1>4, HashedOutpoint

-----------------------------------------------------------------------------
\* The steps.

\* What the caller holds is a draft, and so is what it is overwritten to.
LEMMA DraftStep ==
    ASSUME held # None => IsDraft(held), call # None => held # None, [ImportNext]_importVars
    PROVE  (held' # None => IsDraft(held')) /\ (held # None => held' # None /\ held'.kind = held.kind)
<1>1. ASSUME NEW given \in ImportDrafts, Hold(given), held = None
      PROVE  (held' # None => IsDraft(held')) /\ (held # None => held' # None /\ held'.kind = held.kind)
  <2>1. IsDraft(given)
    BY DraftAssumption DEF IsDraft
  <2> QED
    BY <1>1, <2>1 DEF Hold
<1>2. ASSUME NEW given \in ImportDrafts, NEW field \in DOMAIN given.record, Overwrite(field, given),
             held # None
      PROVE  IsDraft(held') /\ held' # None /\ held'.kind = held.kind
  <2>1. IsDraft(held)
    BY <1>2
  <2>2. held' = [held EXCEPT !.record[field] = given.record[field]]
    BY <1>2 DEF Overwrite
  <2>3. /\ DOMAIN held' = {"kind", "record"} /\ held'.kind = held.kind
        /\ held'.record = [held.record EXCEPT ![field] = given.record[field]]
    BY <2>1, <2>2 DEF IsDraft
  <2>4. DOMAIN held'.record = DOMAIN held.record
    BY <2>3
  <2>5. held' # None
    <3>1. "kind" \in DOMAIN held' /\ "kind" \notin DOMAIN None
      BY <2>3 DEF None
    <3> QED
      BY <3>1
  <2> QED
    BY <2>1, <2>3, <2>4, <2>5 DEF IsDraft
<1>3. CASE UNCHANGED held
  BY <1>3
<1>4. \/ held = None /\ \E given \in ImportDrafts : Hold(given)
      \/ /\ call # None
         /\ \E given \in ImportDrafts : \E field \in DOMAIN given.record : Overwrite(field, given)
      \/ UNCHANGED held
  BY DEF ImportNext, importVars, BeginStatement0, ScopesHashed0, FinishStatement0, BeginStatement1,
         FinishStatement1, BeginClaimPlan, FinishClaimPlan, BuildClaimPlan, AnswerProjection,
         Serialise
<1> QED
  BY <1>1, <1>2, <1>3, <1>4

\* Every step of an import keeps its invariant.
LEMMA ImportStep == ImportHolds /\ [ImportNext]_importVars => ImportHolds'
<1> SUFFICES ASSUME ImportHolds, [ImportNext]_importVars PROVE ImportHolds'
  OBVIOUS
<1>1. /\ held' # None => IsDraft(held')
      /\ held # None => held' # None /\ held'.kind = held.kind
      /\ held # None => IsDraft(held)
  BY DraftStep DEF ImportHolds
\* While a call waits, or nothing is called, what was copied and answered stays.
<1>2. CASE UNCHANGED <<call, answer>>
  <2>1. AnswerIsOneImport'
    BY <1>2 DEF ImportHolds, AnswerIsOneImport
  <2> QED
    BY <1>1, <1>2, <2>1 DEF ImportHolds
<1>3. CASE BeginStatement0
  <2>1. /\ held # None /\ held.kind = "statement-v0" /\ call' # None
        /\ call'.copy = InOrder(held.record) /\ call'.stage = "scopes"
        /\ held' = held /\ answer' = answer
    BY <1>3 DEF BeginStatement0, CanCall, Await, None
  <2>2. /\ DOMAIN held.record = Fields0 /\ IsProjection(held.record.projection)
        /\ IsList(held.record.cells)
    BY <1>3, <2>1 DEF BeginStatement0, NamesFields, HasFields, AreBackingCells, Bounded
  <2>3. IsCopy0(call'.copy)
    <3>1. /\ DOMAIN call'.copy = Fields0 /\ call'.copy.projection = held.record.projection
          /\ call'.copy.cells = ByIndex(held.record.cells)
      BY <2>1, <2>2, OrderedFields DEF Fields0
    <3> QED
      BY <2>2, <3>1, SortedIsList DEF IsCopy0, ByIndex
  <2>4. AnswerIsOneImport'
    BY <2>1 DEF ImportHolds, AnswerIsOneImport
  <2> QED
    BY <1>1, <2>1, <2>3, <2>4 DEF ImportHolds
<1>4. CASE ScopesHashed0
  <2> DEFINE copy == [call.copy EXCEPT !.accounting = held.record.accounting]
             corresponds == /\ References0Hold(copy.scopes) /\ SealIsClosed(copy)
                            /\ FundingIsProjected(copy) /\ CellsAreProjected(copy)
                            /\ IsSkeletons(SkeletonsOf(copy))
  <2>1. /\ call # None /\ held.kind = "statement-v0" /\ held # None /\ IsCopy0(call.copy)
    BY <1>4 DEF ScopesHashed0, ImportHolds
  <2>2. /\ held' = held /\ answer' = answer
        /\ \/ corresponds /\ call' = [stage |-> "skeletons", copy |-> copy]
           \/ call' = None
    BY <1>4 DEF ScopesHashed0, Await, Throw
  <2>3. IsCopy0(copy)
    <3>1. DOMAIN copy = DOMAIN call.copy
      OBVIOUS
    <3>2. copy.projection = call.copy.projection /\ copy.cells = call.copy.cells
      BY <2>1 DEF IsCopy0, Fields0
    <3> HIDE DEF copy
    <3> QED
      BY <2>1, <3>1, <3>2 DEF IsCopy0
  <2>4. AnswerIsOneImport'
    BY <2>2 DEF ImportHolds, AnswerIsOneImport
  <2> HIDE DEF copy
  <2>5. CASE corresponds /\ call' = [stage |-> "skeletons", copy |-> copy]
    <3>1. Corresponds0(copy)
      BY <2>5 DEF Corresponds0
    <3>2. call'.copy = copy
      BY <2>5
    <3> QED
      BY <1>1, <2>1, <2>2, <2>3, <2>4, <3>1, <3>2 DEF ImportHolds
  <2>6. CASE call' = None
    BY <1>1, <2>2, <2>4, <2>6 DEF ImportHolds
  <2> QED
    BY <2>2, <2>5, <2>6
<1>5. CASE FinishStatement0
  <2> DEFINE copy == call.copy
             answered == [copy EXCEPT !.table = held.record.table, !.fee = held.record.fee]
  <2>1. /\ call # None /\ held.kind = "statement-v0" /\ held # None
        /\ IsCopy0(copy) /\ Corresponds0(copy)
    BY <1>5 DEF FinishStatement0, ImportHolds
  <2>2. /\ held' = held /\ call' = None
        /\ \/ Belongs0(copy) /\ answer' = [kind |-> held.kind, record |-> answered]
           \/ answer' = answer
    BY <1>5 DEF FinishStatement0, Answer, Throw, Belongs0
  <2> HIDE DEF copy
  <2>3. CASE Belongs0(copy) /\ answer' = [kind |-> held.kind, record |-> answered]
    <3>1. StatementIsBacked(copy) /\ NotesSpendTheSeal(copy)
      BY <2>1, <2>3, CopyIsBacked
    <3>2. StatementIsBacked(answered) /\ NotesSpendTheSeal(answered)
      <4>1. AnswersFrom(copy, answered)
        BY DEF AnswersFrom
      <4> HIDE DEF answered
      <4> QED
        BY <2>1, <3>1, <4>1, LastReadFields DEF IsCopy0
    <3>3. answer'.kind = "statement-v0" /\ answer'.record = answered
      BY <2>1, <2>3
    <3> HIDE DEF answered
    <3>4. AnswerIsOneImport'
      BY <3>2, <3>3 DEF AnswerIsOneImport, NotesSpendTheSeal
    <3> QED
      BY <1>1, <2>2, <3>4 DEF ImportHolds
  <2>4. CASE answer' = answer
    <3>1. AnswerIsOneImport'
      BY <2>4 DEF ImportHolds, AnswerIsOneImport
    <3> QED
      BY <1>1, <2>2, <3>1 DEF ImportHolds
  <2> QED
    BY <2>2, <2>3, <2>4
<1>6. CASE BeginStatement1
  <2>1. /\ held # None /\ held.kind = "statement-v1" /\ call' # None
        /\ call'.copy = InOrder(held.record)
        /\ held' = held /\ answer' = answer
    BY <1>6 DEF BeginStatement1, CanCall, Await, None
  <2>2. DOMAIN held.record = Fields1
    BY <1>6, <2>1 DEF BeginStatement1, NamesFields, HasFields
  <2>3. DOMAIN call'.copy = Fields1
    BY <2>1, <2>2, OrderedFields DEF Fields1
  <2>4. AnswerIsOneImport'
    BY <2>1 DEF ImportHolds, AnswerIsOneImport
  <2> QED
    BY <1>1, <2>1, <2>3, <2>4 DEF ImportHolds
<1>7. CASE FinishStatement1
  <2> DEFINE copy == call.copy
             answered == [copy EXCEPT !.table = held.record.table, !.fee = held.record.fee]
             belongs == /\ References1Hold(copy.scopes) /\ SealIsClosed(copy)
                        /\ Scopes1Belong(copy) /\ ScopesAreNamed(copy)
  <2>1. /\ call # None /\ held.kind = "statement-v1" /\ held # None /\ DOMAIN copy = Fields1
    BY <1>7 DEF FinishStatement1, ImportHolds
  <2>2. /\ held' = held /\ call' = None
        /\ \/ belongs /\ answer' = [kind |-> held.kind, record |-> answered]
           \/ answer' = answer
    BY <1>7 DEF FinishStatement1, Answer, Throw
  <2> HIDE DEF copy
  <2>3. CASE belongs /\ answer' = [kind |-> held.kind, record |-> answered]
    <3>1. NotesSpendTheSeal(answered)
      <4>1. NotesSpendTheSeal(copy)
        BY <2>3, Copy1SpendsTheSeal
      <4>2. AnswersFrom(copy, answered)
        BY DEF AnswersFrom
      <4> HIDE DEF answered
      <4> QED
        BY <2>1, <4>1, <4>2, LastReadFields
    <3>2. answer'.kind = "statement-v1" /\ answer'.record = answered
      BY <2>1, <2>3
    <3> HIDE DEF answered
    <3>3. AnswerIsOneImport'
      BY <3>1, <3>2 DEF AnswerIsOneImport, NotesSpendTheSeal
    <3> QED
      BY <1>1, <2>2, <3>3 DEF ImportHolds
  <2>4. CASE answer' = answer
    <3>1. AnswerIsOneImport'
      BY <2>4 DEF ImportHolds, AnswerIsOneImport
    <3> QED
      BY <1>1, <2>2, <3>1 DEF ImportHolds
  <2> QED
    BY <2>2, <2>3, <2>4
<1>8. CASE BeginClaimPlan
  <2>1. held # None /\ held.kind = "claim" /\ held' = held /\ answer' = answer
    BY <1>8 DEF BeginClaimPlan, CanCall
  <2>2. AnswerIsOneImport'
    BY <2>1 DEF ImportHolds, AnswerIsOneImport
  <2> QED
    BY <1>1, <2>1, <2>2 DEF ImportHolds
<1>9. CASE FinishClaimPlan \/ BuildClaimPlan \/ AnswerProjection
  <2>1. call' = None
    BY <1>9 DEF FinishClaimPlan, BuildClaimPlan, AnswerProjection, Answer, Throw
  <2>2. AnswerIsOneImport'
    <3>1. CASE FinishClaimPlan /\ answer' # answer
      <4>1. /\ answer'.kind = "claim"
            /\ answer'.record.output.commitment = ClaimCommitment(call.copy)
            /\ answer'.record.output.value = call.copy.amount
        BY <3>1 DEF FinishClaimPlan, Answer, Throw
      <4> QED
        BY <4>1 DEF AnswerIsOneImport, ClaimCommitment, Digest
    <3>2. CASE BuildClaimPlan
      <4>1. /\ answer'.kind = "claim"
            /\ answer'.record.output.commitment = ClaimCommitment(held.record.body)
            /\ answer'.record.output.value = held.record.body.amount
        BY <3>2 DEF BuildClaimPlan, CanCall, Answer
      <4> QED
        BY <4>1 DEF AnswerIsOneImport, ClaimCommitment, Digest
    <3>3. CASE AnswerProjection
      <4>1. answer'.kind \in {"settlement", "current"}
        BY <3>3 DEF AnswerProjection, CanCall, Answer
      <4> QED
        BY <4>1 DEF AnswerIsOneImport
    <3>4. CASE answer' = answer
      BY <3>4 DEF ImportHolds, AnswerIsOneImport
    <3> QED
      BY <1>9, <3>1, <3>2, <3>3, <3>4
  <2> QED
    BY <1>1, <2>1, <2>2 DEF ImportHolds
<1>10. \/ BeginStatement0 \/ ScopesHashed0 \/ FinishStatement0 \/ BeginStatement1
       \/ FinishStatement1 \/ BeginClaimPlan
       \/ FinishClaimPlan \/ BuildClaimPlan \/ AnswerProjection
       \/ UNCHANGED <<call, answer>>
  BY DEF ImportNext, importVars, Hold, Overwrite, Serialise
<1> QED
  BY <1>2, <1>3, <1>4, <1>5, <1>6, <1>7, <1>8, <1>9, <1>10

\* An answered import is one import (AnswerIsOneImport), whatever the caller writes
\* over its record between the digests.
THEOREM AnswersAreOneImport == ImportSpec => []AnswerIsOneImport
<1>1. ImportInit => ImportHolds
  BY DEF ImportInit, ImportHolds, AnswerIsOneImport
<1>2. ImportHolds => AnswerIsOneImport
  BY DEF ImportHolds
<1> QED
  BY <1>1, <1>2, ImportStep, PTL DEF ImportSpec

(***************************************************************************)
(* Import statements: the bytes of an answer are read back as the answer.  *)
(*                                                                         *)
(* The argument has three parts.  A counted list is found in bytes where   *)
(* it was put, whatever stands after it, and bytes cut short or run on     *)
(* have another length than the lists in them say.  What is answered is in *)
(* order and passes every check of its reader: sorting a sorted list       *)
(* changes nothing, and packet table and fee, which are read after the     *)
(* last check, are in none.  A transaction id turned twice is as it was.   *)
(***************************************************************************)

\* A counted list stands in the bytes: its count at a place, its items after it.
HoldsList(bytes, at, items) ==
    /\ at \in 1..Len(bytes) /\ at + Len(items) <= Len(bytes)
    /\ bytes[at] = [count |-> Len(items)]
    /\ \A i \in 1..Len(items) : bytes[at + i] = items[i]

\* The bytes agree up to a place.
AgreeUpTo(bytes, other, last) == \A k \in 1..last : other[k] = bytes[k]

LEMMA JoinedLists ==
    ASSUME NEW s, NEW t, IsList(s), IsList(t)
    PROVE  /\ IsList(s \o t) /\ Len(s \o t) = Len(s) + Len(t)
           /\ \A k \in 1..Len(s) : (s \o t)[k] = s[k]
           /\ \A k \in 1..Len(t) : (s \o t)[Len(s) + k] = t[k]
<1> DEFINE S == Range(s) \cup Range(t)
           n == Len(s) + Len(t)
           both == s \o t
<1>1. s \in Seq(S) /\ t \in Seq(S) /\ Len(s) \in Nat /\ Len(t) \in Nat
  <2>1. s \in Seq(Range(s)) /\ t \in Seq(Range(t))
    BY DEF IsList
  <2> QED
    BY <2>1, ListShape
<1>2. /\ both \in Seq(S) /\ Len(both) = n
      /\ \A k \in 1..n : both[k] = IF k <= Len(s) THEN s[k] ELSE t[k - Len(s)]
  BY <1>1, ConcatShape
<1> HIDE DEF both, S
<1>3. both = [k \in 1..n |-> both[k]] /\ n \in Nat
  BY <1>1, <1>2, ListShape
<1>4. IsList(both)
  BY <1>3, FunctionIsList DEF IsList
<1>5. \A k \in 1..Len(s) : both[k] = s[k]
  BY <1>1, <1>2
<1>6. ASSUME NEW k \in 1..Len(t) PROVE both[Len(s) + k] = t[k]
  <2>1. Len(s) + k \in 1..n /\ ~(Len(s) + k <= Len(s)) /\ Len(s) + k - Len(s) = k
    BY <1>1
  <2> QED
    BY <1>2, <2>1
<1> QED
  BY <1>2, <1>4, <1>5, <1>6 DEF both

LEMMA OneToken ==
    ASSUME NEW token
    PROVE  IsList(<<token>>) /\ Len(<<token>>) = 1 /\ <<token>>[1] = token
<1>1. <<token>> \in Seq(Range(<<token>>))
  BY DEF Range
<1> QED
  BY <1>1 DEF IsList

LEMMA ListLength ==
    ASSUME NEW items, IsList(items)
    PROVE  Len(items) \in Nat /\ DOMAIN items = 1..Len(items) /\ items = [i \in 1..Len(items) |-> items[i]]
  BY ListShape DEF IsList

\* A counted list after other bytes.
LEMMA ListAppended ==
    ASSUME NEW front, NEW items, IsList(front), IsList(items)
    PROVE  LET bytes == front \o Counted(items)
           IN  /\ IsList(bytes) /\ Len(bytes) = Len(front) + Len(items) + 1
               /\ AgreeUpTo(front, bytes, Len(front))
               /\ HoldsList(bytes, Len(front) + 1, items)
<1> DEFINE counted == Counted(items)
           bytes == front \o counted
           token == [count |-> Len(items)]
<1>1. counted = <<token>> \o items
  BY DEF Counted
<1> HIDE DEF counted, token
<1>2. Len(front) \in Nat /\ Len(items) \in Nat
  BY ListLength
<1>3. /\ IsList(counted) /\ Len(counted) = 1 + Len(items)
      /\ counted[1] = token /\ \A k \in 1..Len(items) : counted[1 + k] = items[k]
  <2>1. IsList(<<token>>) /\ Len(<<token>>) = 1 /\ <<token>>[1] = token
    BY OneToken
  <2>2. 1 \in 1..Len(<<token>>)
    BY <2>1
  <2> QED
    BY <1>1, <2>1, <2>2, JoinedLists
<1>4. /\ IsList(bytes) /\ Len(bytes) = Len(front) + Len(counted)
      /\ \A k \in 1..Len(front) : bytes[k] = front[k]
      /\ \A k \in 1..Len(counted) : bytes[Len(front) + k] = counted[k]
  <2>1. IsList(front) /\ IsList(counted)
    BY <1>3
  <2> QED
    BY <2>1, JoinedLists
<1> HIDE DEF bytes
<1>5. Len(bytes) = Len(front) + Len(items) + 1
  BY <1>2, <1>3, <1>4
<1>6. bytes[Len(front) + 1] = token
  <2>1. 1 \in 1..Len(counted)
    BY <1>2, <1>3
  <2> QED
    BY <1>3, <1>4, <2>1
<1>7. ASSUME NEW i \in 1..Len(items) PROVE bytes[Len(front) + 1 + i] = items[i]
  <2>1. 1 + i \in 1..Len(counted) /\ Len(front) + (1 + i) = Len(front) + 1 + i
    BY <1>2, <1>3
  <2> QED
    BY <1>3, <1>4, <2>1
<1>8. Len(front) + 1 \in 1..Len(bytes) /\ Len(front) + 1 + Len(items) <= Len(bytes)
  BY <1>2, <1>5
<1>9. HoldsList(bytes, Len(front) + 1, items)
  BY <1>6, <1>7, <1>8 DEF HoldsList, token
<1> QED
  BY <1>4, <1>5, <1>9 DEF AgreeUpTo, bytes, counted

\* A list stands wherever the bytes agree up to its end.
LEMMA ListKept ==
    ASSUME NEW bytes, NEW other, NEW at, NEW items, IsList(bytes), IsList(other), IsList(items),
           HoldsList(bytes, at, items), NEW last \in Nat, AgreeUpTo(bytes, other, last),
           at + Len(items) <= last, last <= Len(other)
    PROVE  HoldsList(other, at, items)
<1>1. Len(bytes) \in Nat /\ Len(other) \in Nat /\ Len(items) \in Nat /\ at \in Nat /\ at >= 1
  <2>1. Len(bytes) \in Nat /\ Len(other) \in Nat /\ Len(items) \in Nat
    BY ListLength
  <2> QED
    BY <2>1 DEF HoldsList
<1>2. at \in 1..last /\ \A i \in 1..Len(items) : at + i \in 1..last
  BY <1>1
<1>3. other[at] = bytes[at] /\ \A i \in 1..Len(items) : other[at + i] = bytes[at + i]
  BY <1>2 DEF AgreeUpTo
<1>4. at \in 1..Len(other) /\ at + Len(items) <= Len(other)
  BY <1>1
<1> QED
  BY <1>3, <1>4 DEF HoldsList

\* What stands in the bytes is what is read from them.
LEMMA ListIsRead ==
    ASSUME NEW bytes, NEW at, NEW items, IsList(bytes), IsList(items), HoldsList(bytes, at, items)
    PROVE  /\ HasItems(bytes, at) /\ ItemsAt(bytes, at) = items
           /\ AfterItems(bytes, at) = at + Len(items) + 1
<1>1. /\ Len(bytes) \in Nat /\ DOMAIN bytes = 1..Len(bytes)
      /\ Len(items) \in Nat /\ items = [i \in 1..Len(items) |-> items[i]]
  BY ListLength
<1>2. bytes[at].count = Len(items) /\ at \in 1..Len(bytes) /\ at + Len(items) <= Len(bytes)
  BY DEF HoldsList
<1>3. HasItems(bytes, at) /\ AfterItems(bytes, at) = at + Len(items) + 1
  BY <1>1, <1>2 DEF HasItems, AfterItems
<1>4. SubSeq(bytes, at + 1, at + Len(items)) = items
  <2> DEFINE part == SubSeq(bytes, at + 1, at + Len(items))
  <2>1. part = [i \in 1..((at + Len(items)) - (at + 1) + 1) |-> bytes[i + (at + 1) - 1]]
    BY <1>1, <1>2
  <2>2. (at + Len(items)) - (at + 1) + 1 = Len(items)
    BY <1>1, <1>2
  <2>3. \A i \in 1..Len(items) : bytes[i + (at + 1) - 1] = items[i]
    <3>1. \A i \in 1..Len(items) : i + (at + 1) - 1 = at + i
      BY <1>1, <1>2
    <3> QED
      BY <3>1 DEF HoldsList
  <2> HIDE DEF part
  <2>4. part = [i \in 1..Len(items) |-> items[i]]
    BY <2>1, <2>2, <2>3
  <2> QED
    BY <1>1, <2>4 DEF part
<1> QED
  BY <1>2, <1>3, <1>4 DEF ItemsAt

\* Bytes cut short or run on agree up to the last one, and have another length.
LEMMA DamagedBytes ==
    ASSUME NEW bytes, IsList(bytes), Len(bytes) > 0, NEW other \in Damaged(bytes)
    PROVE  /\ IsList(other) /\ Len(other) # Len(bytes) /\ Len(other) >= Len(bytes) - 1
           /\ AgreeUpTo(bytes, other, Len(bytes) - 1)
<1>0. PICK n \in Nat : n = Len(bytes) /\ n > 0
  BY ListLength
<1>1. DOMAIN bytes = 1..n /\ bytes \in Seq(Range(bytes))
  BY <1>0, ListLength DEF IsList
<1>2. CASE other = Front(bytes)
  <2>1. other = SubSeq(bytes, 1, n - 1) /\ n - 1 \in 0..n
    BY <1>0, <1>2 DEF Front
  <2>2. /\ Len(other) = n - 1 /\ DOMAIN other = 1..(n - 1) /\ other \in Seq(Range(bytes))
        /\ \A i \in 1..(n - 1) : other[i] = bytes[i]
    BY <1>0, <1>1, <2>1, PrefixShape
  <2>3. other = [i \in 1..(n - 1) |-> other[i]]
    BY <2>2, ListShape
  <2>4. IsList(other)
    <3>1. n - 1 \in Nat
      BY <1>0
    <3> QED
      BY <2>3, <3>1, FunctionIsList DEF IsList
  <2> QED
    BY <1>0, <2>2, <2>4 DEF AgreeUpTo
<1>3. CASE other = Append(bytes, bytes[Len(bytes)])
  <2>1. /\ other \in Seq(Range(other)) /\ Len(other) = n + 1
        /\ \A k \in DOMAIN bytes : other[k] = bytes[k]
    BY <1>0, <1>1, <1>3, AppendedList
  <2>2. IsList(other)
    BY <2>1 DEF IsList
  <2>3. \A k \in 1..(n - 1) : other[k] = bytes[k]
    BY <1>0, <1>1, <2>1
  <2> QED
    BY <1>0, <2>1, <2>2, <2>3 DEF AgreeUpTo
<1> QED
  BY <1>2, <1>3 DEF Damaged

LEMMA ReverseTwice ==
    ASSUME NEW items, IsList(items)
    PROVE  IsList(Reverse(items)) /\ Reverse(Reverse(items)) = items
<1>0. PICK n \in Nat : n = Len(items)
  BY ListLength
<1>1. items = [i \in 1..n |-> items[i]]
  BY <1>0, ListLength
<1>2. Reverse(items) = [i \in 1..n |-> items[(n - i) + 1]]
  BY <1>0 DEF Reverse
<1> DEFINE back == Reverse(items)
<1>3. back = [i \in 1..n |-> back[i]] /\ \A i \in 1..n : back[i] = items[(n - i) + 1]
  BY <1>2
<1> HIDE DEF back
<1>4. back \in Seq(Range(back)) /\ Len(back) = n
  BY <1>3, FunctionIsList
<1>5. Reverse(back) = [i \in 1..n |-> back[(n - i) + 1]]
  BY <1>4 DEF Reverse
<1>6. \A i \in 1..n : (n - i) + 1 \in 1..n /\ (n - ((n - i) + 1)) + 1 = i
  OBVIOUS
<1>7. \A i \in 1..n : back[(n - i) + 1] = items[i]
  BY <1>3, <1>6
<1>8. Reverse(back) = [i \in 1..n |-> items[i]]
  BY <1>5, <1>7
<1> QED
  BY <1>1, <1>4, <1>8 DEF back, IsList

LEMMA WireTwice ==
    ASSUME NEW outpoint, IsOutpoint(outpoint)
    PROVE  IsOutpoint(Wire(outpoint)) /\ Wire(Wire(outpoint)) = outpoint
<1> DEFINE wired == Wire(outpoint)
<1>1. outpoint = [field \in {"txid", "vout"} |-> outpoint[field]] /\ IsList(outpoint.txid)
  BY DEF IsOutpoint, HasFields
<1>2. wired = [outpoint EXCEPT !.txid = Reverse(outpoint.txid)]
  BY DEF Wire
<1>3. /\ wired = [field \in {"txid", "vout"} |-> wired[field]]
      /\ wired.txid = Reverse(outpoint.txid) /\ wired.vout = outpoint.vout
  BY <1>1, <1>2
<1> HIDE DEF wired
<1>4. IsList(wired.txid) /\ Reverse(wired.txid) = outpoint.txid
  BY <1>1, <1>3, ReverseTwice
<1>5. Wire(wired) = [wired EXCEPT !.txid = outpoint.txid]
  BY <1>4 DEF Wire
<1>6. Wire(wired) = outpoint
  BY <1>1, <1>3, <1>5
<1> QED
  BY <1>3, <1>4, <1>6 DEF wired, IsOutpoint, HasFields

\* A record whose outpoint is turned twice is as it was.
LEMMA TurnedTwice ==
    ASSUME NEW record, NEW fields, HasFields(record, fields), "outpoint" \in fields,
           IsOutpoint(record.outpoint)
    PROVE  LET turned == [record EXCEPT !.outpoint = Wire(@)]
           IN  /\ HasFields(turned, fields) /\ IsOutpoint(turned.outpoint)
               /\ [turned EXCEPT !.outpoint = Wire(@)] = record
<1> DEFINE turned == [record EXCEPT !.outpoint = Wire(@)]
<1>1. record = [field \in fields |-> record[field]]
  BY DEF HasFields
<1>2. turned = [record EXCEPT !.outpoint = Wire(record.outpoint)]
  OBVIOUS
<1>3. /\ turned = [field \in fields |-> turned[field]]
      /\ turned.outpoint = Wire(record.outpoint)
      /\ \A field \in fields : field # "outpoint" => turned[field] = record[field]
  BY <1>1, <1>2
<1> HIDE DEF turned
<1>4. IsOutpoint(turned.outpoint) /\ Wire(turned.outpoint) = record.outpoint
  BY <1>3, WireTwice
<1>5. [turned EXCEPT !.outpoint = Wire(turned.outpoint)] = record
  BY <1>1, <1>3, <1>4
<1>6. [turned EXCEPT !.outpoint = Wire(@)] = record
  BY <1>5
<1> QED
  BY <1>3, <1>4, <1>6 DEF turned, HasFields

LEMMA WiredTwice ==
    ASSUME NEW items, IsList(items), NEW fields, "outpoint" \in fields,
           \A i \in DOMAIN items : HasFields(items[i], fields) /\ IsOutpoint(items[i].outpoint)
    PROVE  /\ IsList(Wired(items)) /\ Len(Wired(items)) = Len(items)
           /\ Wired(Wired(items)) = items
<1> DEFINE wired == Wired(items)
<1>0. PICK n \in Nat : n = Len(items)
  BY ListLength
<1>1. DOMAIN items = 1..n /\ items = [i \in 1..n |-> items[i]]
  BY <1>0, ListLength
<1>2. wired = [i \in 1..n |-> [items[i] EXCEPT !.outpoint = Wire(@)]]
  BY <1>1 DEF Wired
<1>3. /\ wired = [i \in 1..n |-> wired[i]] /\ DOMAIN wired = 1..n
      /\ \A i \in 1..n : wired[i] = [items[i] EXCEPT !.outpoint = Wire(@)]
  BY <1>2
<1> HIDE DEF wired
<1>4. IsList(wired) /\ Len(wired) = n
  BY <1>3, FunctionIsList DEF IsList
<1>5. ASSUME NEW i \in 1..n PROVE [wired[i] EXCEPT !.outpoint = Wire(@)] = items[i]
  BY <1>1, <1>3, TurnedTwice
<1>6. Wired(wired) = [i \in 1..n |-> [wired[i] EXCEPT !.outpoint = Wire(@)]]
  BY <1>3 DEF Wired
<1>7. Wired(wired) = [i \in 1..n |-> items[i]]
  BY <1>5, <1>6
<1> QED
  BY <1>0, <1>1, <1>4, <1>7 DEF wired

\* The projection of a statement V0 is read from its bytes.
LEMMA ProjectionIsRead ==
    ASSUME NEW projection, IsProjection(projection)
    PROVE  ParseProjection(EncodeProjection(projection)) = projection
<1> DEFINE inputs == projection.inputs
           outputs == projection.outputs
           wired == Wired(inputs)
           first == Counted(wired)
           bytes == EncodeProjection(projection)
           second == AfterItems(bytes, 1)
<1>1. /\ IsList(inputs) /\ IsList(outputs)
      /\ projection = [inputs |-> inputs, outputs |-> outputs]
      /\ \A i \in DOMAIN inputs : /\ HasFields(inputs[i], {"outpoint", "value", "role"})
                                  /\ IsOutpoint(inputs[i].outpoint)
  BY DEF IsProjection, Bounded, IsProjectionInput, HasFields
<1>2. IsList(wired) /\ Len(wired) = Len(inputs) /\ Wired(wired) = inputs
  <2> HIDE DEF wired, inputs
  <2>1. "outpoint" \in {"outpoint", "value", "role"}
    OBVIOUS
  <2> QED
    BY <1>1, <2>1, WiredTwice DEF wired
<1>3. bytes = first \o Counted(outputs)
  BY DEF EncodeProjection
<1> HIDE DEF inputs, outputs, wired, bytes
<1>4. IsList(first) /\ Len(first) = Len(wired) + 1 /\ HoldsList(first, 1, wired)
  <2> DEFINE none == << >>
             joined == none \o Counted(wired)
  <2>1. IsList(none) /\ Len(none) = 0
    BY DEF IsList
  <2>2. IsList(joined) /\ Len(joined) = 0 + Len(wired) + 1 /\ HoldsList(joined, 0 + 1, wired)
    BY <1>2, <2>1, ListAppended
  <2>3. joined = first
    <3>1. first \in Seq(Range(<<[count |-> Len(wired)]>>) \cup Range(wired))
      <4>1. wired \in Seq(Range(<<[count |-> Len(wired)]>>) \cup Range(wired))
        BY <1>2, ListShape DEF IsList
      <4>2. <<[count |-> Len(wired)]>> \in Seq(Range(<<[count |-> Len(wired)]>>) \cup Range(wired))
        BY DEF Range
      <4> QED
        BY <4>1, <4>2, ConcatShape DEF Counted
    <3> HIDE DEF first
    <3> QED
      BY <3>1 DEF first
  <2>4. Len(wired) \in Nat
    BY <1>2, ListLength
  <2> QED
    BY <2>2, <2>3, <2>4
<1> HIDE DEF first
<1>5. /\ IsList(bytes) /\ Len(bytes) = Len(first) + Len(outputs) + 1
      /\ AgreeUpTo(first, bytes, Len(first)) /\ HoldsList(bytes, Len(first) + 1, outputs)
  BY <1>1, <1>3, <1>4, ListAppended
<1>6. Len(first) \in Nat /\ Len(outputs) \in Nat /\ Len(wired) \in Nat
  BY <1>1, <1>2, <1>4, ListLength
<1>7. HoldsList(bytes, 1, wired)
  BY <1>2, <1>4, <1>5, <1>6, ListKept
<1>8. HasItems(bytes, 1) /\ ItemsAt(bytes, 1) = wired /\ second = Len(first) + 1
  <2>1. HasItems(bytes, 1) /\ ItemsAt(bytes, 1) = wired /\ second = 1 + Len(wired) + 1
    BY <1>2, <1>5, <1>7, ListIsRead
  <2> QED
    BY <1>4, <1>6, <2>1
<1>9. /\ HasItems(bytes, second) /\ ItemsAt(bytes, second) = outputs
      /\ AfterItems(bytes, second) = Len(bytes) + 1
  <2>1. /\ HasItems(bytes, second) /\ ItemsAt(bytes, second) = outputs
        /\ AfterItems(bytes, second) = Len(first) + 1 + Len(outputs) + 1
    BY <1>1, <1>5, <1>8, ListIsRead
  <2> QED
    BY <1>5, <1>6, <2>1
<1>10. [inputs |-> Wired(ItemsAt(bytes, 1)), outputs |-> ItemsAt(bytes, second)] = projection
  BY <1>1, <1>2, <1>8, <1>9
<1> HIDE DEF second
<1> QED
  BY <1>8, <1>9, <1>10 DEF ParseProjection, second, bytes

\* A settlement projection is read from its bytes, and from no others made of them.
LEMMA SettlementIsRead ==
    ASSUME NEW projection, IsSettlement(projection)
    PROVE  LET bytes == EncodeSettlement(projection)
           IN  /\ ParseSettlement(bytes) = projection
               /\ \A other \in Damaged(bytes) : ParseSettlement(other) = None
<1> DEFINE inputs == projection.inputs
           outputs == projection.outputs
           bytes == inputs \o outputs
<1>1. /\ IsList(inputs) /\ IsList(outputs) /\ Len(inputs) = 12 /\ Len(outputs) = 20
      /\ projection = [inputs |-> inputs, outputs |-> outputs, fee |-> projection.fee,
                       postage |-> projection.postage]
      /\ projection.fee = ExactFee(inputs, outputs) /\ projection.postage = Postage(outputs)
  BY DEF IsSettlement, HasFields, SettlementInputs, SettlementOutputs
<1>2. bytes = EncodeSettlement(projection)
  BY DEF EncodeSettlement
<1> HIDE DEF inputs, outputs
<1>3. /\ IsList(bytes) /\ Len(bytes) = 32
      /\ \A k \in 1..12 : bytes[k] = inputs[k]
      /\ \A k \in 1..20 : bytes[12 + k] = outputs[k]
  <2>1. /\ IsList(bytes) /\ Len(bytes) = Len(inputs) + Len(outputs)
        /\ \A k \in 1..Len(inputs) : bytes[k] = inputs[k]
        /\ \A k \in 1..Len(outputs) : bytes[Len(inputs) + k] = outputs[k]
    <3>1. IsList(inputs) /\ IsList(outputs)
      BY <1>1
    <3> QED
      BY <3>1, JoinedLists
  <2> HIDE DEF bytes
  <2> QED
    BY <1>1, <2>1
<1> HIDE DEF bytes
<1>4. /\ inputs = [i \in 1..12 |-> inputs[i]] /\ outputs = [i \in 1..20 |-> outputs[i]]
  <2>1. inputs = [i \in 1..Len(inputs) |-> inputs[i]]
    BY <1>1, ListLength
  <2>2. outputs = [i \in 1..Len(outputs) |-> outputs[i]]
    BY <1>1, ListLength
  <2> QED
    BY <1>1, <2>1, <2>2
<1>5. SubSeq(bytes, 1, 12) = inputs
  <2>1. SubSeq(bytes, 1, 12) = [i \in 1..12 |-> bytes[i]]
    BY <1>3
  <2> QED
    BY <1>3, <1>4, <2>1
<1>6. SubSeq(bytes, 13, 32) = outputs
  <2>1. SubSeq(bytes, 13, 32) = [i \in 1..20 |-> bytes[12 + i]]
    BY <1>3
  <2> QED
    BY <1>3, <1>4, <2>1
<1>7. ParseSettlement(bytes) = projection
  <2>1. [inputs |-> inputs, outputs |-> outputs, fee |-> ExactFee(inputs, outputs),
         postage |-> Postage(outputs)] = projection
    BY <1>1
  <2>2. SettlementInputs + 1 = 13 /\ SettlementInputs + SettlementOutputs = 32 /\ SettlementInputs = 12
    BY DEF SettlementInputs, SettlementOutputs
  <2> QED
    BY <1>2, <1>3, <1>5, <1>6, <2>1, <2>2 DEF ParseSettlement
<1>8. ASSUME NEW other \in Damaged(bytes) PROVE ParseSettlement(other) = None
  <2>1. Len(other) # 32
    <3>1. IsList(bytes) /\ Len(bytes) > 0
      BY <1>3
    <3>2. Len(other) # Len(bytes)
      BY <3>1, DamagedBytes
    <3>3. Len(bytes) = 32
      BY <1>3
    <3> QED
      BY <3>2, <3>3
  <2> QED
    BY <2>1 DEF ParseSettlement, SettlementInputs, SettlementOutputs
<1> QED
  BY <1>2, <1>7, <1>8

\* So is a current projection.
LEMMA CurrentIsRead ==
    ASSUME NEW projection, IsCurrent(projection)
    PROVE  LET bytes == EncodeCurrent(projection)
           IN  /\ ParseCurrent(bytes) = projection
               /\ \A other \in Damaged(bytes) : ParseCurrent(other) = None
<1> DEFINE inputs == projection.inputs
           outputs == projection.outputs
           wired == Wired(inputs)
           head == <<[head |-> projection.ids]>>
           front == head \o Counted(wired)
           both == front \o Counted(outputs)
           token == [tail |-> [fee |-> projection.fee, postage |-> projection.postage]]
           bytes == both \o <<token>>
           second == Len(wired) + 3
           last == second + Len(outputs) + 1
<1>1. /\ IsList(inputs) /\ IsList(outputs)
      /\ projection = [ids |-> projection.ids, inputs |-> inputs, outputs |-> outputs,
                       fee |-> projection.fee, postage |-> projection.postage]
      /\ \A i \in DOMAIN inputs : /\ HasFields(inputs[i], {"outpoint", "value", "role", "mapped"})
                                  /\ IsOutpoint(inputs[i].outpoint)
  BY DEF IsCurrent, Bounded, IsCurrentInput, HasFields
<1>2. bytes = EncodeCurrent(projection)
  BY DEF EncodeCurrent
<1> HIDE DEF inputs, outputs
<1>3. IsList(wired) /\ Len(wired) = Len(inputs) /\ Wired(wired) = inputs
  <2>1. "outpoint" \in {"outpoint", "value", "role", "mapped"}
    OBVIOUS
  <2> QED
    BY <1>1, <2>1, WiredTwice
<1> HIDE DEF wired
<1>4. IsList(head) /\ Len(head) = 1 /\ head[1] = [head |-> projection.ids]
  BY OneToken
<1> HIDE DEF head
<1>5. Len(wired) \in Nat /\ Len(outputs) \in Nat
  BY <1>1, <1>3, ListLength
<1>6. /\ IsList(front) /\ Len(front) = Len(wired) + 2 /\ AgreeUpTo(head, front, 1)
      /\ HoldsList(front, 2, wired)
  <2>1. /\ IsList(front) /\ Len(front) = Len(head) + Len(wired) + 1
        /\ AgreeUpTo(head, front, Len(head)) /\ HoldsList(front, Len(head) + 1, wired)
    BY <1>3, <1>4, ListAppended
  <2> HIDE DEF front
  <2>2. Len(head) + 1 = 2 /\ Len(head) + Len(wired) + 1 = Len(wired) + 2
    BY <1>4, <1>5
  <2> QED
    BY <1>4, <2>1, <2>2
<1> HIDE DEF front
<1>7. /\ IsList(both) /\ Len(both) = last - 1 /\ AgreeUpTo(front, both, Len(front))
      /\ HoldsList(both, second, outputs)
  <2>1. /\ IsList(both) /\ Len(both) = Len(front) + Len(outputs) + 1
        /\ AgreeUpTo(front, both, Len(front)) /\ HoldsList(both, Len(front) + 1, outputs)
    BY <1>1, <1>6, ListAppended
  <2> HIDE DEF both
  <2>2. Len(front) + 1 = second /\ Len(front) + Len(outputs) + 1 = last - 1
    BY <1>5, <1>6
  <2> HIDE DEF second, last
  <2> QED
    BY <2>1, <2>2
<1> HIDE DEF both
<1>8. /\ IsList(bytes) /\ Len(bytes) = last /\ AgreeUpTo(both, bytes, last - 1)
      /\ bytes[last] = token
  <2>1. IsList(<<token>>) /\ Len(<<token>>) = 1 /\ <<token>>[1] = token
    BY OneToken
  <2> HIDE DEF token
  <2>2. /\ IsList(bytes) /\ Len(bytes) = Len(both) + 1
        /\ \A k \in 1..Len(both) : bytes[k] = both[k]
        /\ \A k \in 1..1 : bytes[Len(both) + k] = <<token>>[k]
    BY <1>7, <2>1, JoinedLists
  <2> HIDE DEF bytes
  <2>3. 1 \in 1..1 /\ Len(both) + 1 = last
    BY <1>5, <1>7
  <2> HIDE DEF last
  <2> QED
    BY <1>7, <2>1, <2>2, <2>3 DEF AgreeUpTo
<1> HIDE DEF bytes, token
<1>9. last \in Nat /\ last - 1 \in Nat /\ second \in Nat
  BY <1>5
\* Bytes that agree with these up to the last one hold both lists.
<1>10. ASSUME NEW other, IsList(other), AgreeUpTo(bytes, other, last - 1), last - 1 <= Len(other)
       PROVE  /\ HasItems(other, 2) /\ ItemsAt(other, 2) = wired /\ AfterItems(other, 2) = second
              /\ HasItems(other, second) /\ ItemsAt(other, second) = outputs
              /\ AfterItems(other, second) = last
  <2>1. AgreeUpTo(both, other, last - 1)
    BY <1>8, <1>10 DEF AgreeUpTo
  <2>2. HoldsList(other, second, outputs)
    <3>1. second + Len(outputs) <= last - 1
      BY <1>5
    <3> HIDE DEF second, last
    <3> QED
      BY <1>1, <1>7, <1>9, <1>10, <2>1, <3>1, ListKept
  <2>3. HoldsList(other, 2, wired)
    <3>1. 2 + Len(wired) <= Len(front) /\ Len(front) \in Nat /\ Len(front) <= last - 1
      BY <1>5, <1>6
    <3>2. AgreeUpTo(front, other, Len(front))
      <4>1. \A k \in 1..Len(front) : k \in 1..(last - 1)
        BY <1>9, <3>1
      <4> HIDE DEF last
      <4> QED
        BY <1>7, <2>1, <4>1 DEF AgreeUpTo
    <3>3. Len(front) <= Len(other)
      <4>1. Len(other) \in Nat
        BY <1>10, ListLength
      <4> HIDE DEF last
      <4> QED
        BY <1>9, <1>10, <3>1, <4>1
    <3> QED
      BY <1>3, <1>6, <1>10, <3>1, <3>2, <3>3, ListKept
  <2>4. HasItems(other, 2) /\ ItemsAt(other, 2) = wired /\ AfterItems(other, 2) = 2 + Len(wired) + 1
    BY <1>3, <1>10, <2>3, ListIsRead
  <2>5. /\ HasItems(other, second) /\ ItemsAt(other, second) = outputs
        /\ AfterItems(other, second) = second + Len(outputs) + 1
    <3> HIDE DEF second
    <3> QED
      BY <1>1, <1>10, <2>2, ListIsRead
  <2>6. 2 + Len(wired) + 1 = second /\ second + Len(outputs) + 1 = last
    BY <1>5
  <2> HIDE DEF second, last
  <2> QED
    BY <2>4, <2>5, <2>6
<1>11. bytes[1] = [head |-> projection.ids]
  <2>1. 1 \in 1..1 /\ 1 \in 1..Len(front) /\ 1 \in 1..(last - 1)
    BY <1>5, <1>6
  <2> HIDE DEF last
  <2> QED
    BY <1>4, <1>6, <1>7, <1>8, <2>1 DEF AgreeUpTo
<1> HIDE DEF last, second
<1>12. ParseCurrent(bytes) = projection
  <2>1. AgreeUpTo(bytes, bytes, last - 1) /\ last - 1 <= Len(bytes)
    BY <1>8, <1>9 DEF AgreeUpTo
  <2>2. /\ HasItems(bytes, 2) /\ ItemsAt(bytes, 2) = wired /\ AfterItems(bytes, 2) = second
        /\ HasItems(bytes, second) /\ ItemsAt(bytes, second) = outputs
        /\ AfterItems(bytes, second) = last
    BY <1>8, <1>10, <2>1
  <2>3. bytes[1].head = projection.ids
    BY <1>11
  <2>4. bytes[last].tail.fee = projection.fee /\ bytes[last].tail.postage = projection.postage
    BY <1>8 DEF token
  <2>5. [ids |-> bytes[1].head, inputs |-> Wired(wired), outputs |-> outputs,
         fee |-> bytes[last].tail.fee, postage |-> bytes[last].tail.postage] = projection
    BY <1>1, <1>3, <2>3, <2>4
  <2> QED
    BY <1>2, <1>8, <2>2, <2>5 DEF ParseCurrent
<1>13. ASSUME NEW other \in Damaged(bytes) PROVE ParseCurrent(other) = None
  <2>1. Len(bytes) > 0
    BY <1>5, <1>8 DEF last, second
  <2>2. /\ IsList(other) /\ Len(other) # last /\ Len(other) >= last - 1
        /\ AgreeUpTo(bytes, other, last - 1)
    BY <1>8, <2>1, DamagedBytes
  <2>3. last - 1 <= Len(other)
    <3>1. Len(other) \in Nat
      BY <2>2, ListLength
    <3> QED
      BY <1>9, <2>2, <3>1
  <2>4. AfterItems(other, 2) = second /\ AfterItems(other, second) = last
    BY <1>10, <2>2, <2>3
  <2> QED
    BY <2>2, <2>4 DEF ParseCurrent
<1> QED
  BY <1>2, <1>12, <1>13

\* How a statement is laid out: fields, three counted lists, the closing fields.
Laid(front, notes, cells, scopes, token) ==
    front \o Counted(notes) \o Counted(cells) \o Counted(scopes) \o <<token>>

\* The lists are found in the bytes, and in no bytes cut short or run on.
LEMMA ThreeLists ==
    ASSUME NEW front, NEW notes, NEW cells, NEW scopes, NEW token,
           IsList(front), IsList(notes), IsList(cells), IsList(scopes)
    PROVE  LET bytes == Laid(front, notes, cells, scopes, token)
               at == Len(front) + 1
               places == Places3(bytes, at)
           IN  /\ AgreeUpTo(front, bytes, Len(front))
               /\ places # None
               /\ ItemsAt(bytes, places.notes) = notes /\ ItemsAt(bytes, places.cells) = cells
               /\ ItemsAt(bytes, places.scopes) = scopes /\ bytes[places.tail] = token
               /\ \A other \in Damaged(bytes) : Places3(other, at) = None
<1> DEFINE one == front \o Counted(notes)
           two == one \o Counted(cells)
           three == two \o Counted(scopes)
           bytes == three \o <<token>>
           a == Len(front) + 1
           b == a + Len(notes) + 1
           c == b + Len(cells) + 1
           d == c + Len(scopes) + 1
<1>1. Len(front) \in Nat /\ Len(notes) \in Nat /\ Len(cells) \in Nat /\ Len(scopes) \in Nat
  BY ListLength
<1>2. /\ IsList(one) /\ Len(one) = Len(front) + Len(notes) + 1
      /\ AgreeUpTo(front, one, Len(front)) /\ HoldsList(one, Len(front) + 1, notes)
  BY ListAppended
<1> HIDE DEF one
<1>3. /\ IsList(two) /\ Len(two) = Len(one) + Len(cells) + 1
      /\ AgreeUpTo(one, two, Len(one)) /\ HoldsList(two, Len(one) + 1, cells)
  BY <1>2, ListAppended
<1> HIDE DEF two
<1>4. /\ IsList(three) /\ Len(three) = Len(two) + Len(scopes) + 1
      /\ AgreeUpTo(two, three, Len(two)) /\ HoldsList(three, Len(two) + 1, scopes)
  BY <1>3, ListAppended
<1> HIDE DEF three
<1>5. /\ IsList(bytes) /\ Len(bytes) = Len(three) + 1 /\ AgreeUpTo(three, bytes, Len(three))
      /\ bytes[Len(three) + 1] = token
  <2>1. IsList(<<token>>) /\ Len(<<token>>) = 1 /\ <<token>>[1] = token
    BY OneToken
  <2>2. 1 \in 1..Len(<<token>>)
    BY <2>1
  <2> QED
    BY <1>4, <2>1, <2>2, JoinedLists DEF AgreeUpTo
<1> HIDE DEF bytes
<1>6. /\ Len(one) = b - 1 /\ Len(two) = c - 1 /\ Len(three) = d - 1 /\ Len(bytes) = d
      /\ Len(one) + 1 = b /\ Len(two) + 1 = c /\ Len(three) + 1 = d
      /\ a \in Nat /\ b \in Nat /\ c \in Nat /\ d \in Nat
      /\ a - 1 \in Nat /\ b - 1 \in Nat /\ c - 1 \in Nat /\ d - 1 \in Nat
      /\ a <= b /\ b <= c /\ c <= d
      /\ a + Len(notes) <= b - 1 /\ b + Len(cells) <= c - 1 /\ c + Len(scopes) <= d - 1
      /\ a + Len(notes) + 1 = b /\ b + Len(cells) + 1 = c /\ c + Len(scopes) + 1 = d
  BY <1>1, <1>2, <1>3, <1>4, <1>5
<1>7. Len(front) = a - 1 /\ Len(front) + 1 = a
  BY <1>1
<1> HIDE DEF a, b, c, d
\* Bytes that agree with these up to the last one hold the three lists.
<1>8. ASSUME NEW other, IsList(other), AgreeUpTo(bytes, other, d - 1), d - 1 <= Len(other)
      PROVE  /\ AgreeUpTo(front, other, Len(front))
             /\ HasItems(other, a) /\ ItemsAt(other, a) = notes /\ AfterItems(other, a) = b
             /\ HasItems(other, b) /\ ItemsAt(other, b) = cells /\ AfterItems(other, b) = c
             /\ HasItems(other, c) /\ ItemsAt(other, c) = scopes /\ AfterItems(other, c) = d
  <2>0. /\ Len(other) \in Nat /\ b - 1 <= Len(other) /\ c - 1 <= Len(other)
    <3>1. Len(other) \in Nat
      BY <1>8, ListLength
    <3> QED
      BY <1>6, <1>8, <3>1
  <2>1. AgreeUpTo(three, other, d - 1)
    BY <1>5, <1>6, <1>8 DEF AgreeUpTo
  <2>2. AgreeUpTo(two, other, c - 1)
    <3>1. \A k \in 1..(c - 1) : k \in 1..(d - 1)
      BY <1>6
    <3> QED
      BY <1>4, <1>6, <2>1, <3>1 DEF AgreeUpTo
  <2>3. AgreeUpTo(one, other, b - 1)
    <3>1. \A k \in 1..(b - 1) : k \in 1..(c - 1)
      BY <1>6
    <3> QED
      BY <1>3, <1>6, <2>2, <3>1 DEF AgreeUpTo
  <2>4. AgreeUpTo(front, other, a - 1)
    <3>1. \A k \in 1..(a - 1) : k \in 1..(b - 1)
      BY <1>6
    <3> QED
      BY <1>2, <1>7, <2>3, <3>1 DEF AgreeUpTo
  <2>5. HoldsList(one, a, notes) /\ HoldsList(two, b, cells) /\ HoldsList(three, c, scopes)
    BY <1>2, <1>3, <1>4, <1>6, <1>7
  <2>6. HoldsList(other, a, notes)
    BY <1>2, <1>6, <1>8, <2>0, <2>3, <2>5, ListKept
  <2>7. HoldsList(other, b, cells)
    BY <1>3, <1>6, <1>8, <2>0, <2>2, <2>5, ListKept
  <2>8. HoldsList(other, c, scopes)
    BY <1>4, <1>6, <1>8, <2>0, <2>1, <2>5, ListKept
  <2>9. HasItems(other, a) /\ ItemsAt(other, a) = notes /\ AfterItems(other, a) = b
    BY <1>6, <1>8, <2>6, ListIsRead
  <2>10. HasItems(other, b) /\ ItemsAt(other, b) = cells /\ AfterItems(other, b) = c
    BY <1>6, <1>8, <2>7, ListIsRead
  <2>11. HasItems(other, c) /\ ItemsAt(other, c) = scopes /\ AfterItems(other, c) = d
    BY <1>6, <1>8, <2>8, ListIsRead
  <2> QED
    BY <1>7, <2>4, <2>9, <2>10, <2>11
<1>9. AgreeUpTo(bytes, bytes, d - 1) /\ d - 1 <= Len(bytes)
  BY <1>6 DEF AgreeUpTo
<1>10. /\ AgreeUpTo(front, bytes, Len(front))
       /\ HasItems(bytes, a) /\ ItemsAt(bytes, a) = notes /\ AfterItems(bytes, a) = b
       /\ HasItems(bytes, b) /\ ItemsAt(bytes, b) = cells /\ AfterItems(bytes, b) = c
       /\ HasItems(bytes, c) /\ ItemsAt(bytes, c) = scopes /\ AfterItems(bytes, c) = d
  BY <1>5, <1>8, <1>9
<1>11. Places3(bytes, a) = [notes |-> a, cells |-> b, scopes |-> c, tail |-> d]
  BY <1>6, <1>10 DEF Places3
<1>12. Places3(bytes, a) # None
  <2>1. "notes" \in DOMAIN Places3(bytes, a) /\ "notes" \notin DOMAIN None
    BY <1>11 DEF None
  <2> QED
    BY <2>1
<1>13. ASSUME NEW other \in Damaged(bytes) PROVE Places3(other, a) = None
  <2>1. Len(bytes) > 0
    BY <1>5, <1>6
  <2>2. /\ IsList(other) /\ Len(other) # d /\ Len(other) >= d - 1 /\ AgreeUpTo(bytes, other, d - 1)
    BY <1>5, <1>6, <2>1, DamagedBytes
  <2>3. d - 1 <= Len(other)
    <3>1. Len(other) \in Nat
      BY <2>2, ListLength
    <3> QED
      BY <1>6, <2>2, <3>1
  <2>4. AfterItems(other, a) = b /\ AfterItems(other, b) = c /\ AfterItems(other, c) = d
    BY <1>8, <2>2, <2>3
  <2> QED
    BY <2>2, <2>4 DEF Places3
<1>14. /\ AgreeUpTo(front, bytes, Len(front)) /\ Places3(bytes, a) # None
       /\ ItemsAt(bytes, Places3(bytes, a).notes) = notes
       /\ ItemsAt(bytes, Places3(bytes, a).cells) = cells
       /\ ItemsAt(bytes, Places3(bytes, a).scopes) = scopes
       /\ bytes[Places3(bytes, a).tail] = token
       /\ \A other \in Damaged(bytes) : Places3(other, a) = None
  BY <1>5, <1>6, <1>10, <1>11, <1>12, <1>13
<1> QED
  BY <1>14 DEF one, two, three, bytes, a, Laid

\* What is known of an answered record: it is in order, and it passes every check.
Normal0(record) ==
    /\ InOrder(record) = record
    /\ NamesFields(record, Fields0)
    /\ IsProjection(record.projection)
    /\ AreCreatedNotes(record.notes) /\ AreBackingCells(record.cells)
    /\ Corresponds0(record) /\ Belongs0(record)
Normal1(record) ==
    /\ InOrder(record) = record
    /\ NamesFields(record, Fields1)
    /\ AreCreatedNotes(record.notes) /\ AreBackingCells(record.cells)
    /\ References1Hold(record.scopes) /\ SealIsClosed(record)
    /\ Scopes1Belong(record) /\ ScopesAreNamed(record)

LEMMA ScopeIsRead ==
    ASSUME NEW scope
    PROVE  /\ IsScope0(scope) => ParseScope0(EncodeScope0(scope)) = scope
           /\ IsScope1(scope) => ParseScope1(EncodeScope1(scope)) = scope
<1>1. ASSUME IsScope0(scope) PROVE ParseScope0(EncodeScope0(scope)) = scope
  <2> DEFINE fields == {"network", "profile", "outpoint", "txid", "skeletons", "nonce"}
             turned == EncodeScope0(scope)
  <2>1. HasFields(scope, fields) /\ IsOutpoint(scope.outpoint) /\ IsComparable(scope.nonce)
    BY <1>1 DEF IsScope0
  <2>2. turned = [scope EXCEPT !.outpoint = Wire(@)]
    BY DEF EncodeScope0
  <2>3. "outpoint" \in fields /\ "nonce" \in fields
    OBVIOUS
  <2> HIDE DEF fields, turned
  <2>4. /\ HasFields(turned, fields) /\ IsOutpoint(turned.outpoint)
        /\ [turned EXCEPT !.outpoint = Wire(@)] = scope
    BY <2>1, <2>2, <2>3, TurnedTwice
  <2>5. turned.nonce = scope.nonce
    BY <2>1, <2>2, <2>3 DEF HasFields
  <2> QED
    BY <2>1, <2>4, <2>5 DEF ParseScope0, IsScope0, fields, turned
<1>2. ASSUME IsScope1(scope) PROVE ParseScope1(EncodeScope1(scope)) = scope
  <2> DEFINE fields == {"network", "profile", "outpoint", "skeletons", "nonce"}
             turned == EncodeScope1(scope)
  <2>1. HasFields(scope, fields) /\ IsOutpoint(scope.outpoint) /\ IsComparable(scope.nonce)
    BY <1>2 DEF IsScope1
  <2>2. turned = [scope EXCEPT !.outpoint = Wire(@)]
    BY DEF EncodeScope1
  <2>3. "outpoint" \in fields /\ "nonce" \in fields
    OBVIOUS
  <2> HIDE DEF fields, turned
  <2>4. /\ HasFields(turned, fields) /\ IsOutpoint(turned.outpoint)
        /\ [turned EXCEPT !.outpoint = Wire(@)] = scope
    BY <2>1, <2>2, <2>3, TurnedTwice
  <2>5. turned.nonce = scope.nonce
    BY <2>1, <2>2, <2>3 DEF HasFields
  <2> QED
    BY <2>1, <2>4, <2>5 DEF ParseScope1, IsScope1, fields, turned
<1> QED
  BY <1>1, <1>2

\* A reference whose scope is written and read is as it was.
LEMMA ReferenceIsRead ==
    ASSUME NEW reference, HasFields(reference, {"commitment", "scope"}), NEW written
    PROVE  LET turned == [reference EXCEPT !.scope = written]
           IN  /\ turned.scope = written
               /\ [turned EXCEPT !.scope = reference.scope] = reference
  BY DEF HasFields

LEMMA ReferencesAreRead ==
    ASSUME NEW references, IsList(references)
    PROVE  /\ References0Hold(references) =>
                  /\ IsList(EncodeReferences0(references))
                  /\ ParseReferences0(EncodeReferences0(references)) = references
           /\ References1Hold(references) =>
                  /\ IsList(EncodeReferences1(references))
                  /\ ParseReferences1(EncodeReferences1(references)) = references
<1>0. PICK n \in Nat : n = Len(references)
  BY ListLength
<1>1. DOMAIN references = 1..n /\ references = [i \in 1..n |-> references[i]]
  BY <1>0, ListLength
<1>2. ASSUME References0Hold(references)
      PROVE  /\ IsList(EncodeReferences0(references))
             /\ ParseReferences0(EncodeReferences0(references)) = references
  <2> DEFINE written == EncodeReferences0(references)
  <2>1. /\ written = [i \in 1..n |-> written[i]] /\ DOMAIN written = 1..n
        /\ \A i \in 1..n : written[i] = [references[i] EXCEPT !.scope = EncodeScope0(references[i].scope)]
    BY <1>1 DEF EncodeReferences0
  <2> HIDE DEF written
  <2>2. IsList(written)
    BY <2>1, FunctionIsList DEF IsList
  <2>3. ASSUME NEW i \in 1..n PROVE [written[i] EXCEPT !.scope = ParseScope0(@)] = references[i]
    <3>1. HasFields(references[i], {"commitment", "scope"}) /\ IsScope0(references[i].scope)
      BY <1>1, <1>2 DEF References0Hold, AreReferences0
    <3>2. /\ written[i].scope = EncodeScope0(references[i].scope)
          /\ [written[i] EXCEPT !.scope = references[i].scope] = references[i]
      <4> DEFINE reference == references[i]
                 turned == [reference EXCEPT !.scope = EncodeScope0(reference.scope)]
      <4>1. written[i] = turned
        BY <2>1
      <4>2. /\ turned.scope = EncodeScope0(reference.scope)
            /\ [turned EXCEPT !.scope = reference.scope] = reference
        <5> HIDE DEF reference
        <5> QED
          BY <3>1, ReferenceIsRead DEF reference
      <4> QED
        BY <4>1, <4>2
    <3>3. ParseScope0(written[i].scope) = references[i].scope
      BY <3>1, <3>2, ScopeIsRead
    <3> QED
      BY <3>2, <3>3
  <2>4. ParseReferences0(written) = [i \in 1..n |-> references[i]]
    BY <2>1, <2>3 DEF ParseReferences0
  <2> QED
    BY <1>1, <2>2, <2>4 DEF written
<1>3. ASSUME References1Hold(references)
      PROVE  /\ IsList(EncodeReferences1(references))
             /\ ParseReferences1(EncodeReferences1(references)) = references
  <2> DEFINE written == EncodeReferences1(references)
  <2>1. /\ written = [i \in 1..n |-> written[i]] /\ DOMAIN written = 1..n
        /\ \A i \in 1..n : written[i] = [references[i] EXCEPT !.scope = EncodeScope1(references[i].scope)]
    BY <1>1 DEF EncodeReferences1
  <2> HIDE DEF written
  <2>2. IsList(written)
    BY <2>1, FunctionIsList DEF IsList
  <2>3. ASSUME NEW i \in 1..n PROVE [written[i] EXCEPT !.scope = ParseScope1(@)] = references[i]
    <3>1. HasFields(references[i], {"commitment", "scope"}) /\ IsScope1(references[i].scope)
      BY <1>1, <1>3 DEF References1Hold, AreReferences1
    <3>2. /\ written[i].scope = EncodeScope1(references[i].scope)
          /\ [written[i] EXCEPT !.scope = references[i].scope] = references[i]
      <4> DEFINE reference == references[i]
                 turned == [reference EXCEPT !.scope = EncodeScope1(reference.scope)]
      <4>1. written[i] = turned
        BY <2>1
      <4>2. /\ turned.scope = EncodeScope1(reference.scope)
            /\ [turned EXCEPT !.scope = reference.scope] = reference
        <5> HIDE DEF reference
        <5> QED
          BY <3>1, ReferenceIsRead DEF reference
      <4> QED
        BY <4>1, <4>2
    <3>3. ParseScope1(written[i].scope) = references[i].scope
      BY <3>1, <3>2, ScopeIsRead
    <3> QED
      BY <3>2, <3>3
  <2>4. ParseReferences1(written) = [i \in 1..n |-> references[i]]
    BY <2>1, <2>3 DEF ParseReferences1
  <2> QED
    BY <1>1, <2>2, <2>4 DEF written
<1> QED
  BY <1>2, <1>3

LEMMA IdentityIsRead ==
    ASSUME NEW record, NEW fields, NamesFields(record, fields)
    PROVE  LET id == ReadIdentity(WiredIdentity(record))
           IN  /\ id.network = record.network /\ id.profile = record.profile
               /\ id.funding = record.funding /\ id.open = record.open
               /\ id.close = record.close
<1> DEFINE head == WiredIdentity(record)
           funds == [record.funding EXCEPT !.outpoint = Wire(@)]
           close == [record.close EXCEPT !.outpoint = Wire(@)]
           id == ReadIdentity(head)
<1>1. [funds EXCEPT !.outpoint = Wire(@)] = record.funding
  <2>1. HasFields(record.funding, {"outpoint", "value"}) /\ IsOutpoint(record.funding.outpoint)
    BY DEF NamesFields
  <2>2. "outpoint" \in {"outpoint", "value"}
    OBVIOUS
  <2> QED
    BY <2>1, <2>2, TurnedTwice
<1>2. [close EXCEPT !.outpoint = Wire(@)] = record.close
  <2>1. HasFields(record.close, {"outpoint", "index", "seal"}) /\ IsOutpoint(record.close.outpoint)
    BY DEF NamesFields
  <2>2. "outpoint" \in {"outpoint", "index", "seal"}
    OBVIOUS
  <2> QED
    BY <2>1, <2>2, TurnedTwice
<1>3. head = [network |-> record.network, profile |-> record.profile, funding |-> funds,
              open |-> record.open, close |-> close]
  BY DEF WiredIdentity
<1> HIDE DEF funds, close, head
<1>4. id = [head EXCEPT !.funding = [head.funding EXCEPT !.outpoint = Wire(@)],
                        !.close = [head.close EXCEPT !.outpoint = Wire(@)]]
  BY <1>3 DEF ReadIdentity
<1>5. id = [head EXCEPT !.funding = record.funding, !.close = record.close]
  BY <1>1, <1>2, <1>3, <1>4
<1> HIDE DEF id
<1>6. /\ id.network = record.network /\ id.profile = record.profile
      /\ id.funding = record.funding /\ id.open = record.open
      /\ id.close = record.close
  BY <1>3, <1>5
<1> QED
  BY <1>6 DEF id, head

\* A statement V0 is read from its bytes, and from no others made of them.
LEMMA Statement0IsRead ==
    ASSUME NEW record, Normal0(record)
    PROVE  LET bytes == EncodeStatement0(record)
           IN  /\ ParseStatement0(bytes) = record
               /\ \A other \in Damaged(bytes) : ParseStatement0(other) = None
<1> DEFINE front == <<[head |-> WiredIdentity(record), txid |-> record.txid],
                      [projection |-> EncodeProjection(record.projection)]>>
           written == EncodeReferences0(record.scopes)
           token == [table |-> record.table, fee |-> record.fee, accounting |-> record.accounting]
           bytes == EncodeStatement0(record)
           at == Places3(bytes, 3)
           id == ReadIdentity(bytes[1].head)
           tail == bytes[at.tail]
           scopes == ItemsAt(bytes, at.scopes)
<1>1. HasFields(record, Fields0) /\ NamesFields(record, Fields0)
  BY DEF Normal0, NamesFields
<1>2. record # None
  <2>1. "network" \in DOMAIN record /\ "network" \notin DOMAIN None
    BY <1>1 DEF HasFields, Fields0, None
  <2> QED
    BY <2>1
<1>3. Normalised0(record) = record
  <2>1. record.projection # None
    <3>1. "inputs" \in DOMAIN record.projection /\ "inputs" \notin DOMAIN None
      BY DEF Normal0, IsProjection, HasFields, None
    <3> QED
      BY <3>1
  <2> QED
    BY <1>1, <2>1 DEF Normal0, Normalised0, Corresponds0, Belongs0
<1>4. /\ IsList(record.notes) /\ IsList(record.cells) /\ IsList(written)
      /\ ParseReferences0(written) = record.scopes
  <2>1. /\ IsList(record.notes) /\ IsList(record.cells) /\ IsList(record.scopes)
        /\ References0Hold(record.scopes)
    BY DEF Normal0, AreCreatedNotes, AreBackingCells, Bounded, Corresponds0,
           References0Hold, AreReferences0
  <2> QED
    BY <2>1, ReferencesAreRead
<1>5. /\ IsList(front) /\ Len(front) = 2
      /\ front[1].head = WiredIdentity(record) /\ front[1].txid = record.txid
      /\ front[2].projection = EncodeProjection(record.projection)
  <2>1. front \in Seq(Range(front))
    BY DEF Range
  <2> QED
    BY <2>1 DEF IsList
<1>6. bytes = Laid(front, record.notes, record.cells, written, token)
  BY DEF EncodeStatement0, Laid
<1>7. /\ bytes[1].head = WiredIdentity(record) /\ bytes[1].txid = record.txid
      /\ bytes[2].projection = EncodeProjection(record.projection)
      /\ at # None
      /\ ItemsAt(bytes, at.notes) = record.notes /\ ItemsAt(bytes, at.cells) = record.cells
      /\ scopes = written /\ tail = token
      /\ \A other \in Damaged(bytes) : Places3(other, 3) = None
  <2> DEFINE notes == record.notes
             cells == record.cells
             whole == Laid(front, notes, cells, written, token)
  <2>0. bytes = whole
    BY <1>6
  <2> HIDE DEF front, written, token, bytes, notes, cells
  <2>1. LET places == Places3(whole, Len(front) + 1)
        IN  /\ AgreeUpTo(front, whole, Len(front))
            /\ places # None
            /\ ItemsAt(whole, places.notes) = notes /\ ItemsAt(whole, places.cells) = cells
            /\ ItemsAt(whole, places.scopes) = written /\ whole[places.tail] = token
            /\ \A other \in Damaged(whole) : Places3(other, Len(front) + 1) = None
    <3>1. IsList(front) /\ IsList(notes) /\ IsList(cells) /\ IsList(written)
      BY <1>4, <1>5 DEF notes, cells
    <3> QED
      BY <3>1, ThreeLists
  <2> HIDE DEF whole
  <2>2. Len(front) + 1 = 3
    BY <1>5
  <2>3. bytes[1] = front[1] /\ bytes[2] = front[2]
    BY <1>5, <2>0, <2>1 DEF AgreeUpTo
  <2> QED
    BY <1>5, <2>0, <2>1, <2>2, <2>3 DEF notes, cells
<1>8. ReadStatement0(bytes, at) = record
  <2>1. /\ id.network = record.network /\ id.profile = record.profile
        /\ id.funding = record.funding /\ id.open = record.open /\ id.close = record.close
    BY <1>1, <1>7, IdentityIsRead
  <2>2. tail.table = record.table /\ tail.fee = record.fee /\ tail.accounting = record.accounting
    BY <1>7
  <2>3. ParseReferences0(scopes) = record.scopes
    BY <1>4, <1>7
  <2>4. record = [network |-> record.network, profile |-> record.profile, funding |-> record.funding,
                  open |-> record.open, close |-> record.close, txid |-> record.txid,
                  projection |-> record.projection, notes |-> record.notes, cells |-> record.cells,
                  scopes |-> record.scopes, table |-> record.table, fee |-> record.fee,
                  accounting |-> record.accounting]
    BY <1>1 DEF HasFields, Fields0
  <2>5. ParseProjection(bytes[2].projection) = record.projection
    BY <1>7, ProjectionIsRead DEF Normal0
  <2> HIDE DEF id, tail, scopes, at, written, token, bytes
  <2> QED
    BY <1>7, <2>1, <2>2, <2>3, <2>4, <2>5 DEF ReadStatement0, id, tail, scopes
<1>9. ParseStatement0(bytes) = record
  <2> HIDE DEF at, bytes, front, written, token, id, tail, scopes
  <2> QED
    BY <1>2, <1>3, <1>7, <1>8 DEF ParseStatement0, at, bytes
<1>10. ASSUME NEW other \in Damaged(bytes) PROVE ParseStatement0(other) = None
  BY <1>7, <1>10 DEF ParseStatement0
<1> QED
  BY <1>9, <1>10

\* A statement V1 is read from its bytes, and from no others made of them.
LEMMA Statement1IsRead ==
    ASSUME NEW record, Normal1(record)
    PROVE  LET bytes == EncodeStatement1(record)
           IN  /\ ParseStatement1(bytes) = record
               /\ \A other \in Damaged(bytes) : ParseStatement1(other) = None
<1> DEFINE front == <<[head |-> WiredIdentity(record), settlement |-> record.settlement]>>
           written == EncodeReferences1(record.scopes)
           token == [table |-> record.table, fee |-> record.fee]
           bytes == EncodeStatement1(record)
           at == Places3(bytes, 2)
           id == ReadIdentity(bytes[1].head)
           tail == bytes[at.tail]
           scopes == ItemsAt(bytes, at.scopes)
<1>1. HasFields(record, Fields1) /\ NamesFields(record, Fields1)
  BY DEF Normal1, NamesFields
<1>2. record # None
  <2>1. "network" \in DOMAIN record /\ "network" \notin DOMAIN None
    BY <1>1 DEF HasFields, Fields1, None
  <2> QED
    BY <2>1
<1>3. Normalised1(record) = record
  BY <1>1 DEF Normal1, Normalised1
<1>4. /\ IsList(record.notes) /\ IsList(record.cells) /\ IsList(written)
      /\ ParseReferences1(written) = record.scopes
  <2>1. /\ IsList(record.notes) /\ IsList(record.cells) /\ IsList(record.scopes)
        /\ References1Hold(record.scopes)
    BY DEF Normal1, AreCreatedNotes, AreBackingCells, Bounded, References1Hold, AreReferences1
  <2> QED
    BY <2>1, ReferencesAreRead
<1>5. /\ IsList(front) /\ Len(front) = 1
      /\ front[1].head = WiredIdentity(record) /\ front[1].settlement = record.settlement
  <2>1. front \in Seq(Range(front))
    BY DEF Range
  <2> QED
    BY <2>1 DEF IsList
<1>6. bytes = Laid(front, record.notes, record.cells, written, token)
  BY DEF EncodeStatement1, Laid
<1>7. /\ bytes[1].head = WiredIdentity(record) /\ bytes[1].settlement = record.settlement
      /\ at # None
      /\ ItemsAt(bytes, at.notes) = record.notes /\ ItemsAt(bytes, at.cells) = record.cells
      /\ scopes = written /\ tail = token
      /\ \A other \in Damaged(bytes) : Places3(other, 2) = None
  <2> DEFINE notes == record.notes
             cells == record.cells
             whole == Laid(front, notes, cells, written, token)
  <2>0. bytes = whole
    BY <1>6
  <2> HIDE DEF front, written, token, bytes, notes, cells
  <2>1. LET places == Places3(whole, Len(front) + 1)
        IN  /\ AgreeUpTo(front, whole, Len(front))
            /\ places # None
            /\ ItemsAt(whole, places.notes) = notes /\ ItemsAt(whole, places.cells) = cells
            /\ ItemsAt(whole, places.scopes) = written /\ whole[places.tail] = token
            /\ \A other \in Damaged(whole) : Places3(other, Len(front) + 1) = None
    <3>1. IsList(front) /\ IsList(notes) /\ IsList(cells) /\ IsList(written)
      BY <1>4, <1>5 DEF notes, cells
    <3> QED
      BY <3>1, ThreeLists
  <2> HIDE DEF whole
  <2>2. Len(front) + 1 = 2
    BY <1>5
  <2>3. bytes[1] = front[1]
    BY <1>5, <2>0, <2>1 DEF AgreeUpTo
  <2> QED
    BY <1>5, <2>0, <2>1, <2>2, <2>3 DEF notes, cells
<1>8. ReadStatement1(bytes, at) = record
  <2>1. /\ id.network = record.network /\ id.profile = record.profile
        /\ id.funding = record.funding /\ id.open = record.open /\ id.close = record.close
    BY <1>1, <1>7, IdentityIsRead
  <2>2. tail.table = record.table /\ tail.fee = record.fee
    BY <1>7
  <2>3. ParseReferences1(scopes) = record.scopes
    BY <1>4, <1>7
  <2>4. record = [network |-> record.network, profile |-> record.profile, funding |-> record.funding,
                  open |-> record.open, close |-> record.close, settlement |-> record.settlement,
                  notes |-> record.notes, cells |-> record.cells,
                  scopes |-> record.scopes, table |-> record.table, fee |-> record.fee]
    BY <1>1 DEF HasFields, Fields1
  <2> HIDE DEF id, tail, scopes, at, written, token, bytes
  <2> QED
    BY <1>7, <2>1, <2>2, <2>3, <2>4 DEF ReadStatement1, id, tail, scopes
<1>9. ParseStatement1(bytes) = record
  <2> HIDE DEF at, bytes, front, written, token, id, tail, scopes
  <2> QED
    BY <1>2, <1>3, <1>7, <1>8 DEF ParseStatement1, at, bytes
<1>10. ASSUME NEW other \in Damaged(bytes) PROVE ParseStatement1(other) = None
  BY <1>7, <1>10 DEF ParseStatement1
<1> QED
  BY <1>9, <1>10

\* A sorted list has the items of the list.
LEMMA SortedItems ==
    ASSUME NEW items, IsList(items), NEW keys, keys \in [1..Len(items) -> Int]
    PROVE  /\ IsList(SortedBy(items, keys)) /\ Len(SortedBy(items, keys)) = Len(items)
           /\ \A i \in 1..Len(items) : \E j \in 1..Len(items) : SortedBy(items, keys)[i] = items[j]
           /\ \A field : ToSet(Column(SortedBy(items, keys), field)) = ToSet(Column(items, field))
<1>0. PICK n \in Nat : n = Len(items)
  BY ListLength
<1> DEFINE sorted == SortedBy(items, keys)
<1>1. DOMAIN items = 1..n /\ items = [i \in 1..n |-> items[i]]
  BY <1>0, ListLength
<1>2. PICK order : IsSortingOrder(order, items, keys, n)
  <2>1. IsArray(items, n)
    BY <1>1 DEF IsArray
  <2> QED
    BY <1>0, <2>1, SortedOrder
<1>3. /\ order \in [1..n -> 1..n] /\ sorted = [k \in 1..n |-> items[order[k]]]
      /\ \A j \in 1..n : \E k \in 1..n : order[k] = j
  BY <1>2 DEF IsSortingOrder
<1> HIDE DEF sorted
<1>4. /\ sorted = [k \in 1..n |-> sorted[k]] /\ DOMAIN sorted = 1..n
      /\ \A k \in 1..n : sorted[k] = items[order[k]] /\ order[k] \in 1..n
  BY <1>3
<1>5. IsList(sorted) /\ Len(sorted) = n
  BY <1>4, FunctionIsList DEF IsList
<1>6. ASSUME NEW field PROVE ToSet(Column(sorted, field)) = ToSet(Column(items, field))
  <2> DEFINE a == Column(sorted, field)
             b == Column(items, field)
  <2>1. DOMAIN a = 1..n /\ \A k \in 1..n : a[k] = items[order[k]][field]
    BY <1>4 DEF Column
  <2>2. DOMAIN b = 1..n /\ \A k \in 1..n : b[k] = items[k][field]
    BY <1>1 DEF Column
  <2> HIDE DEF a, b
  <2>3. \A k \in 1..n : a[k] = b[order[k]]
    BY <1>4, <2>1, <2>2
  <2>4. ASSUME NEW x \in ToSet(a) PROVE x \in ToSet(b)
    <3>1. PICK k \in 1..n : x = a[k]
      BY <2>1 DEF ToSet
    <3> QED
      BY <1>4, <2>2, <2>3, <3>1 DEF ToSet
  <2>5. ASSUME NEW x \in ToSet(b) PROVE x \in ToSet(a)
    <3>1. PICK j \in 1..n : x = b[j]
      BY <2>2 DEF ToSet
    <3>2. PICK k \in 1..n : order[k] = j
      BY <1>3
    <3>3. x = a[k]
      BY <2>3, <3>1, <3>2
    <3> QED
      BY <2>1, <3>3 DEF ToSet
  <2>6. ToSet(a) = ToSet(b)
    BY <2>4, <2>5
  <2> QED
    BY <2>6 DEF a, b
<1> QED
  BY <1>0, <1>4, <1>5, <1>6 DEF sorted

\* Sorting a sorted list, when the keys go with the items.
LEMMA SortedTwice ==
    ASSUME NEW items, IsList(items), NEW n \in Nat, n = Len(items),
           NEW keys \in [1..n -> Int], NEW again \in [1..n -> Int],
           \A i, j \in 1..n : SortedBy(items, keys)[i] = items[j] => again[i] = keys[j]
    PROVE  SortedBy(SortedBy(items, keys), again) = SortedBy(items, keys)
<1> DEFINE sorted == SortedBy(items, keys)
<1>1. DOMAIN items = 1..n /\ items = [i \in 1..n |-> items[i]]
  BY ListLength
<1>2. PICK order : IsSortingOrder(order, items, keys, n)
  <2>1. IsArray(items, n)
    BY <1>1 DEF IsArray
  <2> QED
    BY <2>1, SortedOrder
<1>3. /\ order \in [1..n -> 1..n] /\ sorted = [k \in 1..n |-> items[order[k]]]
      /\ \A i, j \in 1..n : i < j => keys[order[i]] <= keys[order[j]]
  BY <1>2 DEF IsSortingOrder
<1> HIDE DEF sorted
<1>4. /\ IsArray(sorted, n) /\ \A k \in 1..n : sorted[k] = items[order[k]] /\ order[k] \in 1..n
  BY <1>3 DEF IsArray
<1>5. \A k \in 1..n : again[k] = keys[order[k]]
  BY <1>4 DEF sorted
<1>6. \A i, j \in 1..n : i < j => again[i] <= again[j]
  BY <1>3, <1>5
<1>7. SortedBy(sorted, again) = sorted
  BY <1>4, <1>6, SortedAlready
<1> QED
  BY <1>7 DEF sorted

\* Distinct columns stay distinct, and a bounded list bounded.
LEMMA SortedDistinct ==
    ASSUME NEW items, NEW sorted, IsList(items), IsList(sorted), Len(sorted) = Len(items),
           \A field : ToSet(Column(sorted, field)) = ToSet(Column(items, field))
    PROVE  /\ Bounded(items) => Bounded(sorted)
           /\ \A field : Distinct(Column(items, field)) => Distinct(Column(sorted, field))
<1>0. PICK n \in Nat : n = Len(items)
  BY ListLength
<1>1. /\ DOMAIN items = 1..n /\ items = [i \in 1..n |-> items[i]]
      /\ DOMAIN sorted = 1..n /\ sorted = [i \in 1..n |-> sorted[i]]
  BY <1>0, ListLength
<1>2. ASSUME NEW field PROVE Distinct(Column(items, field)) => Distinct(Column(sorted, field))
  <2>1. Column(items, field) = [i \in 1..n |-> items[i][field]]
    BY <1>1 DEF Column
  <2>2. Column(sorted, field) = [i \in 1..n |-> sorted[i][field]]
    BY <1>1 DEF Column
  <2>3. Len(Column(items, field)) = n
    <3> DEFINE column == Column(items, field)
    <3>1. column = [i \in 1..n |-> column[i]]
      BY <2>1
    <3> HIDE DEF column
    <3>2. Len(column) = n
      BY <3>1, FunctionIsList
    <3> QED
      BY <3>2 DEF column
  <2>4. Len(Column(sorted, field)) = n
    <3> DEFINE column == Column(sorted, field)
    <3>1. column = [i \in 1..n |-> column[i]]
      BY <2>2
    <3> HIDE DEF column
    <3>2. Len(column) = n
      BY <3>1, FunctionIsList
    <3> QED
      BY <3>2 DEF column
  <2> QED
    BY <2>3, <2>4 DEF Distinct
<1>3. ASSUME Bounded(items) PROVE Bounded(sorted)
  <2>1. items # << >> /\ Len(items) <= ListCap
    BY <1>3 DEF Bounded
  <2>2. n # 0
    <3> SUFFICES ASSUME n = 0 PROVE FALSE
      OBVIOUS
    <3>1. items \in Seq(Range(items)) /\ Len(items) = 0
      BY <1>0 DEF IsList
    <3>2. items = << >>
      BY <3>1
    <3> QED
      BY <2>1, <3>2
  <2>3. sorted # << >>
    BY <1>0, <2>2
  <2> QED
    BY <2>1, <2>3 DEF Bounded
<1> QED
  BY <1>2, <1>3

LEMMA NotesOrdered ==
    ASSUME NEW notes, AreCreatedNotes(notes)
    PROVE  /\ AreCreatedNotes(ByCommitment(notes))
           /\ ByCommitment(ByCommitment(notes)) = ByCommitment(notes)
<1> DEFINE keys == Column(notes, "note")
           sorted == SortedBy(notes, keys)
           again == Column(sorted, "note")
<1>1. IsList(notes) /\ \A i \in DOMAIN notes : notes[i].note \in Int
  BY DEF AreCreatedNotes, Bounded, IsComparable
<1>2. PICK n \in Nat : n = Len(notes)
  BY <1>1, ListLength
<1>3. DOMAIN notes = 1..n
  BY <1>1, <1>2, ListLength
<1>4. keys \in [1..n -> Int] /\ \A i \in 1..n : keys[i] = notes[i].note
  BY <1>1, <1>3 DEF Column
<1> HIDE DEF keys
<1>5. /\ IsList(sorted) /\ Len(sorted) = n
      /\ \A i \in 1..n : \E j \in 1..n : sorted[i] = notes[j]
      /\ \A field : ToSet(Column(sorted, field)) = ToSet(Column(notes, field))
  <2>1. IsList(notes) /\ n = Len(notes) /\ keys \in [1..Len(notes) -> Int]
    BY <1>1, <1>2, <1>4
  <2> QED
    BY <2>1, SortedItems
<1> HIDE DEF sorted
<1>6. DOMAIN sorted = 1..n
  BY <1>5, ListLength
<1>7. \A i \in 1..n : sorted[i].note \in Int
  BY <1>1, <1>3, <1>5
<1>8. again \in [1..n -> Int] /\ \A i \in 1..n : again[i] = sorted[i].note
  BY <1>6, <1>7 DEF Column
<1> HIDE DEF again
<1>9. SortedBy(sorted, again) = sorted
  <2>1. \A i, j \in 1..n : sorted[i] = notes[j] => again[i] = keys[j]
    BY <1>4, <1>8
  <2> QED
    BY <1>1, <1>2, <1>4, <1>8, <2>1, SortedTwice DEF sorted
<1>10. ByCommitment(notes) = sorted /\ ByCommitment(sorted) = sorted
  BY <1>9 DEF ByCommitment, sorted, keys, again
<1>11. AreCreatedNotes(sorted)
  <2>1. /\ Bounded(notes) /\ Distinct(Column(notes, "note")) /\ Distinct(Column(notes, "hash"))
        /\ \A i \in DOMAIN notes : sorted[i].packet = i - 1
    BY <1>10 DEF AreCreatedNotes
  <2>2. Bounded(sorted) /\ Distinct(Column(sorted, "note")) /\ Distinct(Column(sorted, "hash"))
    BY <1>1, <1>2, <1>5, <2>1, SortedDistinct
  <2> QED
    BY <1>3, <1>6, <1>7, <1>10, <2>1, <2>2 DEF AreCreatedNotes, IsComparable
<1> QED
  BY <1>10, <1>11

LEMMA CellsOrdered ==
    ASSUME NEW cells, AreBackingCells(cells)
    PROVE  AreBackingCells(ByIndex(cells)) /\ ByIndex(ByIndex(cells)) = ByIndex(cells)
<1> DEFINE keys == Column(cells, "index")
           sorted == SortedBy(cells, keys)
           again == Column(sorted, "index")
<1>1. IsList(cells) /\ \A i \in DOMAIN cells : cells[i].index \in Nat
  BY DEF AreBackingCells, Bounded
<1>2. PICK n \in Nat : n = Len(cells)
  BY <1>1, ListLength
<1>3. DOMAIN cells = 1..n
  BY <1>1, <1>2, ListLength
<1>4. keys \in [1..n -> Int] /\ \A i \in 1..n : keys[i] = cells[i].index
  BY <1>1, <1>3 DEF Column
<1> HIDE DEF keys
<1>5. /\ IsList(sorted) /\ Len(sorted) = n
      /\ \A i \in 1..n : \E j \in 1..n : sorted[i] = cells[j]
      /\ \A field : ToSet(Column(sorted, field)) = ToSet(Column(cells, field))
  <2>1. IsList(cells) /\ n = Len(cells) /\ keys \in [1..Len(cells) -> Int]
    BY <1>1, <1>2, <1>4
  <2> QED
    BY <2>1, SortedItems
<1> HIDE DEF sorted
<1>6. DOMAIN sorted = 1..n
  BY <1>5, ListLength
<1>7. \A i \in 1..n : sorted[i].index \in Nat
  BY <1>1, <1>3, <1>5
<1>8. again \in [1..n -> Int] /\ \A i \in 1..n : again[i] = sorted[i].index
  BY <1>6, <1>7 DEF Column
<1> HIDE DEF again
<1>9. SortedBy(sorted, again) = sorted
  <2>1. \A i, j \in 1..n : sorted[i] = cells[j] => again[i] = keys[j]
    BY <1>4, <1>8
  <2> QED
    BY <1>1, <1>2, <1>4, <1>8, <2>1, SortedTwice DEF sorted
<1>10. ByIndex(cells) = sorted /\ ByIndex(sorted) = sorted
  BY <1>9 DEF ByIndex, sorted, keys, again
<1>11. AreBackingCells(sorted)
  <2>1. /\ Bounded(cells) /\ Distinct(Column(cells, "index")) /\ Distinct(Column(cells, "cell"))
    BY DEF AreBackingCells
  <2>2. Bounded(sorted) /\ Distinct(Column(sorted, "index")) /\ Distinct(Column(sorted, "cell"))
    BY <1>1, <1>2, <1>5, <2>1, SortedDistinct
  <2> QED
    BY <1>6, <1>7, <2>2 DEF AreBackingCells
<1> QED
  BY <1>10, <1>11

LEMMA ScopesOrdered ==
    ASSUME NEW references, IsList(references),
           \A i \in DOMAIN references : references[i].scope.nonce \in Int
    PROVE  ByScope(ByScope(references)) = ByScope(references)
<1> DEFINE keys == Column(Column(references, "scope"), "nonce")
           sorted == SortedBy(references, keys)
           again == Column(Column(sorted, "scope"), "nonce")
<1>2. PICK n \in Nat : n = Len(references)
  BY ListLength
<1>3. DOMAIN references = 1..n
  BY <1>2, ListLength
<1>4. keys \in [1..n -> Int] /\ \A i \in 1..n : keys[i] = references[i].scope.nonce
  BY <1>3 DEF Column
<1> HIDE DEF keys
<1>5. /\ IsList(sorted) /\ Len(sorted) = n
      /\ \A i \in 1..n : \E j \in 1..n : sorted[i] = references[j]
  <2>1. IsList(references) /\ n = Len(references) /\ keys \in [1..Len(references) -> Int]
    BY <1>2, <1>4
  <2> QED
    BY <2>1, SortedItems
<1> HIDE DEF sorted
<1>6. DOMAIN sorted = 1..n
  BY <1>5, ListLength
<1>7. \A i \in 1..n : sorted[i].scope.nonce \in Int
  BY <1>3, <1>5
<1>8. again \in [1..n -> Int] /\ \A i \in 1..n : again[i] = sorted[i].scope.nonce
  BY <1>6, <1>7 DEF Column
<1> HIDE DEF again
<1>9. SortedBy(sorted, again) = sorted
  <2>1. \A i, j \in 1..n : sorted[i] = references[j] => again[i] = keys[j]
    BY <1>4, <1>8
  <2> QED
    BY <1>2, <1>4, <1>8, <2>1, SortedTwice DEF sorted
<1> QED
  BY <1>9 DEF ByScope, sorted, keys, again

-----------------------------------------------------------------------------
\* The checks in the fields they read: neither packet table nor fee is one.

CellsOfProjection(projection, cells) ==
    LET outputs == projection.outputs
        backing == Kept([i \in DOMAIN outputs |-> i], {i \in DOMAIN outputs : outputs[i].role = BackingRole})
    IN  /\ Len(backing) = Len(cells)
        /\ \A i \in DOMAIN backing :
              /\ cells[i].index = backing[i] - 1
              /\ cells[i].profile = outputs[backing[i]].profile
SkeletonsOfCells(projection, cells) ==
    [i \in DOMAIN cells |->
        LET cell == cells[i]
        IN  [index |-> cell.index, value |-> projection.outputs[cell.index + 1].value,
             profile |-> cell.profile]]
ScopesOf0(network, profile, funds, txid, scopes, skeletons) ==
    \A i \in DOMAIN scopes :
        LET scope == scopes[i].scope
        IN  /\ scope.network = network /\ scope.profile = profile
            /\ scope.outpoint = funds.outpoint
            /\ scope.txid = txid
            /\ scope.skeletons = skeletons
ScopesOf1(network, profile, funds, scopes) ==
    \A i \in DOMAIN scopes :
        LET scope == scopes[i].scope
        IN  /\ scope.network = network /\ scope.profile = profile
            /\ scope.outpoint = funds.outpoint
FundingOf(projection, funds, close) ==
    LET place == close.index + 1
        inputs == projection.inputs
    IN  /\ place \in DOMAIN inputs
        /\ inputs[place].role = FundingRole
        /\ inputs[place].outpoint = funds.outpoint
        /\ inputs[place].value = funds.value

LEMMA ChecksReadFields ==
    ASSUME NEW record
    PROVE  /\ CellsAreProjected(record) <=> CellsOfProjection(record.projection, record.cells)
           /\ SkeletonsOf(record) = SkeletonsOfCells(record.projection, record.cells)
           /\ \A skeletons : Scopes0Belong(record, skeletons) <=>
                  ScopesOf0(record.network, record.profile, record.funding, record.txid,
                            record.scopes, skeletons)
           /\ Scopes1Belong(record) <=>
                  ScopesOf1(record.network, record.profile, record.funding, record.scopes)
           /\ FundingIsProjected(record) <=>
                  FundingOf(record.projection, record.funding, record.close)
<1>1. CellsAreProjected(record) <=> CellsOfProjection(record.projection, record.cells)
  BY DEF CellsAreProjected, CellsOfProjection
<1>2. SkeletonsOf(record) = SkeletonsOfCells(record.projection, record.cells)
  BY DEF SkeletonsOf, SkeletonsOfCells
<1>3. ASSUME NEW skeletons
      PROVE  Scopes0Belong(record, skeletons) <=>
                 ScopesOf0(record.network, record.profile, record.funding, record.txid,
                           record.scopes, skeletons)
  BY DEF Scopes0Belong, ScopesOf0
<1>4. Scopes1Belong(record) <=>
          ScopesOf1(record.network, record.profile, record.funding, record.scopes)
  BY DEF Scopes1Belong, ScopesOf1
<1>5. FundingIsProjected(record) <=> FundingOf(record.projection, record.funding, record.close)
  BY DEF FundingIsProjected, FundingOf
<1> QED
  BY <1>1, <1>2, <1>3, <1>4, <1>5

\* A record that differs in the fields read last only.
AlikeBut(record, other, fields) ==
    /\ DOMAIN other = DOMAIN record
    /\ \A field \in DOMAIN record : field \notin fields => other[field] = record[field]

\* What is known of the copy while its call waits.
Copied(record, fields) ==
    /\ InOrder(record) = record
    /\ NamesFields(record, fields)
    /\ AreCreatedNotes(record.notes) /\ AreBackingCells(record.cells)

LEMMA InOrderFields ==
    ASSUME NEW record, NEW fields, HasFields(record, fields), {"notes", "cells", "scopes"} \subseteq fields
    PROVE  /\ HasFields(InOrder(record), fields)
           /\ InOrder(record).notes = ByCommitment(record.notes)
           /\ InOrder(record).cells = ByIndex(record.cells)
           /\ InOrder(record).scopes = ByScope(record.scopes)
           /\ \A field \in fields : field \notin {"notes", "cells", "scopes"} =>
                  InOrder(record)[field] = record[field]
           /\ InOrder(record) = record <=>
                  /\ ByCommitment(record.notes) = record.notes /\ ByIndex(record.cells) = record.cells
                  /\ ByScope(record.scopes) = record.scopes
<1> DEFINE copy == InOrder(record)
<1>1. record = [field \in fields |-> record[field]]
  BY DEF HasFields
<1>2. copy = [field \in fields |->
                 IF field = "notes" THEN ByCommitment(record.notes)
                 ELSE IF field = "cells" THEN ByIndex(record.cells)
                 ELSE IF field = "scopes" THEN ByScope(record.scopes) ELSE record[field]]
  BY <1>1 DEF InOrder
<1> HIDE DEF copy
<1>3. /\ copy = [field \in fields |-> copy[field]]
      /\ copy.notes = ByCommitment(record.notes) /\ copy.cells = ByIndex(record.cells)
      /\ copy.scopes = ByScope(record.scopes)
      /\ \A field \in fields : field \notin {"notes", "cells", "scopes"} => copy[field] = record[field]
  BY <1>2
<1>4. ASSUME ByCommitment(record.notes) = record.notes, ByIndex(record.cells) = record.cells,
             ByScope(record.scopes) = record.scopes
      PROVE  copy = record
  <2>1. \A field \in fields : copy[field] = record[field]
    BY <1>3, <1>4
  <2> QED
    BY <1>1, <1>3, <2>1
<1>5. copy = record => /\ ByCommitment(record.notes) = record.notes
                       /\ ByIndex(record.cells) = record.cells /\ ByScope(record.scopes) = record.scopes
  BY <1>3
<1> QED
  BY <1>3, <1>4, <1>5 DEF copy, HasFields

LEMMA OrderedCopy ==
    ASSUME NEW record, NEW fields, fields \in {Fields0, Fields1}, NamesFields(record, fields),
           AreCreatedNotes(record.notes), AreBackingCells(record.cells), IsList(record.scopes),
           \A i \in DOMAIN record.scopes : record.scopes[i].scope.nonce \in Int
    PROVE  Copied(InOrder(record), fields)
<1> DEFINE copy == InOrder(record)
<1>1. {"notes", "cells", "scopes"} \subseteq fields /\ HasFields(record, fields)
      /\ {"funding", "close"} \subseteq fields
  BY DEF Fields0, Fields1, NamesFields
<1>2. /\ HasFields(copy, fields) /\ copy.notes = ByCommitment(record.notes)
      /\ copy.cells = ByIndex(record.cells) /\ copy.scopes = ByScope(record.scopes)
      /\ copy.funding = record.funding /\ copy.close = record.close
  BY <1>1, InOrderFields
<1> HIDE DEF copy
<1>3. /\ AreCreatedNotes(copy.notes) /\ ByCommitment(copy.notes) = copy.notes
      /\ AreBackingCells(copy.cells) /\ ByIndex(copy.cells) = copy.cells
      /\ ByScope(copy.scopes) = copy.scopes
  BY <1>2, NotesOrdered, CellsOrdered, ScopesOrdered
<1>4. InOrder(copy) = copy
  BY <1>1, <1>2, <1>3, InOrderFields
<1>5. NamesFields(copy, fields)
  BY <1>2 DEF NamesFields
<1> QED
  BY <1>3, <1>4, <1>5 DEF Copied, copy

\* Accounting, packet table and fee may be read later: what is known of the copy is not about them.
LEMMA LaterFields ==
    ASSUME NEW record, NEW other, NEW fields, fields \in {Fields0, Fields1},
           Copied(record, fields), HasFields(other, fields),
           AlikeBut(record, other, {"accounting", "table", "fee"})
    PROVE  Copied(other, fields)
<1>1. HasFields(record, fields)
  BY DEF Copied, NamesFields
<1>2. DOMAIN record = fields
  BY <1>1 DEF HasFields
<1>3. {"notes", "cells", "scopes"} \subseteq fields /\ {"funding", "close"} \subseteq fields
  BY DEF Fields0, Fields1
<1>4. /\ other.notes = record.notes /\ other.cells = record.cells /\ other.scopes = record.scopes
      /\ other.funding = record.funding /\ other.close = record.close
  BY <1>2, <1>3 DEF AlikeBut
<1>5. InOrder(other) = other
  <2>1. InOrder(record) = record
    BY DEF Copied
  <2>2. /\ ByCommitment(record.notes) = record.notes /\ ByIndex(record.cells) = record.cells
        /\ ByScope(record.scopes) = record.scopes
    BY <1>1, <1>3, <2>1, InOrderFields
  <2> QED
    BY <1>3, <1>4, <2>2, InOrderFields
<1> QED
  BY <1>4, <1>5 DEF Copied, NamesFields

LEMMA LastFields0 ==
    ASSUME NEW record, NEW other, Normal0(record), HasFields(other, Fields0),
           AlikeBut(record, other, {"table", "fee"})
    PROVE  Normal0(other)
<1>1. Copied(other, Fields0)
  <2>1. Copied(record, Fields0)
    BY DEF Normal0, Copied
  <2>2. AlikeBut(record, other, {"accounting", "table", "fee"})
    BY DEF AlikeBut
  <2> QED
    BY <2>1, <2>2, LaterFields
<1>2. DOMAIN record = Fields0
  BY DEF Normal0, NamesFields, HasFields
<1>3. /\ other.network = record.network /\ other.profile = record.profile
      /\ other.funding = record.funding /\ other.open = record.open /\ other.close = record.close
      /\ other.txid = record.txid /\ other.projection = record.projection
      /\ other.notes = record.notes /\ other.cells = record.cells /\ other.scopes = record.scopes
      /\ other.accounting = record.accounting
  BY <1>2 DEF AlikeBut, Fields0
<1>4. Corresponds0(other)
  <2>1. CellsAreProjected(other) /\ FundingIsProjected(other)
    BY <1>3, ChecksReadFields DEF Normal0, Corresponds0
  <2> QED
    BY <1>3, <2>1 DEF Normal0, Corresponds0, SealIsClosed
<1>5. Belongs0(other)
  <2>1. SkeletonsOf(other) = SkeletonsOf(record)
    BY <1>3, ChecksReadFields
  <2>2. Scopes0Belong(other, SkeletonSet(SkeletonsOf(other)))
    BY <1>3, <2>1, ChecksReadFields DEF Normal0, Belongs0
  <2> QED
    BY <1>3, <2>2 DEF Normal0, Belongs0, ScopesAreNamed, AccountingIsProjected
<1> QED
  BY <1>1, <1>3, <1>4, <1>5 DEF Normal0, Copied

LEMMA LastFields1 ==
    ASSUME NEW record, NEW other, Normal1(record), HasFields(other, Fields1),
           AlikeBut(record, other, {"table", "fee"})
    PROVE  Normal1(other)
<1>1. Copied(other, Fields1)
  <2>1. Copied(record, Fields1)
    BY DEF Normal1, Copied
  <2>2. AlikeBut(record, other, {"accounting", "table", "fee"})
    BY DEF AlikeBut
  <2> QED
    BY <2>1, <2>2, LaterFields
<1>2. DOMAIN record = Fields1
  BY DEF Normal1, NamesFields, HasFields
<1>3. /\ other.network = record.network /\ other.profile = record.profile
      /\ other.funding = record.funding /\ other.open = record.open /\ other.close = record.close
      /\ other.notes = record.notes /\ other.cells = record.cells /\ other.scopes = record.scopes
  BY <1>2 DEF AlikeBut, Fields1
<1>4. Scopes1Belong(other)
  BY <1>3, ChecksReadFields DEF Normal1
<1> QED
  BY <1>1, <1>3, <1>4 DEF Normal1, Copied, SealIsClosed, ScopesAreNamed

-----------------------------------------------------------------------------
\* The steps.

\* What is known of an answer.
IsNormal(kind, record) ==
    \/ kind = "statement-v0" /\ Normal0(record)
    \/ kind = "statement-v1" /\ Normal1(record)
    \/ kind = "settlement" /\ IsSettlement(record)
    \/ kind = "current" /\ IsCurrent(record)
    \/ kind = "claim"

WireHolds ==
    /\ call # None => answer = None
    /\ call # None /\ held.kind = "statement-v0" =>
          Copied(call.copy, Fields0) /\ IsProjection(call.copy.projection)
    /\ call # None /\ held.kind = "statement-v1" => Copied(call.copy, Fields1)
    /\ answer # None => IsNormal(answer.kind, answer.record)
    /\ answer = None => wire = None
    /\ wire # None => answer.kind # "claim" /\ wire = Encoded(answer.kind, answer.record)

\* What is known of an answer is all its bytes need.
LEMMA NormalIsRead ==
    ASSUME NEW kind, NEW record, IsNormal(kind, record), kind # "claim"
    PROVE  /\ ImportParsed(kind, Encoded(kind, record)) = record
           /\ \A bytes \in Damaged(Encoded(kind, record)) : ImportParsed(kind, bytes) = None
<1>1. CASE kind = "statement-v0" /\ Normal0(record)
  <2>1. Encoded(kind, record) = EncodeStatement0(record)
    BY <1>1 DEF Encoded
  <2>2. \A bytes : ImportParsed(kind, bytes) = ParseStatement0(bytes)
    BY <1>1 DEF ImportParsed
  <2> QED
    BY <1>1, <2>1, <2>2, Statement0IsRead
<1>2. CASE kind = "statement-v1" /\ Normal1(record)
  <2>1. Encoded(kind, record) = EncodeStatement1(record)
    BY <1>2 DEF Encoded
  <2>2. \A bytes : ImportParsed(kind, bytes) = ParseStatement1(bytes)
    BY <1>2 DEF ImportParsed
  <2> QED
    BY <1>2, <2>1, <2>2, Statement1IsRead
<1>3. CASE kind = "settlement" /\ IsSettlement(record)
  <2>1. Encoded(kind, record) = EncodeSettlement(record)
    BY <1>3 DEF Encoded
  <2>2. \A bytes : ImportParsed(kind, bytes) = ParseSettlement(bytes)
    BY <1>3 DEF ImportParsed
  <2> QED
    BY <1>3, <2>1, <2>2, SettlementIsRead
<1>4. CASE kind = "current" /\ IsCurrent(record)
  <2>1. Encoded(kind, record) = EncodeCurrent(record)
    BY <1>4 DEF Encoded
  <2>2. \A bytes : ImportParsed(kind, bytes) = ParseCurrent(bytes)
    BY <1>4 DEF ImportParsed
  <2> QED
    BY <1>4, <2>1, <2>2, CurrentIsRead
<1> QED
  BY <1>1, <1>2, <1>3, <1>4 DEF IsNormal

\* Every step keeps what is known of copies, answers and bytes.
LEMMA WireStep == ImportHolds /\ WireHolds /\ [ImportNext]_importVars => WireHolds'
<1> SUFFICES ASSUME ImportHolds, WireHolds, [ImportNext]_importVars PROVE WireHolds'
  OBVIOUS
<1>1. (held # None => held' # None /\ held'.kind = held.kind) /\ (call # None => held # None)
  BY DraftStep DEF ImportHolds
\* A call that ends without an answer.
<1>2. ASSUME call' = None, UNCHANGED <<answer, wire>> PROVE WireHolds'
  BY <1>2 DEF WireHolds
<1>3. CASE BeginStatement0
  <2>1. /\ held.kind = "statement-v0" /\ answer = None /\ call'.copy = InOrder(held.record)
        /\ UNCHANGED <<held, answer, wire>>
        /\ NamesFields(held.record, Fields0) /\ IsProjection(held.record.projection)
        /\ AreCreatedNotes(held.record.notes) /\ AreBackingCells(held.record.cells)
        /\ AreReferences0(held.record.scopes)
    BY <1>3 DEF BeginStatement0, CanCall, Await
  <2>2. /\ IsList(held.record.scopes)
        /\ \A i \in DOMAIN held.record.scopes : held.record.scopes[i].scope.nonce \in Int
    BY <2>1 DEF AreReferences0, Bounded, IsScope0, IsComparable
  <2>3. Copied(call'.copy, Fields0)
    BY <2>1, <2>2, OrderedCopy
  <2>4. call'.copy.projection = held.record.projection
    <3>1. "projection" \in Fields0 /\ {"notes", "cells", "scopes"} \subseteq Fields0
      BY DEF Fields0
    <3>2. HasFields(held.record, Fields0)
      BY <2>1 DEF NamesFields
    <3> QED
      BY <2>1, <3>1, <3>2, InOrderFields
  <2> QED
    BY <2>1, <2>3, <2>4 DEF WireHolds
<1>4. CASE ScopesHashed0
  <2> DEFINE copy == [call.copy EXCEPT !.accounting = held.record.accounting]
  <2>1. /\ call # None /\ held.kind = "statement-v0" /\ UNCHANGED <<held, answer, wire>>
        /\ call' = [stage |-> "skeletons", copy |-> copy] \/ call' = None
    BY <1>4 DEF ScopesHashed0, Await, Throw
  <2>2. Copied(call.copy, Fields0) /\ IsProjection(call.copy.projection) /\ answer = None
    BY <2>1 DEF WireHolds
  <2>3. HasFields(call.copy, Fields0)
    BY <2>2 DEF Copied, NamesFields
  <2>4. /\ HasFields(copy, Fields0) /\ AlikeBut(call.copy, copy, {"accounting", "table", "fee"})
        /\ copy.projection = call.copy.projection
    BY <2>3 DEF HasFields, AlikeBut, Fields0
  <2> HIDE DEF copy
  <2>5. Copied(copy, Fields0)
    BY <2>2, <2>4, LaterFields
  <2>6. CASE call' = [stage |-> "skeletons", copy |-> copy]
    <3>1. call'.copy = copy
      BY <2>6
    <3> QED
      BY <2>1, <2>2, <2>4, <2>5, <3>1 DEF WireHolds
  <2> QED
    BY <1>2, <2>1, <2>6
<1>5. CASE FinishStatement0
  <2> DEFINE copy == call.copy
             answered == [copy EXCEPT !.table = held.record.table, !.fee = held.record.fee]
  <2>1. /\ call # None /\ held.kind = "statement-v0" /\ call.stage = "skeletons"
        /\ UNCHANGED <<held, wire>> /\ call' = None
        /\ \/ Belongs0(copy) /\ answer' = [kind |-> held.kind, record |-> answered]
           \/ answer' = answer
    BY <1>5 DEF FinishStatement0, Answer, Throw, Belongs0
  <2>2. Copied(copy, Fields0) /\ IsProjection(copy.projection) /\ answer = None /\ wire = None
    BY <2>1 DEF WireHolds
  <2>3. Corresponds0(copy)
    BY <2>1 DEF ImportHolds
  <2> HIDE DEF copy
  <2>4. CASE Belongs0(copy) /\ answer' = [kind |-> held.kind, record |-> answered]
    <3>1. Normal0(copy)
      BY <2>2, <2>3, <2>4 DEF Normal0, Copied
    <3>2. HasFields(copy, Fields0)
      BY <2>2 DEF Copied, NamesFields
    <3>3. HasFields(answered, Fields0) /\ AlikeBut(copy, answered, {"table", "fee"})
      BY <3>2 DEF HasFields, AlikeBut, Fields0
    <3> HIDE DEF answered
    <3>4. Normal0(answered)
      BY <3>1, <3>3, LastFields0
    <3>5. answer'.kind = "statement-v0" /\ answer'.record = answered
      BY <2>1, <2>4
    <3> QED
      BY <2>1, <2>2, <3>4, <3>5 DEF WireHolds, IsNormal
  <2> QED
    BY <1>2, <2>1, <2>4
<1>6. CASE BeginStatement1
  <2>1. /\ held.kind = "statement-v1" /\ answer = None /\ call'.copy = InOrder(held.record)
        /\ UNCHANGED <<held, answer, wire>>
        /\ NamesFields(held.record, Fields1)
        /\ AreCreatedNotes(held.record.notes) /\ AreBackingCells(held.record.cells)
        /\ AreReferences1(held.record.scopes)
    BY <1>6 DEF BeginStatement1, CanCall, Await
  <2>2. /\ IsList(held.record.scopes)
        /\ \A i \in DOMAIN held.record.scopes : held.record.scopes[i].scope.nonce \in Int
    BY <2>1 DEF AreReferences1, Bounded, IsScope1, IsComparable
  <2>3. Copied(call'.copy, Fields1)
    BY <2>1, <2>2, OrderedCopy
  <2> QED
    BY <2>1, <2>3 DEF WireHolds
<1>7. CASE FinishStatement1
  <2> DEFINE copy == call.copy
             answered == [copy EXCEPT !.table = held.record.table, !.fee = held.record.fee]
             belongs == /\ References1Hold(copy.scopes) /\ SealIsClosed(copy)
                        /\ Scopes1Belong(copy) /\ ScopesAreNamed(copy)
  <2>1. /\ call # None /\ held.kind = "statement-v1"
        /\ UNCHANGED <<held, wire>> /\ call' = None
        /\ \/ belongs /\ answer' = [kind |-> held.kind, record |-> answered]
           \/ answer' = answer
    BY <1>7 DEF FinishStatement1, Answer, Throw
  <2>2. Copied(copy, Fields1) /\ answer = None /\ wire = None
    BY <2>1 DEF WireHolds
  <2> HIDE DEF copy
  <2>4. CASE belongs /\ answer' = [kind |-> held.kind, record |-> answered]
    <3>1. Normal1(copy)
      BY <2>2, <2>4 DEF Normal1, Copied
    <3>2. HasFields(copy, Fields1)
      BY <2>2 DEF Copied, NamesFields
    <3>3. HasFields(answered, Fields1) /\ AlikeBut(copy, answered, {"table", "fee"})
      BY <3>2 DEF HasFields, AlikeBut, Fields1
    <3> HIDE DEF answered
    <3>4. Normal1(answered)
      BY <3>1, <3>3, LastFields1
    <3>5. answer'.kind = "statement-v1" /\ answer'.record = answered
      BY <2>1, <2>4
    <3> QED
      BY <2>1, <2>2, <3>4, <3>5 DEF WireHolds, IsNormal
  <2> QED
    BY <1>2, <2>1, <2>4
<1>8. CASE BeginClaimPlan
  <2>1. held.kind = "claim" /\ answer = None /\ UNCHANGED <<held, answer, wire>>
    BY <1>8 DEF BeginClaimPlan, CanCall
  <2> QED
    BY <2>1 DEF WireHolds
<1>9. CASE FinishClaimPlan \/ BuildClaimPlan \/ AnswerProjection
  <2>1. UNCHANGED <<held, wire>> /\ call' = None /\ wire = None
    BY <1>9 DEF FinishClaimPlan, BuildClaimPlan, AnswerProjection, CanCall, Answer, Throw, WireHolds
  <2>2. answer' # answer => IsNormal(answer'.kind, answer'.record)
    <3>1. FinishClaimPlan \/ BuildClaimPlan => answer' = answer \/ answer'.kind = "claim"
      BY DEF FinishClaimPlan, BuildClaimPlan, CanCall, Answer, Throw
    <3>2. AnswerProjection => \/ answer'.kind = "settlement" /\ IsSettlement(answer'.record)
                              \/ answer'.kind = "current" /\ IsCurrent(answer'.record)
      BY DEF AnswerProjection, CanCall, Answer
    <3> QED
      BY <1>9, <3>1, <3>2 DEF IsNormal
  <2> QED
    BY <2>1, <2>2 DEF WireHolds
<1>10. CASE Serialise
  BY <1>10 DEF Serialise, WireHolds
\* The caller writes to its memory, or nothing happens.
<1>11. CASE UNCHANGED <<call, answer, wire>>
  BY <1>1, <1>11 DEF WireHolds
<1>12. \/ BeginStatement0 \/ ScopesHashed0 \/ FinishStatement0 \/ BeginStatement1
       \/ FinishStatement1 \/ BeginClaimPlan
       \/ FinishClaimPlan \/ BuildClaimPlan \/ AnswerProjection
       \/ Serialise \/ UNCHANGED <<call, answer, wire>>
  BY DEF ImportNext, importVars, Hold, Overwrite
<1> QED
  BY <1>3, <1>4, <1>5, <1>6, <1>7, <1>8, <1>9, <1>10, <1>11, <1>12

\* The bytes of an answered record are read back as that record, and no bytes cut short
\* or run on are read at all (BytesAreTheAnswer), whatever the caller wrote over its
\* record before the answer.
THEOREM BytesAreReadBack == ImportSpec => []BytesAreTheAnswer
<1>1. ImportInit => ImportHolds /\ WireHolds
  BY DEF ImportInit, ImportHolds, WireHolds, AnswerIsOneImport
<1>2. ImportHolds /\ WireHolds => BytesAreTheAnswer
  <2> SUFFICES ASSUME WireHolds, wire # None
               PROVE  /\ ImportParsed(answer.kind, wire) = answer.record
                      /\ \A bytes \in Damaged(wire) : ImportParsed(answer.kind, bytes) = None
    BY DEF BytesAreTheAnswer
  <2>1. /\ answer.kind # "claim" /\ wire = Encoded(answer.kind, answer.record)
        /\ IsNormal(answer.kind, answer.record)
    BY DEF WireHolds
  <2> QED
    BY <2>1, NormalIsRead
<1>3. (ImportHolds /\ WireHolds) /\ [ImportNext]_importVars => (ImportHolds /\ WireHolds)'
  BY ImportStep, WireStep
<1> QED
  BY <1>1, <1>2, <1>3, PTL DEF ImportSpec

(***************************************************************************)
(* What a boundary record says is true of every chain, import and note.    *)
(*                                                                         *)
(* The properties of SealLifecycle speak of the last record only.  They    *)
(* follow from what each record on the way says of the one it was made     *)
(* from: a preimage is that of the output its import was made for, a seal's*)
(* commitment hashes the seal's own fields, a candidate's repeats those of *)
(* the seal it was matched with.                                           *)
(***************************************************************************)

\* The value, locking and fingerprint are those of the output the import expects.
IsTheImport(import, value, locking, fingerprint) ==
    /\ value = Expected[import].value
    /\ locking = Expected[import].locking
    /\ fingerprint = Expected[import].fingerprint

\* A record carries the digest of its own place.
NamesItsPlace(record) ==
    /\ record.commitment.content.network = record.network
    /\ record.commitment.content.outpoint = record.outpoint

SealIsTheImport(record) ==
    IsTheImport(record.funding, record.commitment.content.value,
                record.commitment.content.locking, record.fingerprint)

PreimageHolds(preimage) ==
    /\ preimage.network \in SealNetworks /\ preimage.value \in Nat
    /\ IsTheImport(preimage.funding, preimage.value, preimage.locking, preimage.fingerprint)

SealHolds(seal) ==
    IsIdentityEvidence(seal) /\ NamesItsPlace(seal) /\ SealIsTheImport(seal)

\* The candidate is one candidate, and repeats the place its seal commits to.
CandidateHolds(candidate) ==
    /\ candidate.seal.commitment.content.network = candidate.network
    /\ candidate.seal.commitment.content.outpoint = candidate.seal.outpoint
    /\ candidate.recovery.ciphertext = candidate.recovery.packet
    /\ candidate.value = candidate.recovery.packet
    /\ candidate.note = CandidateNoteCommitment(candidate.value, candidate.recovery.packet,
                                                candidate.seal.commitment, candidate.fingerprint)

\* The same of the digest of a candidate, from a record that carries it.
BindingHolds(record) ==
    LET content == record.binding.content
    IN  /\ content.commitment = record.commitment
        /\ record.commitment.content.network = content.network
        /\ record.commitment.content.outpoint = content.outpoint
        /\ record.note = content.note /\ record.packet = content.packet
        /\ content.ciphertext = content.packet /\ content.value = content.packet
        /\ content.note = CandidateNoteCommitment(content.value, content.packet,
                                                  content.commitment, content.fingerprint)

SpendOf(record) ==
    [place |-> [network |-> record.network, outpoint |-> record.outpoint],
     by |-> record.consumption]

ClosureHolds(record) ==
    /\ IsClosureEvidence(record) /\ NamesItsPlace(record) /\ SealIsTheImport(record)
    /\ SpendOf(record) \in spent

BoundaryHolds(record) ==
    /\ NamesItsPlace(record) /\ SealIsTheImport(record) /\ BindingHolds(record)
    /\ SpendOf(record) \in spent

SpendsAreOfPlaces == spent \subseteq {[place |-> place, by |-> Spender(place)] : place \in Places}

RecordsHold ==
    /\ SpendsAreOfPlaces
    /\ opening # None => PreimageHolds(opening)
    /\ open # None => SealHolds(open)
    /\ binding # None => CandidateHolds(binding)
    /\ bound # None => BindingHolds(bound)
    /\ closure # None => ClosureHolds(closure)
    /\ boundary # None => BoundaryHolds(boundary)

USE DEF Digest

-----------------------------------------------------------------------------
\* The records that the builders make of records that hold.

LEMMA OpenedPreimageHolds ==
    ASSUME NEW shown \in FoundOutputs, OpensSeal(shown)
    PROVE  PreimageHolds(OpenPreimage(shown))
<1>1. PICK place \in Places, import \in Imports, status \in ExistenceStatuses, exists \in BOOLEAN,
           actual \in {Missing} \cup {Output[p] : p \in Places} :
        shown = [status |-> status, exists |-> exists, network |-> place.network,
                 outpoint |-> place.outpoint, actual |-> actual, expected |-> Expected[import],
                 funding |-> import, eligibility |-> import]
  BY DEF FoundOutputs
<1>2. shown.actual # Missing /\ shown.actual = shown.expected /\ shown.network \in SealNetworks
  BY DEF OpensSeal, IsExistenceEvidence
<1>3. shown.actual.value \in Nat
  BY <1>1, <1>2, LifecycleAssumption
<1> QED
  BY <1>1, <1>2, <1>3 DEF PreimageHolds, OpenPreimage, CommitmentPreimage, IsTheImport

LEMMA IdentityHolds ==
    ASSUME NEW preimage, PreimageHolds(preimage)
    PROVE  SealHolds(IdentityEvidence(preimage))
<1>1. IsIdentityEvidence(IdentityEvidence(preimage))
  BY DEF IsIdentityEvidence, IdentityEvidence, PreimageHolds
<1>2. NamesItsPlace(IdentityEvidence(preimage)) /\ SealIsTheImport(IdentityEvidence(preimage))
  BY DEF NamesItsPlace, SealIsTheImport, IdentityEvidence, SealCommitment, PreimageHolds
<1> QED
  BY <1>1, <1>2 DEF SealHolds

LEMMA MatchedCandidateHolds ==
    ASSUME NEW place, NEW import, NEW commitment, NEW fingerprint, NEW note, NEW verified,
           NEW seal, SealHolds(seal),
           MatchesOpenSeal(WrittenFor(place, import, commitment, fingerprint, note, verified), seal)
    PROVE  CandidateHolds(WrittenFor(place, import, commitment, fingerprint, note, verified))
  BY DEF CandidateHolds, WrittenFor, Candidate, SealBinding, RecoveryPacket, MatchesOpenSeal,
         SealHolds, NamesItsPlace

LEMMA BindingEvidenceHolds ==
    ASSUME NEW candidate, CandidateHolds(candidate)
    PROVE  BindingHolds(BindingEvidence(candidate, CandidateBinding(BindingPreimage(candidate))))
  BY DEF CandidateHolds, BindingHolds, BindingEvidence, CandidateBinding, BindingPreimage

\* A spend that a lookup reports of the seal's place is one a chain has shown.
LEMMA ClosureEvidenceHolds ==
    ASSUME NEW seal, SealHolds(seal), SpendsAreOfPlaces,
           NEW input \in ChainInputs, ClosesSeal(input, seal)
    PROVE  ClosureHolds(ClosureEvidence(input, seal))
<1>1. PICK s \in spent :
        input = [status |-> "spent-outpoint", network |-> s.place.network,
                 outpoint |-> s.place.outpoint, consumption |-> s.by]
  BY DEF ChainInputs, ClosesSeal
<1>2. PICK place \in Places : s = [place |-> place, by |-> Spender(place)]
  BY DEF SpendsAreOfPlaces
<1>3. s = [place |-> [network |-> seal.network, outpoint |-> seal.outpoint],
           by |-> input.consumption]
  BY <1>1, <1>2, LifecycleAssumption DEF ClosesSeal
<1>4. SpendOf(ClosureEvidence(input, seal)) \in spent
  BY <1>3 DEF SpendOf, ClosureEvidence
<1>5. IsClosureEvidence(ClosureEvidence(input, seal))
  BY DEF IsClosureEvidence, ClosureEvidence, ClosesSeal, SealHolds, IsIdentityEvidence
<1>6. NamesItsPlace(ClosureEvidence(input, seal)) /\ SealIsTheImport(ClosureEvidence(input, seal))
  BY DEF NamesItsPlace, SealIsTheImport, ClosureEvidence, SealHolds
<1> QED
  BY <1>4, <1>5, <1>6 DEF ClosureHolds

LEMMA BoundaryEvidenceHolds ==
    ASSUME NEW record, ClosureHolds(record), NEW candidate, BindingHolds(candidate),
           JoinsBoundary(record, candidate), NEW bind, NEW transcript
    PROVE  BoundaryHolds(BoundaryEvidence(record, candidate, bind, transcript))
<1> DEFINE joined == BoundaryEvidence(record, candidate, bind, transcript)
<1>1. NamesItsPlace(joined) /\ SealIsTheImport(joined) /\ SpendOf(joined) \in spent
  BY DEF NamesItsPlace, SealIsTheImport, SpendOf, BoundaryEvidence, ClosureHolds
<1>2. BindingHolds(joined)
  BY DEF BindingHolds, BoundaryEvidence, JoinsBoundary
<1> QED
  BY <1>1, <1>2 DEF BoundaryHolds

-----------------------------------------------------------------------------
\* The inductive invariant.

\* While the chain shows nothing new, the next records hold by themselves.
LEMMA UntouchedRecordsHold ==
    ASSUME spent' = spent
    PROVE  /\ SpendsAreOfPlaces' <=> SpendsAreOfPlaces
           /\ PreimageHolds(opening)' <=> PreimageHolds(opening')
           /\ SealHolds(open)' <=> SealHolds(open')
           /\ CandidateHolds(binding)' <=> CandidateHolds(binding')
           /\ BindingHolds(bound)' <=> BindingHolds(bound')
           /\ ClosureHolds(closure)' <=> ClosureHolds(closure')
           /\ BoundaryHolds(boundary)' <=> BoundaryHolds(boundary')
  BY DEF SpendsAreOfPlaces, PreimageHolds, SealHolds, CandidateHolds, BindingHolds,
         ClosureHolds, BoundaryHolds, NamesItsPlace, SealIsTheImport, SpendOf

\* A step of the wallet or of the chain keeps the records true of one another.
LEMMA LifecycleStep == RecordsHold /\ [LifecycleNext]_lifecycleVars => RecordsHold'
<1> SUFFICES ASSUME RecordsHold, [LifecycleNext]_lifecycleVars PROVE RecordsHold'
  OBVIOUS
<1> USE DEF RecordsHold
<1>1. ASSUME NEW place \in Places, Spend(place) PROVE RecordsHold'
  <2>1. spent \subseteq spent' /\ SpendsAreOfPlaces'
    BY <1>1 DEF Spend, SpendsAreOfPlaces
  <2>2. closure' # None => ClosureHolds(closure)'
    BY <1>1, <2>1 DEF Spend, ClosureHolds, NamesItsPlace, SealIsTheImport, SpendOf
  <2>3. boundary' # None => BoundaryHolds(boundary)'
    BY <1>1, <2>1 DEF Spend, BoundaryHolds, NamesItsPlace, SealIsTheImport, SpendOf, BindingHolds
  <2> QED
    BY <1>1, <2>1, <2>2, <2>3
       DEF Spend, PreimageHolds, SealHolds, NamesItsPlace, SealIsTheImport, CandidateHolds, BindingHolds
<1>2. ASSUME NEW shown \in FoundOutputs, BeginOpen(shown) PROVE RecordsHold'
  <2>1. PreimageHolds(OpenPreimage(shown))
    BY <1>2, OpenedPreimageHolds DEF BeginOpen
  <2> QED
    BY <1>2, <2>1, UntouchedRecordsHold DEF BeginOpen
<1>3. ASSUME FinishOpen PROVE RecordsHold'
  <2>1. SealHolds(IdentityEvidence(opening))
    BY <1>3, IdentityHolds DEF FinishOpen
  <2> QED
    BY <1>3, <2>1, UntouchedRecordsHold DEF FinishOpen
<1>4. ASSUME open # None, NEW place, NEW import, NEW commitment, NEW fingerprint, NEW note,
             NEW verified,
             BeginBinding(WrittenFor(place, import, commitment, fingerprint, note, verified))
      PROVE  RecordsHold'
  <2>1. CandidateHolds(WrittenFor(place, import, commitment, fingerprint, note, verified))
    BY <1>4, MatchedCandidateHolds DEF BeginBinding
  <2> QED
    BY <1>4, <2>1, UntouchedRecordsHold DEF BeginBinding
<1>5. ASSUME NEW part, NEW note, EditDraft(part, note) PROVE RecordsHold'
  BY <1>5, UntouchedRecordsHold DEF EditDraft
<1>6. ASSUME FinishBinding PROVE RecordsHold'
  <2>1. BindingHolds(BindingEvidence(binding, CandidateBinding(BindingPreimage(binding))))
    BY <1>6, BindingEvidenceHolds DEF FinishBinding
  <2> QED
    BY <1>6, <2>1, UntouchedRecordsHold DEF FinishBinding
<1>7. ASSUME open # None, NEW input \in ChainInputs, CloseSeal(input) PROVE RecordsHold'
  <2>1. ClosureHolds(ClosureEvidence(input, open))
    BY <1>7, ClosureEvidenceHolds DEF CloseSeal
  <2> QED
    BY <1>7, <2>1, UntouchedRecordsHold DEF CloseSeal
<1>8. ASSUME closure # None, bound # None, NEW transcript,
             JoinBoundary("transition-statement", transcript)
      PROVE  RecordsHold'
  <2>1. BoundaryHolds(BoundaryEvidence(closure, bound, "transition-statement", TranscriptBind(transcript)))
    BY <1>8, BoundaryEvidenceHolds DEF JoinBoundary
  <2> QED
    BY <1>8, <2>1, UntouchedRecordsHold DEF JoinBoundary
<1>9. CASE UNCHANGED lifecycleVars
  BY <1>9, UntouchedRecordsHold DEF lifecycleVars
<1> QED
  BY <1>1, <1>2, <1>3, <1>4, <1>5, <1>6, <1>7, <1>8, <1>9 DEF LifecycleNext

\* In every reachable state each record is true of the one it was made from.
THEOREM RecordsAlwaysHold == LifecycleSpec => []RecordsHold
<1>1. LifecycleInit => RecordsHold
  BY DEF LifecycleInit, RecordsHold, SpendsAreOfPlaces
<1> QED
  BY <1>1, LifecycleStep, PTL DEF LifecycleSpec

-----------------------------------------------------------------------------
\* The properties.

\* For every chain, import and note: the outpoint and network a boundary record
\* says were spent are those its candidate was bound to, though the builder that
\* joins the two compares neither.
THEOREM BoundaryJoinsOneSeal == LifecycleSpec => []BoundaryIsOneSeal
<1>1. RecordsHold => BoundaryIsOneSeal
  BY DEF RecordsHold, BoundaryHolds, NamesItsPlace, BindingHolds, BoundaryIsOneSeal,
         BoundaryCandidate
<1> QED
  BY <1>1, RecordsAlwaysHold, PTL

\* For every chain, import and note: a boundary record names a spend that a chain
\* has shown, and the records on the way there are well formed.
THEOREM BoundaryNamesAShownSpend == LifecycleSpec => []BoundaryWasSpent
<1>1. RecordsHold => BoundaryWasSpent
  BY DEF RecordsHold, SealHolds, ClosureHolds, BoundaryHolds, SpendOf, BoundaryWasSpent
<1> QED
  BY <1>1, RecordsAlwaysHold, PTL

\* For every chain, import and note: the output a boundary record closes has the
\* value, the locking and the fingerprint its import was made for.
THEOREM BoundaryClosesTheImport == LifecycleSpec => []BoundaryIsTheImport
<1>1. RecordsHold => BoundaryIsTheImport
  BY DEF RecordsHold, BoundaryHolds, SealIsTheImport, IsTheImport, BoundaryIsTheImport,
         BoundarySeal
<1> QED
  BY <1>1, RecordsAlwaysHold, PTL

\* For every chain, import and note, and whatever is written into the candidate
\* while its builder waits: the note, packet and value of a binding are one
\* candidate's.
THEOREM BindingNamesOneCandidate == LifecycleSpec => []BindingIsOneCandidate
<1>1. RecordsHold => BindingIsOneCandidate
  BY DEF RecordsHold, BoundaryHolds, BindingHolds, BindingIsOneCandidate
<1> QED
  BY <1>1, RecordsAlwaysHold, PTL
=============================================================================
