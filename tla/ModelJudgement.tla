--------------------------- MODULE ModelJudgement ---------------------------
(***************************************************************************)
(* A claimed model is built from what a caller asks, stored, perhaps       *)
(* changed where it is stored, and evaluated later.  Policy and            *)
(* conservation models are built and evaluated at once.  The other two     *)
(* await digests: what a builder reads of its arguments after an await may *)
(* have been edited meanwhile, and a stored model may change while it is   *)
(* being evaluated.                                                        *)
(***************************************************************************)
EXTENDS ValidityModels

CONSTANTS Questions,      \* what the builders are asked, with its kind
          MaxModelEdits   \* bound on edits of arguments and of stored models

VARIABLES asked,       \* the arguments, in the caller's memory
          builder,     \* what a waiting builder has copied of them
          built,       \* the model as its builder returned it
          stored,      \* the model as it is stored
          examined,    \* the model a waiting evaluation has copied
          judgement,   \* the model evaluated, the verdict and the hash
          modelEdits

judgementVars == <<asked, builder, built, stored, examined, judgement, modelEdits>>

Idle == [kind |-> "idle"]

\* The normaliser accepts every model a builder makes.
Keep(model) ==
    /\ built' = model /\ stored' = model
    /\ builder' = Idle

JudgementInit ==
    /\ asked = Idle /\ builder = Idle /\ built = None /\ stored = None
    /\ examined = None /\ judgement = None /\ modelEdits = 0

(***************************************************************************)
(* Building.                                                               *)
(***************************************************************************)

BuildPolicy(question) ==
    /\ question.kind = "policy"
    /\ asked' = question
    /\ Keep([kind |-> "policy", relation |-> question.relation, gates |-> question.gates,
             claim |-> PolicyVerdict(question.gates)])
    /\ UNCHANGED <<examined, judgement, modelEdits>>

BuildConservation(question) ==
    /\ question.kind = "conservation"
    /\ asked' = question
    /\ Keep([kind |-> "conservation", relation |-> question.relation, counts |-> question.counts,
             input |-> question.input, output |-> question.output, fee |-> question.fee,
             claim |-> ConservationVerdict(question)])
    /\ UNCHANGED <<examined, judgement, modelEdits>>

BeginValidity(question) ==
    /\ question.kind = "validity"
    /\ asked' = question /\ builder' = question
    /\ UNCHANGED <<built, stored, examined, judgement, modelEdits>>

FinishValidity ==
    /\ builder.kind = "validity"
    /\ LET derived == TransitionBind(builder.relation, builder.witness)
       IN  Keep([kind |-> "validity", relation |-> builder.relation, witness |-> builder.witness,
                 public |-> builder.public, derived |-> derived,
                 claim |-> ValidityClaim(builder.public, derived)])
    /\ UNCHANGED <<asked, examined, judgement, modelEdits>>

\* Relation, transitions and public root are copied before the output root is
\* awaited ...
BeginAggregation(question) ==
    /\ question.kind = "aggregation"
    /\ IsList(question.transitions)
    /\ \A i \in DOMAIN question.transitions : IsTransition(question.transitions[i])
    /\ asked' = question
    /\ builder' = [kind |-> "aggregation root", relation |-> question.relation,
                   transitions |-> question.transitions, publicRoot |-> question.publicRoot]
    /\ UNCHANGED <<built, stored, examined, judgement, modelEdits>>

\* ... the public batch bind is read before the batch bind is awaited ...
RootDerived ==
    /\ builder.kind = "aggregation root"
    /\ builder' = [kind |-> "aggregation bind", relation |-> builder.relation,
                   transitions |-> builder.transitions, publicRoot |-> builder.publicRoot,
                   root |-> OutputRoot(Outputs(builder.transitions)),
                   publicBind |-> asked.publicBind]
    /\ UNCHANGED <<asked, built, stored, examined, judgement, modelEdits>>

\* ... and what the aggregator may do is read last.
FinishAggregation ==
    /\ builder.kind = "aggregation bind"
    /\ LET transitions == builder.transitions
           bind == BatchBind(transitions, builder.root)
       IN  Keep([kind |-> "aggregation", relation |-> builder.relation,
                 transitions |-> transitions,
                 counts |-> [transitions |-> Len(transitions),
                             nullifiers |-> Len(Nullifiers(transitions)),
                             outputs |-> Len(Outputs(transitions))],
                 sums |-> Sums(transitions),
                 publicRoot |-> builder.publicRoot, derivedRoot |-> builder.root,
                 publicBind |-> builder.publicBind, derivedBind |-> bind,
                 aggregator |-> asked.aggregator,
                 claim |-> AggregationClaim(transitions, builder.publicRoot, builder.root,
                                            builder.publicBind, bind, asked.aggregator)])
    /\ UNCHANGED <<asked, examined, judgement, modelEdits>>

\* The caller turns its arguments into those of another question of the kind.
EditAsked(question) ==
    /\ question.kind = asked.kind
    /\ asked' = question /\ modelEdits' = modelEdits + 1
    /\ UNCHANGED <<builder, built, stored, examined, judgement>>

(***************************************************************************)
(* Storing and evaluating.                                                 *)
(***************************************************************************)

\* A stored model comes back with another claim, with the sums or the derived
\* values of no transition, or with its batch replaced by another.
Altered(model) ==
    {[model EXCEPT !.claim.accepted = ~@]}
    \cup (IF model.kind = "aggregation"
          THEN {[model EXCEPT !.sums = [input |-> 0, output |-> 0, fee |-> 0]],
                [model EXCEPT !.derivedRoot = model.publicRoot, !.derivedBind = model.publicBind]}
               \cup {[model EXCEPT !.transitions = question.transitions] :
                        question \in {q \in Questions : q.kind = "aggregation"}}
          ELSE {})
AlterStored ==
    /\ stored # None /\ judgement = None /\ modelEdits < MaxModelEdits
    /\ \E model \in Altered(stored) : stored' = model
    /\ modelEdits' = modelEdits + 1
    /\ UNCHANGED <<asked, builder, built, examined, judgement>>

Judged(model, verdict, hash) == [of |-> model, verdict |-> verdict, hash |-> hash]

EvaluatePolicy ==
    /\ stored # None /\ judgement = None /\ stored.kind = "policy"
    /\ LET verdict == PolicyVerdict(stored.gates)
       IN  judgement' = Judged(stored, verdict,
                               Digest("lifecycle-policy", PolicyPreimage(stored, verdict)))
    /\ UNCHANGED <<asked, builder, built, stored, examined, modelEdits>>

EvaluateConservation ==
    /\ stored # None /\ judgement = None /\ stored.kind = "conservation"
    /\ LET verdict == ConservationVerdict(stored)
       IN  judgement' = Judged(stored, verdict,
                               Digest("value-conservation", ConservationPreimage(stored, verdict)))
    /\ UNCHANGED <<asked, builder, built, stored, examined, modelEdits>>

BeginEvaluate ==
    /\ stored # None /\ judgement = None /\ examined = None
    /\ \/ stored.kind = "validity"
       \/ stored.kind = "aggregation" /\ IsAggregationModel(stored)
    /\ examined' = stored
    /\ UNCHANGED <<asked, builder, built, stored, judgement, modelEdits>>

FinishEvaluate ==
    /\ examined # None
    /\ judgement' =
          IF examined.kind = "validity"
          THEN LET verdict == ValidityVerdict(examined)
               IN  Judged(examined, verdict,
                          Digest("transition-validity", ValidityPreimage(examined, verdict)))
          ELSE LET verdict == AggregationVerdict(examined)
               IN  Judged(examined, verdict,
                          Digest("aggregation-validity", AggregationPreimage(examined, verdict)))
    /\ examined' = None
    /\ UNCHANGED <<asked, builder, built, stored, modelEdits>>

JudgementNext ==
    \/ /\ asked = Idle
       /\ \E question \in Questions :
             \/ BuildPolicy(question)
             \/ BuildConservation(question)
             \/ BeginValidity(question)
             \/ BeginAggregation(question)
    \/ /\ builder # Idle /\ modelEdits < MaxModelEdits
       /\ \E question \in Questions : EditAsked(question)
    \/ FinishValidity
    \/ RootDerived
    \/ FinishAggregation
    \/ AlterStored
    \/ EvaluatePolicy
    \/ EvaluateConservation
    \/ BeginEvaluate
    \/ FinishEvaluate

JudgementSpec == JudgementInit /\ [][JudgementNext]_judgementVars

(***************************************************************************)
(* Properties.                                                             *)
(***************************************************************************)

\* A model that nobody changed is evaluated as its builder claimed, although the
\* builder read some of its arguments after an await and the two derive the
\* verdict separately (buildAPNT... and evaluateAPNT... of the four models).
EvaluationConfirmsTheBuilder ==
    judgement # None /\ judgement.of = built =>
        judgement.verdict.accepted = built.claim.accepted

\* Whatever was edited or altered, an accepted batch spends no nullifier twice,
\* creates no value, and its public values are those of its own transitions; and
\* its hash speaks of these transitions.
AcceptedBatchIsSound ==
    judgement # None /\ judgement.of.kind = "aggregation" /\ judgement.verdict.accepted =>
        LET batch == judgement.of.transitions
            spends == UNION {{i} \X DOMAIN batch[i].nullifiers : i \in DOMAIN batch}
            nullifier(spend) == batch[spend[1]].nullifiers[spend[2]]
        IN  /\ \A s, t \in spends : nullifier(s) = nullifier(t) => s = t
            /\ TotalOf([i \in DOMAIN batch |->
                           batch[i].input - batch[i].output - batch[i].fee]) = 0
            /\ \A i \in DOMAIN batch : batch[i].valid
            /\ judgement.of.publicRoot.content = Outputs(batch)
            /\ judgement.of.publicBind.content.ids = [i \in DOMAIN batch |-> batch[i].id]
            /\ judgement.of.aggregator \cap AggregatorPowers = {}
            /\ judgement.hash.content.transitions = batch

\* A note is spendable exactly when no group of gates failed, so that a policy
\* never reports a failure of something it accepted, nor a group that held.
FailureNamesAFailedGroup ==
    judgement # None /\ judgement.of.kind = "policy" =>
        LET verdict == judgement.verdict
            gates == judgement.of.gates
        IN  /\ verdict.accepted <=> verdict.reason = "none"
            /\ verdict.accepted => /\ gates \cap NonClaimGates = {}
                                   /\ GateNames \ (NonClaimGates \cup PlaneBGates) \subseteq gates
                                   /\ "planeBRequired" \in gates => PlaneBGates \subseteq gates
            /\ verdict.reason # "none" => ~GroupAccepted(verdict.reason, gates)
            /\ verdict.recorded => verdict.reason \in {"none", "walletSpendability"}
=============================================================================
