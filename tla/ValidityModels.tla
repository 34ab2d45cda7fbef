--------------------------- MODULE ValidityModels ---------------------------
(***************************************************************************)
(* The claimed models of protocol-runtime: lifecycle acceptance policy,    *)
(* transition validity, value conservation and aggregation validity.  A    *)
(* model carries evidence and the verdict its builder reached on it.  The  *)
(* normalisers take a stored verdict as it stands; evaluation and hash     *)
(* recompute it (apnt_lifecycle_acceptance_policy_v0.ts,                   *)
(* apnt_transition_validity_model_v0.ts, apnt_value_conservation_model_v0.ts,*)
(* apnt_aggregation_validity_model_v0.ts).                                 *)
(*                                                                         *)
(* A failure reason is present exactly when a verdict is not "accepted",   *)
(* which the normalisers demand; only the policy's says which part failed. *)
(***************************************************************************)
EXTENDS Digests, Integers, Sequences, FiniteSets, SequencesExt, Lists

(***************************************************************************)
(* Lifecycle acceptance policy.  The gates of a policy are the set of the  *)
(* gate names that are true.                                               *)
(***************************************************************************)

ProofGates == {"noteCommitmentOpeningAccepted", "transitionValidityAccepted",
    "valueConservationAccepted", "nullifierCorrectnessAccepted", "aggregationValidityAccepted"}
ChainSealGates == {"chainTruthAccepted", "fundingOutpointObserved", "utxoSealObserved",
    "utxoSealUnspentOrCorrectlyConsumed", "outputCommitmentAnchored"}
RecoveryGates == {"recoveryPacketObserved", "recoveryPacketDecryptableByWallet",
    "recoveredNoteCommitmentMatches", "ciphertextBindingAccepted",
    "noPrivateRecoveryMaterialPublished"}
CarrierGates == {"transitionEvidenceObserved", "transitionStatementBindMatches",
    "proofTranscriptBindMatches", "handoffPayloadCommitmentMatches",
    "transportProtocolTruthAccepted"}
PlaneBGates == {"planeBRequired", "planeBObserved", "planeBPacketBindingAccepted",
    "planeBRecoveryPathAccepted"}
NonClaimGates == {"bchConsensusProofVerificationClaimed", "aggregatorAuthorityClaimed",
    "aggregatorCustodyClaimed", "aggregatorHoldsSecretsClaimed", "aggregatorSequencerClaimed",
    "aggregatorSettlementAuthorityClaimed", "aggregatorNamespaceAuthorityClaimed",
    "privateMaterialPublished", "recipientMarkerPublished", "productionPrivacyClaimed"}
WalletRecordGates == {"walletRecoveredNote", "walletNoteCommitmentMatches",
    "walletRecognizesSpendAuthority", "walletNoteNotKnownSpent"}
WalletSpendabilityGates == {"walletHasSpendKeyMaterial", "walletCanDeriveNullifier",
    "nullifierNotSeenSpent", "sealNotSpent", "chainTipKnown", "spendPathAvailable"}
GateNames == UNION {ProofGates, ChainSealGates, RecoveryGates, CarrierGates, PlaneBGates,
                    NonClaimGates, WalletRecordGates, WalletSpendabilityGates}

\* The groups in the order in which a failure is reported.
GroupOrder == <<"proof", "chainSeal", "recovery", "carrier", "planeB", "nonClaim",
                "walletRecord", "walletSpendability">>
Groups == {GroupOrder[i] : i \in DOMAIN GroupOrder}

GroupAccepted(group, gates) ==
    CASE group = "proof" -> ProofGates \subseteq gates
      [] group = "chainSeal" -> ChainSealGates \subseteq gates
      [] group = "recovery" -> RecoveryGates \subseteq gates
      [] group = "carrier" -> CarrierGates \subseteq gates
      [] group = "planeB" -> "planeBRequired" \in gates => PlaneBGates \subseteq gates
      [] group = "nonClaim" -> NonClaimGates \cap gates = {}
      [] group = "walletRecord" -> WalletRecordGates \subseteq gates
      [] group = "walletSpendability" -> WalletSpendabilityGates \subseteq gates

\* Mutant: the chain of reasons forgets Plane B.
FailureReasonWithoutPlaneB(accepted) ==
    LET failed == {i \in DOMAIN GroupOrder : GroupOrder[i] \notin accepted \cup {"planeB"}}
    IN  IF failed = {} THEN "none" ELSE GroupOrder[CHOOSE i \in failed : \A j \in failed : i <= j]

\* lifecycleAcceptanceFailureReasonV0: the first group that failed.
FailureReason(accepted) ==
    IF accepted = Groups THEN "none"
    ELSE GroupOrder[CHOOSE i \in DOMAIN GroupOrder :
                        /\ GroupOrder[i] \notin accepted
                        /\ \A j \in 1..(i - 1) : GroupOrder[j] \in accepted]

PolicyVerdict(gates) ==
    LET accepted == {group \in Groups : GroupAccepted(group, gates)}
        protocol == {"proof", "chainSeal", "recovery", "carrier", "planeB", "nonClaim"} \subseteq accepted
        recorded == protocol /\ "walletRecord" \in accepted
        spendable == recorded /\ "walletSpendability" \in accepted
    IN  [groups |-> accepted, protocol |-> protocol, recorded |-> recorded,
         accepted |-> spendable, reason |-> FailureReason(accepted)]

(***************************************************************************)
(* Transition validity and value conservation.                             *)
(***************************************************************************)

TransitionBind(relation, witness) ==
    Digest("transition-validity-model", [relation |-> relation, witness |-> witness])

\* Mutant: the builder claims validity of every witness.
ValidityClaimedBlindly(public, derived) == [accepted |-> TRUE]

\* What the builder claims: it has just derived the bind it compares with.
ValidityClaim(public, derived) == [accepted |-> public = derived]

ValidityVerdict(model) ==
    LET derivedMatches == model.derived = TransitionBind(model.relation, model.witness)
        publicMatches == model.public = model.derived
    IN  [derivedMatches |-> derivedMatches, publicMatches |-> publicMatches,
         accepted |-> derivedMatches /\ publicMatches]

ConservationVerdict(model) == [accepted |-> model.input = model.output + model.fee]

(***************************************************************************)
(* Aggregation validity.                                                   *)
(***************************************************************************)

\* A transition as normalizeTransitionV0 copies it.
IsTransition(transition) ==
    /\ DOMAIN transition = {"id", "valid", "nullifiers", "outputs", "input", "output", "fee"}
    /\ transition.valid \in BOOLEAN
    /\ IsList(transition.nullifiers) /\ IsList(transition.outputs)
    /\ {transition.input, transition.output, transition.fee} \subseteq Nat

Nullifiers(transitions) == FlattenSeq([i \in DOMAIN transitions |-> transitions[i].nullifiers])
Outputs(transitions) == FlattenSeq([i \in DOMAIN transitions |-> transitions[i].outputs])

Sums(transitions) ==
    [input |-> TotalOf([i \in DOMAIN transitions |-> transitions[i].input]),
     output |-> TotalOf([i \in DOMAIN transitions |-> transitions[i].output]),
     fee |-> TotalOf([i \in DOMAIN transitions |-> transitions[i].fee])]
SumsBalance(sums) == sums.input = sums.output + sums.fee

\* Mutant: the last nullifier is not compared.
HasDuplicatesBeforeLast(nullifiers) ==
    \E i, j \in 1..(Len(nullifiers) - 1) : i < j /\ nullifiers[i] = nullifiers[j]

HasDuplicates(nullifiers) ==
    Cardinality({nullifiers[i] : i \in DOMAIN nullifiers}) # Len(nullifiers)

AggregatorPowers == {"custody", "holdsSecrets", "validatesByAuthority",
                     "sequencesUsersAsTrustBase", "namespaceAuthority"}
TrustBoundaryHolds(aggregator) == aggregator = {"assemblesTransactions"}

OutputRoot(outputs) == Digest("aggregation-output-root", outputs)
BatchBind(transitions, root) ==
    Digest("aggregation-batch-bind",
           [ids |-> [i \in DOMAIN transitions |-> transitions[i].id],
            nullifiers |-> Nullifiers(transitions), root |-> root, sums |-> Sums(transitions)])

EveryTransitionValid(transitions) == \A i \in DOMAIN transitions : transitions[i].valid

AggregationClaim(transitions, publicRoot, root, publicBind, bind, aggregator) ==
    [accepted |-> /\ EveryTransitionValid(transitions)
                  /\ ~HasDuplicates(Nullifiers(transitions))
                  /\ SumsBalance(Sums(transitions))
                  /\ publicRoot = root
                  /\ publicBind = bind
                  /\ TrustBoundaryHolds(aggregator)]

\* What the normaliser demands of a stored model: counts that fit the lists.  It
\* takes sums, derived values and verdict as they stand.
IsAggregationModel(model) ==
    /\ IsList(model.transitions)
    /\ \A i \in DOMAIN model.transitions : IsTransition(model.transitions[i])
    /\ model.counts = [transitions |-> Len(model.transitions),
                       nullifiers |-> Len(Nullifiers(model.transitions)),
                       outputs |-> Len(Outputs(model.transitions))]
    /\ model.claim.accepted \in BOOLEAN
    /\ model.aggregator \subseteq AggregatorPowers \cup {"assemblesTransactions"}

AggregationVerdict(model) ==
    LET sums == Sums(model.transitions)
        root == OutputRoot(Outputs(model.transitions))
        bind == BatchBind(model.transitions, root)
        sumsMatch == model.sums = sums
        conserved == sumsMatch /\ SumsBalance(sums)
        rootAccepted == model.derivedRoot = root /\ model.publicRoot = root
        bindAccepted == model.derivedBind = bind /\ model.publicBind = bind
    IN  [sums |-> sums, root |-> root, bind |-> bind, sumsMatch |-> sumsMatch,
         conserved |-> conserved, rootAccepted |-> rootAccepted, bindAccepted |-> bindAccepted,
         accepted |-> /\ EveryTransitionValid(model.transitions)
                      /\ ~HasDuplicates(Nullifiers(model.transitions))
                      /\ conserved /\ rootAccepted /\ bindAccepted
                      /\ TrustBoundaryHolds(model.aggregator)]

(***************************************************************************)
(* What a model's hash covers: the evidence and the recomputed verdict,    *)
(* never the stored one, nor stored sums and derived values of a batch.    *)
(***************************************************************************)

PolicyPreimage(model, verdict) ==
    [relation |-> model.relation, gates |-> model.gates, verdict |-> verdict]
ValidityPreimage(model, verdict) ==
    [relation |-> model.relation, witness |-> model.witness, public |-> model.public,
     derived |-> model.derived, verdict |-> verdict]
ConservationPreimage(model, verdict) ==
    [relation |-> model.relation, counts |-> model.counts, input |-> model.input,
     output |-> model.output, fee |-> model.fee, verdict |-> verdict]
AggregationPreimage(model, verdict) ==
    [relation |-> model.relation, transitions |-> model.transitions,
     publicRoot |-> model.publicRoot, publicBind |-> model.publicBind,
     aggregator |-> model.aggregator, verdict |-> verdict]
=============================================================================
