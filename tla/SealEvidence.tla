---------------------------- MODULE SealEvidence ----------------------------
(***************************************************************************)
(* The records a wallet collects about one import: the funding output that *)
(* opens a UTXO seal, the private-note candidate bound to it, the spend    *)
(* that closes it, and the boundary record that joins the three            *)
(* (apnt_utxo_seal.ts, seal_bound_private_note_candidate.ts).              *)
(*                                                                         *)
(* The literal flags of these records (nothing is accepted, the aggregator *)
(* has no authority) have one value each and are left out; so are version  *)
(* and domain, except where a hash tells them apart.                       *)
(***************************************************************************)
EXTENDS Digests, Integers, Sequences

SealNetworks == {"chipnet", "mainnet", "regtest"}
ExistenceStatuses == {"verified-output-exists", "not-found", "unavailable"}
ChainInputStatuses == {"spent-outpoint", "unspent", "not-found", "unavailable", "ambiguous"}
Missing == [missing |-> "missing"]

(***************************************************************************)
(* Opening: the output found on chain is the one the import expected.      *)
(***************************************************************************)

CommitmentPreimage(network, outpoint, output, funding, eligibility) ==
    [network |-> network, outpoint |-> outpoint, value |-> output.value,
     funding |-> funding, eligibility |-> eligibility,
     fingerprint |-> output.fingerprint, locking |-> output.locking]

\* Mutant: the commitment forgets the network.
SealCommitmentOfAnyNetwork(preimage) ==
    Digest("utxo-seal-commitment", [f \in DOMAIN preimage \ {"network"} |-> preimage[f]])

SealCommitment(preimage) == Digest("utxo-seal-commitment", preimage)

IdentityEvidence(preimage) ==
    [network |-> preimage.network, outpoint |-> preimage.outpoint, value |-> preimage.value,
     funding |-> preimage.funding, eligibility |-> preimage.eligibility,
     fingerprint |-> preimage.fingerprint, locking |-> preimage.locking,
     commitment |-> SealCommitment(preimage)]

\* What the normaliser takes for identity evidence.  It does not recompute the
\* commitment.
IsIdentityEvidence(record) ==
    /\ DOMAIN record = {"network", "outpoint", "value", "funding", "eligibility",
                        "fingerprint", "locking", "commitment"}
    /\ record.network \in SealNetworks
    /\ record.value \in Nat

\* A lookup that was refused or found nothing may leave the actual output out.
IsExistenceEvidence(found) ==
    /\ found.status \in ExistenceStatuses
    /\ found.exists \in BOOLEAN
    /\ found.network \in SealNetworks

\* Mutant: a seal opens on whatever output was found.
OpensOnAnyOutput(found) ==
    /\ IsExistenceEvidence(found)
    /\ found.status = "verified-output-exists"
    /\ found.exists
    /\ found.actual # Missing

OpensSeal(found) ==
    /\ IsExistenceEvidence(found)
    /\ found.status = "verified-output-exists"
    /\ found.exists
    /\ found.actual # Missing
    /\ found.actual = found.expected

OpenPreimage(found) ==
    CommitmentPreimage(found.network, found.outpoint, found.actual, found.funding, found.eligibility)

(***************************************************************************)
(* Binding: a candidate repeats what the seal commits to, and is hashed    *)
(* with its note, recovery packet and value commitment.                    *)
(***************************************************************************)

\* The candidate module has commitments of its own, under other domains than
\* the seal's.
CandidateSealCommitment(network, outpoint, funding) ==
    Digest("candidate-seal-commitment",
           [network |-> network, outpoint |-> outpoint, funding |-> funding])
CandidateOutputFingerprint(network, outpoint, output) ==
    Digest("candidate-output-fingerprint",
           [network |-> network, outpoint |-> outpoint,
            locking |-> output.locking, value |-> output.value])
CandidateNoteCommitment(value, packet, commitment, fingerprint) ==
    Digest("candidate-note-commitment",
           [value |-> value, packet |-> packet,
            commitment |-> commitment, fingerprint |-> fingerprint])
CandidateSealBinding(commitment, funding, claim, note, fingerprint) ==
    Digest("candidate-seal-binding",
           [commitment |-> commitment, funding |-> funding, claim |-> claim,
            note |-> note, fingerprint |-> fingerprint])

\* The parts of a candidate.  No builder compares `created` (the transaction the
\* candidate says created the import), `binding` or `verified` with anything.
ImportEvidence(created, import) ==
    [created |-> created, funding |-> import, eligibility |-> import, claim |-> import]
SealBinding(outpoint, commitment, binding) ==
    [outpoint |-> outpoint, commitment |-> commitment, binding |-> binding]
RecoveryPacket(packet) == [packet |-> packet, ciphertext |-> packet]
WalletVerifications == BOOLEAN

Candidate(network, evidence, seal, note, value, packet, fingerprint, verified) ==
    [network |-> network, import |-> evidence, seal |-> seal, note |-> note, value |-> value,
     recovery |-> packet, fingerprint |-> fingerprint, verified |-> verified]

MatchesOpenSeal(candidate, open) ==
    /\ candidate.network = open.network
    /\ candidate.seal.outpoint = open.outpoint
    /\ candidate.seal.commitment = open.commitment
    /\ candidate.import.funding = open.funding
    /\ candidate.import.eligibility = open.eligibility
    /\ candidate.fingerprint = open.fingerprint

BindingPreimage(candidate) ==
    [network |-> candidate.network, outpoint |-> candidate.seal.outpoint,
     commitment |-> candidate.seal.commitment, funding |-> candidate.import.funding,
     eligibility |-> candidate.import.eligibility, claim |-> candidate.import.claim,
     note |-> candidate.note, packet |-> candidate.recovery.packet,
     ciphertext |-> candidate.recovery.ciphertext,
     fingerprint |-> candidate.fingerprint, value |-> candidate.value]

CandidateBinding(preimage) == Digest("seal-bound-candidate-binding", preimage)

BindingEvidence(candidate, binding) ==
    [binding |-> binding, commitment |-> candidate.seal.commitment,
     funding |-> candidate.import.funding, eligibility |-> candidate.import.eligibility,
     note |-> candidate.note, packet |-> candidate.recovery.packet,
     fingerprint |-> candidate.fingerprint]

\* The transcript an aggregate proof speaks about: five parallel lists, one
\* entry for each participant, in the participants' order.
IsTranscript(transcript) ==
    /\ transcript.network \in SealNetworks
    /\ transcript.count > 0
    /\ \A column \in DOMAIN transcript.columns : Len(transcript.columns[column]) = transcript.count
TranscriptBind(transcript) == Digest("proof-transcript-bind", transcript)

(***************************************************************************)
(* Closing and joining.                                                    *)
(***************************************************************************)

IsChainInput(input) ==
    /\ input.status \in ChainInputStatuses
    /\ input.network \in SealNetworks

\* Mutant: the spend may have been seen on another network.
ClosesOnAnyNetwork(input, open) ==
    /\ IsChainInput(input)
    /\ input.status = "spent-outpoint"
    /\ input.consumption # Missing
    /\ input.outpoint = open.outpoint

ClosesSeal(input, open) ==
    /\ IsChainInput(input)
    /\ input.status = "spent-outpoint"
    /\ input.consumption # Missing    \* the transaction and its input index
    /\ input.network = open.network
    /\ input.outpoint = open.outpoint

ClosureEvidence(input, open) ==
    [network |-> open.network, outpoint |-> open.outpoint,
     consumption |-> input.consumption,
     commitment |-> open.commitment, fingerprint |-> open.fingerprint,
     funding |-> open.funding, eligibility |-> open.eligibility]

IsClosureEvidence(record) ==
    /\ DOMAIN record = {"network", "outpoint", "consumption", "commitment",
                        "fingerprint", "funding", "eligibility"}
    /\ record.network \in SealNetworks
    /\ record.consumption # Missing

\* The code also compares the networks, but candidateBindingNetwork returns the
\* closure's own: a binding record carries no network to compare with.
JoinsBoundary(closure, bound) ==
    /\ closure.commitment = bound.commitment
    /\ closure.funding = bound.funding
    /\ closure.eligibility = bound.eligibility
    /\ closure.fingerprint = bound.fingerprint

BoundaryEvidence(closure, bound, statement, transcript) ==
    [network |-> closure.network, outpoint |-> closure.outpoint,
     consumption |-> closure.consumption,
     commitment |-> closure.commitment, fingerprint |-> closure.fingerprint,
     funding |-> closure.funding, eligibility |-> closure.eligibility,
     binding |-> bound.binding, note |-> bound.note, packet |-> bound.packet,
     statement |-> statement, transcript |-> transcript]
=============================================================================
