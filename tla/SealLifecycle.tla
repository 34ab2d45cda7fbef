---------------------------- MODULE SealLifecycle ----------------------------
(***************************************************************************)
(* A wallet follows imports through their evidence: it opens a seal from a *)
(* funding output, binds a candidate to it, waits for the spend, closes    *)
(* the seal and joins the three into a boundary record.  It handles        *)
(* several imports, keeps the latest record of each kind, and may hand any *)
(* of them to the next builder; it may also go on editing the candidate it *)
(* handed to a builder that is still waiting for a digest.  Wallet, chain  *)
(* and lookups are not part of these files.                                *)
(***************************************************************************)
EXTENDS SealEvidence, FiniteSets

CONSTANTS Places,    \* funding outputs on chain: network and outpoint
          Output,    \* the output at each place: value, locking, fingerprint
          Imports,   \* import funding commitments, each made for one output
          Expected,  \* the output an import was made for
          Notes,     \* note commitments, each with its own recovery packet
          MaxEdits   \* bound on edits of a candidate during one call

ASSUME LifecycleAssumption ==
    /\ \A place \in Places :
          /\ place = [network |-> place.network, outpoint |-> place.outpoint]
          /\ place.network \in SealNetworks
          /\ Output[place].value \in Nat
    /\ DOMAIN Output = Places /\ DOMAIN Expected = Imports
    /\ Missing \notin {Output[place] : place \in Places}
    /\ MaxEdits \in Nat

VARIABLES spent,     \* the spends some chain has ever shown
          opening,   \* preimage whose digest the open builder awaits
          open,      \* latest identity evidence
          draft,     \* the candidate in the caller's memory
          binding,   \* the candidate the binding builder has copied
          edits,     \* edits of the draft since the builder was called
          bound,     \* latest binding evidence
          closure,   \* latest closure evidence
          boundary   \* boundary record; the wallet is done with it

lifecycleVars == <<spent, opening, open, draft, binding, edits, bound, closure, boundary>>

Spender(place) == [txid |-> place.outpoint, index |-> 0]

(***************************************************************************)
(* What can be handed to the builders.                                     *)
(***************************************************************************)

\* What a lookup of one output says; the wallet may expect another output there.
FoundOutputs ==
    {[status |-> status, exists |-> exists, network |-> place.network, outpoint |-> place.outpoint,
      actual |-> actual, expected |-> Expected[import], funding |-> import, eligibility |-> import] :
        place \in Places, import \in Imports, status \in ExistenceStatuses, exists \in BOOLEAN,
        actual \in {Missing} \cup {Output[p] : p \in Places}}
LookupSays(found) ==
    /\ found.status = "verified-output-exists" => found.exists
    /\ found.exists => found.actual # Missing
    /\ \A place \in Places : (place.network = found.network /\ place.outpoint = found.outpoint)
                                => found.actual \in {Missing, Output[place]}

\* A lookup only reports a spend that some chain has shown.  The others may be
\* said of any outpoint at any time: of another view, or of a chain that moved.
ChainInputs ==
    {[status |-> "spent-outpoint", network |-> s.place.network, outpoint |-> s.place.outpoint,
      consumption |-> s.by] : s \in spent}
    \cup {[status |-> status, network |-> place.network, outpoint |-> place.outpoint,
           consumption |-> Missing] :
             place \in Places, status \in ChainInputStatuses}

\* A candidate is written for one place and one import, with one note.  Its seal
\* commitment is the seal's, or the one the candidate module derives under a
\* domain of its own; so is its output fingerprint.
CommitmentsFor(place, import) ==
    {SealCommitment(CommitmentPreimage(place.network, place.outpoint, Output[place], import, import)),
     CandidateSealCommitment(place.network, place.outpoint, import)}
FingerprintsFor(place) ==
    {Output[place].fingerprint,
     CandidateOutputFingerprint(place.network, place.outpoint, Output[place])}
WrittenFor(place, import, commitment, fingerprint, note, verified) ==
    LET noteCommitment == CandidateNoteCommitment(note, note, commitment, fingerprint)
        sealBinding == CandidateSealBinding(commitment, import, import, noteCommitment, fingerprint)
    IN  Candidate(place.network, ImportEvidence(place.outpoint, import),
                  SealBinding(place.outpoint, commitment, sealBinding),
                  noteCommitment, note, RecoveryPacket(note), fingerprint, verified)

\* What the caller's memory of a candidate becomes when one part of it is
\* overwritten by that of another note.
Overwritten(candidate, part, note) ==
    CASE part = "note" -> [candidate EXCEPT !.note =
                               CandidateNoteCommitment(note, note, candidate.seal.commitment,
                                                       candidate.fingerprint)]
      [] part = "recovery" -> [candidate EXCEPT !.recovery = RecoveryPacket(note)]
      [] part = "value" -> [candidate EXCEPT !.value = note]

\* The transcripts a wallet is shown at the end: about this record's candidate,
\* and one that lists it twice among the seals.
TranscriptsOf(record) ==
    {[network |-> closure.network, count |-> 1,
      columns |-> [seals |-> seals, notes |-> <<record.note>>, outputs |-> <<record.fingerprint>>]] :
        seals \in {<<record.commitment>>, <<record.commitment, record.commitment>>}}

(***************************************************************************)
(* Steps.                                                                  *)
(***************************************************************************)

LifecycleInit ==
    /\ spent = {} /\ edits = 0
    /\ opening = None /\ open = None /\ draft = None /\ binding = None
    /\ bound = None /\ closure = None /\ boundary = None

\* The chain shows a spend of a funding output.
Spend(place) ==
    /\ spent' = spent \cup {[place |-> place, by |-> Spender(place)]}
    /\ UNCHANGED <<opening, open, draft, binding, edits, bound, closure, boundary>>

BeginOpen(found) ==
    /\ OpensSeal(found)
    /\ opening' = OpenPreimage(found)
    /\ UNCHANGED <<spent, open, draft, binding, edits, bound, closure, boundary>>

FinishOpen ==
    /\ opening # None
    /\ open' = IdentityEvidence(opening) /\ opening' = None
    /\ UNCHANGED <<spent, draft, binding, edits, bound, closure, boundary>>

\* The builder copies the candidate and reads the seal before its only await.
BeginBinding(candidate) ==
    /\ MatchesOpenSeal(candidate, open)
    /\ draft' = candidate /\ binding' = candidate /\ edits' = 0
    /\ UNCHANGED <<spent, opening, open, bound, closure, boundary>>

\* Meanwhile the caller writes another note into the candidate, part by part.
EditDraft(part, note) ==
    /\ draft' = Overwritten(draft, part, note) /\ edits' = edits + 1
    /\ UNCHANGED <<spent, opening, open, binding, bound, closure, boundary>>

\* Mutant: the builder answers from its caller's memory.
FinishBindingOfDraft ==
    /\ binding # None
    /\ bound' = BindingEvidence(draft, CandidateBinding(BindingPreimage(binding)))
    /\ binding' = None /\ draft' = None /\ edits' = 0
    /\ UNCHANGED <<spent, opening, open, closure, boundary>>

FinishBinding ==
    /\ binding # None
    /\ bound' = BindingEvidence(binding, CandidateBinding(BindingPreimage(binding)))
    /\ binding' = None /\ draft' = None /\ edits' = 0
    /\ UNCHANGED <<spent, opening, open, closure, boundary>>

CloseSeal(input) ==
    /\ ClosesSeal(input, open)
    /\ closure' = ClosureEvidence(input, open)
    /\ UNCHANGED <<spent, opening, open, draft, binding, edits, bound, boundary>>

\* The wallet keeps the record and drops what it was made from.
JoinBoundary(statement, transcript) ==
    /\ IsTranscript(transcript)
    /\ JoinsBoundary(closure, bound)
    /\ boundary' = BoundaryEvidence(closure, bound, statement, TranscriptBind(transcript))
    /\ opening' = None /\ open' = None /\ draft' = None /\ binding' = None
    /\ edits' = 0 /\ bound' = None /\ closure' = None
    /\ UNCHANGED spent

LifecycleNext ==
    /\ boundary = None
    /\ \/ \E place \in Places : Spend(place)
       \/ /\ opening = None
          /\ \E found \in {f \in FoundOutputs : LookupSays(f)} : BeginOpen(found)
       \/ FinishOpen
       \/ /\ binding = None /\ open # None
          /\ \E place \in Places, import \in Imports, note \in Notes, verified \in WalletVerifications :
                \E commitment \in CommitmentsFor(place, import), fingerprint \in FingerprintsFor(place) :
                   BeginBinding(WrittenFor(place, import, commitment, fingerprint, note, verified))
       \/ /\ binding # None /\ edits < MaxEdits
          /\ \E part \in {"note", "recovery", "value"}, note \in Notes : EditDraft(part, note)
       \/ FinishBinding
       \/ open # None /\ \E input \in ChainInputs : CloseSeal(input)
       \/ /\ closure # None /\ bound # None
          /\ \E transcript \in TranscriptsOf(bound) : JoinBoundary("transition-statement", transcript)

LifecycleSpec == LifecycleInit /\ [][LifecycleNext]_lifecycleVars

(***************************************************************************)
(* Properties.                                                             *)
(***************************************************************************)

BoundarySeal == boundary.commitment.content
BoundaryCandidate == boundary.binding.content

\* A boundary record is about one output on one chain: the outpoint the closing
\* spend consumed is the one the candidate was bound to.
\* buildApntUtxoSealTransitionBoundaryEvidenceV0 is handed the records and
\* compares neither outpoint nor network; it relies on the digests.
BoundaryIsOneSeal ==
    boundary # None =>
        /\ BoundaryCandidate.network = boundary.network
        /\ BoundaryCandidate.outpoint = boundary.outpoint

\* A boundary record names a spend that a chain has shown, of that outpoint on
\* that network, by that transaction, and never one that a lookup ruled out; and
\* every record on the way there is one that its normaliser takes back.
BoundaryWasSpent ==
    /\ open # None => IsIdentityEvidence(open)
    /\ closure # None => IsClosureEvidence(closure)
    /\ boundary # None =>
          [place |-> [network |-> boundary.network, outpoint |-> boundary.outpoint],
           by |-> boundary.consumption] \in spent

\* The output a boundary record closes is the one its import was made for, whatever
\* else was found at an outpoint or expected there along the way.
BoundaryIsTheImport ==
    boundary # None =>
        /\ boundary.fingerprint = Expected[boundary.funding].fingerprint
        /\ BoundarySeal.value = Expected[boundary.funding].value
        /\ BoundarySeal.locking = Expected[boundary.funding].locking

\* The note, packet and value of a binding belong together: the builder answers
\* for the candidate it was handed, not for what its caller has made of it by the
\* time the digest arrives.
BindingIsOneCandidate ==
    \A record \in {bound, boundary} \ {None} :
        LET content == record.binding.content
        IN  /\ record.note = content.note /\ record.packet = content.packet
            /\ content.ciphertext = content.packet /\ content.value = content.packet
            /\ content.note = CandidateNoteCommitment(content.value, content.packet,
                                                      content.commitment, content.fingerprint)
==============================================================================
