------------------------- MODULE TransitionRelation -------------------------
(***************************************************************************)
(* The private-note transition relation V1                                 *)
(* (apnt-private-note-transition-v1-rust-parity/src/lib.rs): a batch of    *)
(* notes is consumed, two notes are created, and the private openings,     *)
(* exit keys, owner signatures, nullifiers and recovery packets that       *)
(* several parties supply are judged against one public statement.         *)
(*                                                                         *)
(* The evaluation stops at the first failing check.  A stage is therefore  *)
(* a sequence of checks in the order of the code, and the verdict the      *)
(* stage and code of the first check that fails.  Checks a later one of    *)
(* the same stage relies on are repeated in its condition, so that every   *)
(* condition has a value.                                                  *)
(***************************************************************************)
EXTENDS TransitionStatement

Check(fails, stage, code) == [fails |-> fails, stage |-> stage, code |-> code]

Accepted == [stage |-> "accepted", code |-> "full-private-semantics-accepted"]

\* The verdict of checks, or the later one when they all hold.
FirstFailure(checks, later) ==
    IF \E k \in DOMAIN checks : checks[k].fails
    THEN LET k == SelectInSeq(checks, LAMBDA c : c.fails)
         IN  [stage |-> checks[k].stage, code |-> checks[k].code]
    ELSE later

\* The checks of every item of a collection, item after item.
ForEach(items, Checks(_)) == FlattenSeq([k \in DOMAIN items |-> Checks(k)])
RepeatsEarlier(s, k) == \E j \in 1 .. k - 1 : s[j] = s[k]

\* A mutated form: a count that only looks for too many items.
CountChecksOneSided(actual, expected, stage, missing, extra) ==
    << Check(actual > expected, stage, extra) >>

CountChecks(actual, expected, stage, missing, extra) ==
    << Check(actual < expected, stage, missing), Check(actual > expected, stage, extra) >>

(***************************************************************************)
(* Commitments of the private openings.                                    *)
(***************************************************************************)

AssetId == Hash("asset-id", "BCH")
OwnerCommitment(key) == Hash("owner-authority", key)
NoteCommitment(note) == Hash("note", note)
BundleCommitment(bundle) == Hash("bundle", bundle)
CellCommitment(opening) == Hash("cell", opening)
ExitCommitment(key) == Hash("exit-authority", key)
Nullifier(key, note, bundle) == Hash("bundle-nullifier", <<key, note, bundle>>)
SpendMessage(statement, note, bundle) == Hash("spend-authorization", <<statement, note, bundle>>)
Signature(key, message) == [key |-> key, message |-> message]

\* Keys are numbers; a malformed encoding is a number below zero.
KeyParses(key) == key >= 0

NoteParses(note) ==
    HasFields(note, {"asset", "value", "owner", "bundle", "nonce"}) /\ note.value \in 1 .. MaxMoney

BundleParses(bundle) ==
    /\ HasFields(bundle, {"scope", "members"})
    /\ \A k \in DOMAIN bundle.members :
            HasFields(bundle.members[k], {"slot", "value", "profile", "blinder"})
    /\ IsList(bundle.members) /\ bundle.members # <<>>
    /\ \A k \in 1 .. Len(bundle.members) - 1 : bundle.members[k].slot < bundle.members[k + 1].slot
    /\ \A k \in DOMAIN bundle.members : bundle.members[k].value \in 1 .. MaxMoney
    /\ ~Overflows(Sum(bundle.members, LAMBDA m : m.value))

OpeningParses(opening) ==
    /\ HasFields(opening, {"scope", "slot", "value", "profile", "blinder"})
    /\ opening.value \in 1 .. MaxMoney

ByIndex(items) == \A k \in 1 .. Len(items) - 1 : items[k].index <= items[k + 1].index

\* parse_proving_input: openings are well formed, and the collections whose
\* primary key is a number come in its order.
InputParses(i) ==
    /\ ProfileParses(i.profile)
    /\ StatementParses(i.statement, i.profile)
    /\ \A c \in {i.consumed, i.created, i.consumedCells, i.createdCells, i.exits,
                 i.authorities, i.nullifiers, i.recovery, i.table.packets, i.table.hashes} : IsList(c)
    /\ \A w \in ToSet(i.consumed) \cup ToSet(i.created) : NoteParses(w.note) /\ BundleParses(w.bundle)
    /\ \A w \in ToSet(i.consumedCells) \cup ToSet(i.createdCells) : OpeningParses(w.opening)
    /\ ByIndex(i.consumedCells) /\ ByIndex(i.createdCells) /\ ByIndex(i.exits)
    /\ \A k \in 1 .. Len(i.recovery) - 1 : i.recovery[k].packet <= i.recovery[k + 1].packet

Bound(items, i) == \A k \in DOMAIN items : items[k].statement = StatementCommitment(i.statement)

(***************************************************************************)
(* Identity of the logical notes.                                          *)
(***************************************************************************)

IdsOf(items) == [k \in DOMAIN items |-> items[k].id]
PublicNotes(tuples) == {tuples[k].note : k \in DOMAIN tuples}

OpeningItemChecks(w, mismatch) ==
    << Check(BundleCommitment(w.bundle) # w.note.bundle,
             "witness-identity", "logical-note-bundle-commitment-mismatch"),
       Check(NoteCommitment(w.note) # w.id, "witness-identity", mismatch) >>
OpeningChecks(items, mismatch) == ForEach(items, LAMBDA k : OpeningItemChecks(items[k], mismatch))

AssetsOf(items) == {items[k].note.asset : k \in DOMAIN items}

LogicalChecks(i) ==
    << Check(~(/\ Bound(i.consumed, i) /\ Bound(i.created, i)
               /\ Bound(i.consumedCells, i) /\ Bound(i.createdCells, i)),
             "witness-identity", "witness-statement-commitment-mismatch"),
       Check(~Distinct(IdsOf(i.consumed)) \/ ~Distinct(IdsOf(i.created)),
             "witness-identity", "duplicate-logical-note-witness-identity") >>
    \o CountChecks(Len(i.consumed), Len(i.statement.consumed), "witness-identity",
                   "missing-consumed-logical-note-witness", "extra-consumed-logical-note-witness")
    \o CountChecks(Len(i.created), Len(i.statement.created), "witness-identity",
                   "missing-created-logical-note-witness", "extra-created-logical-note-witness")
    \o << Check(\/ ~ToSet(IdsOf(i.consumed)) \subseteq PublicNotes(i.statement.consumed)
                \/ ~ToSet(IdsOf(i.created)) \subseteq PublicNotes(i.statement.created),
                "witness-identity", "logical-note-commitment-identity-mismatch") >>
    \o OpeningChecks(i.consumed, "consumed-logical-note-opening-commitment-mismatch")
    \o OpeningChecks(i.created, "created-logical-note-opening-commitment-mismatch")
    \o << Check(~(AssetsOf(i.consumed) \cup AssetsOf(i.created)) \subseteq {AssetId},
                "witness-identity", "non-canonical-asset-id"),
          Check(~AssetsOf(i.created) \subseteq AssetsOf(i.consumed),
                "witness-identity", "consumed-created-asset-id-mismatch") >>

(***************************************************************************)
(* Correspondence of the cell openings with the public transaction.        *)
(***************************************************************************)

PublicCell(tuples, index) == Kept(tuples, {k \in DOMAIN tuples : tuples[k].index = index})

\* The tail both sides share: the opening opens the public cell it names.
CellOpeningChecks(w, tuples, projected, valueCode) ==
    LET public == PublicCell(tuples, w.index)
        named == public # <<>>
    IN  << Check(named /\ w.cell # public[1].cell,
                 "witness-identity", "backing-cell-seal-commitment-mismatch"),
           Check(named /\ w.opening.profile # public[1].profile,
                 "witness-identity", "backing-cell-locking-profile-mismatch"),
           Check(CellCommitment(w.opening) # w.cell,
                 "witness-identity", "backing-cell-opening-commitment-mismatch"),
           Check(Has(projected, w.index) /\ w.opening.value # At(projected, w.index).value,
                 "witness-identity", valueCode) >>

ConsumedCellItemChecks(i, w) ==
    LET inputs == i.statement.inputs
        projected == Has(inputs, w.index)
    IN  << Check(~projected, "witness-identity", "consumed-backing-cell-input-index-mismatch"),
           Check(projected /\ At(inputs, w.index).outpoint # w.source,
                 "witness-identity", "consumed-backing-cell-source-outpoint-mismatch"),
           Check(projected /\ At(inputs, w.index).role = "verifier-only",
                 "consumed-bundle", "verifier-input-used-as-backing"),
           Check(PublicCell(i.statement.consumedCells, w.index) = <<>>,
                 "consumed-bundle", "bundle-cell-extra") >>
        \o CellOpeningChecks(w, i.statement.consumedCells, inputs, "consumed-cell-value-mismatch")
ConsumedCellChecks(i) ==
    ForEach(i.consumedCells, LAMBDA k : ConsumedCellItemChecks(i, i.consumedCells[k]))

MisusedOutput(role) ==
    CASE role = "carrier" -> "recovery-carrier-used-as-backing"
      [] role = "transparent-exit" -> "transparent-output-used-as-backing"
      [] role = "aggregator-fee" -> "aggregator-fee-output-used-as-backing"
      [] OTHER -> "bundle-cell-role-mismatch"

CreatedCellItemChecks(i, w) ==
    LET outputs == i.statement.outputs
        role == IF Has(outputs, w.index) THEN At(outputs, w.index).role ELSE "none"
    IN  << Check(role = "none", "witness-identity", "created-backing-cell-output-index-mismatch"),
           Check(role # "private-backing", "created-bundle", MisusedOutput(role)),
           Check(PublicCell(i.statement.createdCells, w.index) = <<>>,
                 "created-bundle", "bundle-cell-extra"),
           Check(w.opening.slot # w.index,
                 "witness-identity", "created-backing-cell-output-index-mismatch"),
           Check(w.opening.scope # i.statement.scope,
                 "witness-identity", "created-backing-cell-creation-scope-mismatch") >>
        \o CellOpeningChecks(w, i.statement.createdCells, outputs, "created-cell-value-mismatch")
CreatedCellChecks(i) ==
    ForEach(i.createdCells, LAMBDA k : CreatedCellItemChecks(i, i.createdCells[k]))

CellIdentities(cells) == [k \in DOMAIN cells |-> <<cells[k].index, cells[k].cell>>]

CellChecks(i) ==
    << Check(~Distinct(CellIdentities(i.consumedCells)),
             "witness-identity", "duplicate-consumed-backing-cell-witness-identity"),
       Check(~Distinct(CellIdentities(i.createdCells)),
             "witness-identity", "duplicate-created-backing-cell-witness-identity") >>
    \o ConsumedCellChecks(i)
    \o CreatedCellChecks(i)

(***************************************************************************)
(* Exit authority: the seal on chain and the public commitment of a        *)
(* created cell are over one and the same key, and no key serves twice.    *)
(***************************************************************************)

ExitFor(i, index) == Kept(i.exits, {k \in DOMAIN i.exits : i.exits[k].index = index})

ExitKeyChecks(i, k) ==
    LET cell == i.statement.createdCells[k]
        given == ExitFor(i, cell.index)
        key == IF given = <<>> THEN -1 ELSE given[1].key
        lock == At(i.statement.outputs, cell.index).lock
    IN  << Check(given = <<>>, "created-exit-authority", "exit-authority-material-missing"),
           Check(~KeyParses(key), "created-exit-authority", "exit-authority-material-malformed"),
           Check(\E j \in 1 .. k - 1 : \E w \in ToSet(ExitFor(i, i.statement.createdCells[j].index)) : w.key = key,
                 "created-exit-authority", "exit-authority-public-key-duplicate"),
           Check(ExitCommitment(key) # cell.exit,
                 "created-exit-authority", "exit-authority-commitment-mismatch"),
           Check(~IsSeal(i.profile, lock), "created-exit-authority", "created-seal-template-mismatch"),
           Check(ExitKeyHash(lock) # Hash("sha256", key),
                 "created-exit-authority", "created-seal-exit-key-hash-mismatch") >>

ExitItemChecks(i, k) ==
    << Check(i.exits[k].statement # StatementCommitment(i.statement),
             "created-exit-authority", "exit-authority-statement-mismatch"),
       Check(RepeatsEarlier(IndexesOf(i.exits), k),
             "created-exit-authority", "exit-authority-material-extra") >>

ExitChecks(i) ==
    ForEach(i.exits, LAMBDA k : ExitItemChecks(i, k))
    \o << Check(Len(i.exits) > Len(i.statement.createdCells),
                "created-exit-authority", "exit-authority-material-extra") >>
    \o ForEach(i.statement.createdCells, LAMBDA k : ExitKeyChecks(i, k))

(***************************************************************************)
(* Bundles: each side's notes share out its public cells completely.       *)
(***************************************************************************)

MatchesMember(bundle, opening) ==
    /\ opening.scope = bundle.scope
    /\ \E k \in DOMAIN bundle.members :
            bundle.members[k] = [slot |-> opening.slot, value |-> opening.value,
                                 profile |-> opening.profile, blinder |-> opening.blinder]

AssignedTo(w, cells) == Kept(cells, {k \in DOMAIN cells : cells[k].id = w.id})

\* A mutated form: the total is not compared with the value of its note.
NoteBundleChecksUnbacked(w, cells, stage) ==
    LET assigned == AssignedTo(w, cells)
    IN  CountChecks(Len(assigned), Len(w.bundle.members), stage, "bundle-cell-missing", "bundle-cell-extra")
        \o ForEach(assigned, LAMBDA k :
            << Check(~MatchesMember(w.bundle, assigned[k].opening), stage, "bundle-cell-extra") >>)

AssignedCellChecks(bundle, assigned, k, stage) ==
    LET places == [j \in DOMAIN assigned |-> <<assigned[j].opening.scope, assigned[j].opening.slot>>]
    IN  << Check(~MatchesMember(bundle, assigned[k].opening), stage, "bundle-cell-extra"),
           Check(RepeatsEarlier(places, k), stage, "bundle-not-disjoint") >>

NoteBundleChecks(w, cells, stage) ==
    LET assigned == AssignedTo(w, cells)
        backing == Sum(w.bundle.members, LAMBDA m : m.value)
    IN  << Check(w.bundle.members = <<>>, stage, "empty-bundle") >>
        \o CountChecks(Len(assigned), Len(w.bundle.members), stage, "bundle-cell-missing", "bundle-cell-extra")
        \o ForEach(assigned, LAMBDA k : AssignedCellChecks(w.bundle, assigned, k, stage))
        \o << Check(Overflows(backing), "private-value-arithmetic", "private-value-sum-overflow"),
              Check(backing # w.note.value, stage, "note-backing-mismatch") >>

BundleChecks(notes, cells, expected, stage) ==
    << Check(~ToSet(IdsOf(cells)) \subseteq ToSet(IdsOf(notes)),
             stage, "backing-cell-logical-note-assignment-mismatch") >>
    \o ForEach(notes, LAMBDA k : NoteBundleChecks(notes[k], cells, stage))
    \o << Check(~Distinct(IndexesOf(cells)), stage, "bundle-not-disjoint"),
          Check(~ToSet(expected) \subseteq ToSet(IndexesOf(cells)), stage, "bundle-cell-missing"),
          Check(~ToSet(IndexesOf(cells)) \subseteq ToSet(expected), stage, "bundle-cell-extra") >>

ConservationChecks(i) ==
    LET consumed == Sum(i.consumed, LAMBDA w : w.note.value)
        created == Sum(i.created, LAMBDA w : w.note.value)
        fee == i.statement.networkFee + i.statement.serviceFee
    IN  << Check(\E t \in {consumed, created, fee, created + fee} : Overflows(t),
                 "private-value-arithmetic", "private-value-sum-overflow"),
           Check(consumed # created + fee, "private-conservation", "private-conservation-mismatch") >>

(***************************************************************************)
(* Authority and nullifiers of the consumed notes.                         *)
(***************************************************************************)

Opening(items, id) == Kept(items, {k \in DOMAIN items : items[k].id = id})

\* What authority and nullifier material must say of the note it names.
NamesNote(w, found) == found # <<>> /\ w.note = found[1].id
\* A mutated form: the bundle the material names is left to the note commitment.
NamesBundleUnread(w, found) == found # <<>>
NamesBundle(w, found) == found # <<>> /\ w.bundle = found[1].note.bundle

AuthorityItemChecks(i, k) ==
    LET w == i.authorities[k]
        found == Opening(i.consumed, w.id)
        message == SpendMessage(StatementCommitment(i.statement), w.note, w.bundle)
    IN  << Check(w.statement # StatementCommitment(i.statement),
                 "consumed-authority", "authority-statement-mismatch"),
           Check(RepeatsEarlier(IdsOf(i.authorities), k) \/ ~NamesNote(w, found),
                 "consumed-authority", "authority-note-mismatch"),
           Check(~NamesBundle(w, found), "consumed-authority", "authority-bundle-mismatch"),
           Check(found # <<>> /\ OwnerCommitment(w.key) # found[1].note.owner,
                 "consumed-authority", "authority-commitment-mismatch"),
           Check(~KeyParses(w.key), "consumed-authority", "authority-public-key-malformed"),
           Check(w.signature # Signature(w.key, message),
                 "consumed-authority", "authority-signature-invalid") >>

AuthorityChecks(i) ==
    CountChecks(Len(i.authorities), Len(i.consumed), "consumed-authority",
                "authority-material-missing", "authority-material-malformed")
    \o ForEach(i.authorities, LAMBDA k : AuthorityItemChecks(i, k))

DerivedNullifier(w, found) ==
    IF found = <<>> THEN Absent ELSE Nullifier(w.key, found[1].id, found[1].note.bundle)

DerivedNullifiers(i) ==
    [k \in DOMAIN i.nullifiers |->
        DerivedNullifier(i.nullifiers[k], Opening(i.consumed, i.nullifiers[k].id))]

NullifierItemChecks(i, k) ==
    LET w == i.nullifiers[k]
        found == Opening(i.consumed, w.id)
        derived == DerivedNullifiers(i)
    IN  << Check(w.statement # StatementCommitment(i.statement),
                 "consumed-nullifier", "nullifier-statement-mismatch"),
           Check(~NamesNote(w, found), "consumed-nullifier", "nullifier-note-mismatch"),
           Check(~NamesBundle(w, found), "consumed-nullifier", "nullifier-bundle-mismatch"),
           Check(\/ ~\E a \in ToSet(i.authorities) : a.id = w.id /\ a.key = w.key
                 \/ derived[k] # w.nullifier,
                 "consumed-nullifier", "nullifier-derivation-mismatch"),
           Check(RepeatsEarlier(IdsOf(i.nullifiers), k) \/ RepeatsEarlier(derived, k),
                 "consumed-nullifier", "nullifier-duplicate") >>

NullifierChecks(i) ==
    LET derived == DerivedNullifiers(i)
        public == {i.statement.consumed[k].nullifier : k \in DOMAIN i.statement.consumed}
        stage == "statement-nullifier-correspondence"
    IN  CountChecks(Len(i.nullifiers), Len(i.consumed), stage,
                    "statement-nullifier-missing", "statement-nullifier-extra")
        \o ForEach(i.nullifiers, LAMBDA k : NullifierItemChecks(i, k))
        \o << Check(~ToSet(derived) \subseteq public, stage, "statement-nullifier-missing"),
              Check(~public \subseteq ToSet(derived), stage, "statement-nullifier-extra"),
              Check(\E k \in DOMAIN i.nullifiers :
                        ~\E t \in ToSet(i.statement.consumed) :
                            t.note = i.nullifiers[k].id /\ t.nullifier = derived[k],
                    stage, "statement-nullifier-mismatch") >>

(***************************************************************************)
(* Recovery: what the carriers of the transaction hold is exactly what the *)
(* holders of the receive descriptors need.  Encryption and packet layout  *)
(* belong to the crate apnt-recovery-v1, which is not in the repository.   *)
(***************************************************************************)

Plaintext(packet, id, scope, note, bundle) ==
    [packet |-> packet, note |-> id, scope |-> scope, nonce |-> note.nonce,
     members |-> [k \in DOMAIN bundle.members |->
                    [slot |-> bundle.members[k].slot, blinder |-> bundle.members[k].blinder]]]
Packet(plaintext, descriptor, seed) ==
    Hash("packet", [plaintext |-> plaintext, kem |-> descriptor.kem, seed |-> seed])
PacketHash(packet) == Hash("packet-hash", packet)
PacketBin(packets) == Hash("packet-bin", packets)
BinRoot(bin) == Hash("packet-bin-root", bin)
\* The lock that pushes the n-th slice of the bin.
CarrierLock(bin, n) == <<"carrier", n, bin>>

\* The packet its sender evidence rebuilds; the note it is about must be known.
RebuiltPacket(i, w) ==
    LET found == Opening(i.created, w.id)
    IN  IF found = <<>> THEN Absent
        ELSE Packet(Plaintext(w.packet, w.id, found[1].bundle.scope, found[1].note, found[1].bundle),
                    w.descriptor, w.seed)

\* A mutated form: descriptors are told apart by their owner instead of their kem key.
ReusesDescriptorByOwner(i, k) ==
    \E j \in 1 .. k - 1 : i.recovery[j].descriptor.key = i.recovery[k].descriptor.key
ReusesDescriptor(i, k) ==
    \E j \in 1 .. k - 1 : i.recovery[j].descriptor.kem = i.recovery[k].descriptor.kem

RecoveryItemChecks(i, k) ==
    LET w == i.recovery[k]
        found == Opening(i.created, w.id)
        tuples == i.statement.created
        public == Kept(tuples, {n \in DOMAIN tuples : tuples[n].note = w.id})
        known == found # <<>> /\ public # <<>>
        stage == "recovery-consistency"
    IN  << Check(w.statement # StatementCommitment(i.statement), stage, "recovery-statement-reference-mismatch"),
           Check(RepeatsEarlier(IdsOf(i.recovery), k), stage, "recovery-evidence-duplicate"),
           Check(\/ ~known \/ w.note # public[1].note \/ w.note # NoteCommitment(found[1].note),
                 stage, "recovery-packet-note-mismatch"),
           Check(known /\ w.packet # public[1].packet, stage, "recovery-packet-index-mismatch"),
           Check(\/ w.scope # i.statement.scope
                 \/ known /\ w.scope # found[1].bundle.scope
                 \/ w.descriptor.network # i.statement.network
                 \/ ReusesDescriptor(i, k),
                 stage, "recovery-sender-evidence-mismatch"),
           Check(known /\ OwnerCommitment(w.descriptor.key) # found[1].note.owner,
                 stage, "recovery-owner-authority-mismatch"),
           Check(known /\ PacketHash(RebuiltPacket(i, w)) # public[1].hash,
                 stage, "recovery-packet-digest-mismatch") >>

TableChecks(i) ==
    LET stage == "recovery-consistency"
        packets == [k \in DOMAIN i.recovery |-> RebuiltPacket(i, i.recovery[k])]
        hashes == [k \in DOMAIN packets |-> PacketHash(packets[k])]
        supplied == [k \in DOMAIN i.table.packets |-> PacketHash(i.table.packets[k])]
        carriers == OfRole(i.statement.outputs, "carrier")
        bin == PacketBin(packets)
    IN  << Check(\E k \in DOMAIN i.recovery : i.recovery[k].packet # k - 1,
                 stage, "recovery-packet-index-mismatch"),
           Check(Len(i.table.packets) < Len(packets) \/ Len(i.table.hashes) < Len(packets),
                 stage, "recovery-evidence-missing"),
           Check(Len(i.table.packets) > Len(packets) \/ Len(i.table.hashes) > Len(packets),
                 stage, "recovery-evidence-extra"),
           Check(~Distinct(supplied) \/ ~Distinct(i.table.hashes), stage, "recovery-evidence-duplicate"),
           Check(i.table.packets # packets \/ i.table.hashes # hashes,
                 stage, "recovery-packet-digest-mismatch"),
           Check(i.table.bin # bin \/ i.table.root # BinRoot(bin), stage, "recovery-bin-root-mismatch"),
           Check(i.statement.root # BinRoot(bin), stage, "recovery-packet-table-commitment-mismatch"),
           Check(Len(carriers) # i.profile.carrierCount, stage, "recovery-carrier-count-mismatch"),
           Check(\E n \in DOMAIN carriers : carriers[n].slot \/ carriers[n].lock # CarrierLock(bin, n),
                 stage, "recovery-carrier-lock-mismatch") >>

RecoveryChecks(i) ==
    CountChecks(Len(i.recovery), Len(i.created), "recovery-consistency",
                "recovery-evidence-missing", "recovery-evidence-extra")
    \o << Check(i.table.statement # StatementCommitment(i.statement),
                "recovery-consistency", "recovery-statement-reference-mismatch"),
          Check(\/ Len(i.statement.created) # i.profile.packetCount
                \/ Len(i.statement.createdCells) > i.profile.maxRecoveryCells,
                "recovery-consistency", "recovery-packet-table-commitment-mismatch") >>
    \o ForEach(i.recovery, LAMBDA k : RecoveryItemChecks(i, k))
    \o TableChecks(i)

(***************************************************************************)
(* The evaluation and its public result.                                   *)
(***************************************************************************)

Evaluation(i) ==
    FirstFailure(<< Check(i.expected # StatementCommitment(i.statement),
                          "statement-boundary", "expected-statement-commitment-mismatch") >>,
    FirstFailure(LogicalChecks(i),
    FirstFailure(CellChecks(i),
    FirstFailure(ExitChecks(i),
    FirstFailure(BundleChecks(i.consumed, i.consumedCells, IndexesOf(i.statement.consumedCells), "consumed-bundle"),
    FirstFailure(BundleChecks(i.created, i.createdCells, IndexesOf(i.statement.createdCells), "created-bundle"),
    FirstFailure(ConservationChecks(i),
    FirstFailure(AuthorityChecks(i),
    FirstFailure(NullifierChecks(i),
    FirstFailure(RecoveryChecks(i), Accepted))))))))))

Malformed == [stage |-> "none", code |-> "malformed"]

Verdict(i) == IF InputParses(i) THEN Evaluation(i) ELSE Malformed

Stages ==
    << "statement-boundary", "witness-shape", "witness-identity", "private-value-arithmetic",
       "consumed-bundle", "created-bundle", "private-conservation", "consumed-authority",
       "consumed-nullifier", "statement-nullifier-correspondence", "recovery-consistency", "accepted",
       "created-exit-authority" >>

\* The code point of a stage, but created-exit-authority, appended to the
\* list, ranks where it runs.
Rank(stage) ==
    LET place == IF stage = "created-exit-authority" THEN "private-value-arithmetic" ELSE stage
    IN  CHOOSE n \in DOMAIN Stages : Stages[n] = place

\* The distinct status booleans of the result: the stages it claims to have
\* reached.
ReportedStages ==
    {"private-value-arithmetic", "consumed-authority", "consumed-nullifier",
     "statement-nullifier-correspondence", "accepted"}
\* A mutated form: the raw code points, in which created-exit-authority comes last.
ReachedByCodePoint(stage) ==
    LET Code(s) == CHOOSE n \in DOMAIN Stages : Stages[n] = s
    IN  {s \in ReportedStages : Code(stage) >= Code(s)}
Reached(stage) == {s \in ReportedStages : Rank(stage) >= Rank(s)}

\* No result is written for an input that does not parse.
NoResult == [verdict |-> Malformed, reached |-> {}, commitment |-> Absent, settlement |-> Absent]
ResultOf(i, verdict) ==
    IF verdict = Malformed THEN NoResult
    ELSE [verdict |-> verdict, reached |-> Reached(verdict.stage),
          commitment |-> StatementCommitment(i.statement),
          settlement |-> SettlementProjection(i.statement)]
PublicResult(i) == ResultOf(i, Verdict(i))
=============================================================================
