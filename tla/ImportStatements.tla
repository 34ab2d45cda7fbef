-------------------------- MODULE ImportStatements --------------------------
(***************************************************************************)
(* The import statements V0 and V1 and the import claim plan: a record in  *)
(* the caller's memory is copied, checked, hashed and answered for.  The   *)
(* normaliser of V0 stops twice for digests and reads the memory again     *)
(* after the first, V1 and the plan stop once; the caller may overwrite    *)
(* what it handed over while they wait.  Settlement and current            *)
(* projections are answered at once.                                       *)
(*                                                                         *)
(* A call whose check fails throws: the call ends without an answer.       *)
(***************************************************************************)
EXTENDS ImportProjections

CONSTANTS ImportDrafts,   \* what callers hand over: a kind and a record
          MaxOverwrites   \* bound on overwrites of the memory during one call

Fields0 ==
    {"network", "profile", "funding", "open", "close", "txid", "projection", "notes", "cells", "scopes",
     "table", "fee", "accounting"}
Fields1 ==
    {"network", "profile", "funding", "open", "close", "settlement", "notes", "cells", "scopes",
     "table", "fee"}

ASSUME DraftAssumption ==
    \A draft \in ImportDrafts :
        /\ DOMAIN draft = {"kind", "record"}
        /\ draft.kind \in {"statement-v0", "statement-v1", "claim", "settlement", "current"}

VARIABLES held,        \* the draft in the caller's memory
          call,        \* the waiting call: what it has copied
          answer,      \* the record the last call answered with
          wire,        \* the canonical bytes of the answer
          overwrites   \* overwrites since the call began

importVars == <<held, call, answer, wire, overwrites>>

(***************************************************************************)
(* What a statement says, in canonical order.                              *)
(***************************************************************************)

\* Byte order of commitments: notes are numbered in it, scopes by their nonce.
ByCommitment(notes) == SortedBy(notes, Column(notes, "note"))
ByScope(references) == SortedBy(references, Column(Column(references, "scope"), "nonce"))

\* Packets are numbered in the canonical order of the notes.
AreCreatedNotes(notes) ==
    /\ Bounded(notes)
    /\ \A i \in DOMAIN notes : IsComparable(notes[i].note)
    /\ Distinct(Column(notes, "note")) /\ Distinct(Column(notes, "hash"))
    /\ \A i \in DOMAIN notes : ByCommitment(notes)[i].packet = i - 1

AreBackingCells(cells) ==
    /\ Bounded(cells)
    /\ \A i \in DOMAIN cells : cells[i].index \in Nat
    /\ Distinct(Column(cells, "index")) /\ Distinct(Column(cells, "cell"))

AreReferences0(references) ==
    /\ Bounded(references)
    /\ \A i \in DOMAIN references :
          HasFields(references[i], {"commitment", "scope"}) /\ IsScope0(references[i].scope)
References0Hold(references) ==
    /\ AreReferences0(references)
    /\ \A i \in DOMAIN references : references[i].commitment = ScopeCommitment0(references[i].scope)
    /\ Distinct(Column(references, "commitment"))

AreReferences1(references) ==
    /\ Bounded(references)
    /\ \A i \in DOMAIN references :
          HasFields(references[i], {"commitment", "scope"}) /\ IsScope1(references[i].scope)
References1Hold(references) ==
    /\ AreReferences1(references)
    /\ \A i \in DOMAIN references : references[i].commitment = ScopeCommitment1(references[i].scope)
    /\ Distinct(Column(references, "commitment"))

\* A statement names the fields of its version, and the outpoint its funding and
\* the close of its seal are about.
NamesFields(statement, fields) ==
    /\ HasFields(statement, fields)
    /\ HasFields(statement.funding, {"outpoint", "value"}) /\ IsOutpoint(statement.funding.outpoint)
    /\ HasFields(statement.close, {"outpoint", "index", "seal"}) /\ IsOutpoint(statement.close.outpoint)

SealIsClosed(statement) ==
    /\ statement.funding.outpoint = statement.close.outpoint
    /\ statement.open = statement.close.seal

\* Every note names one of the scopes, every scope is named by a note.
ScopesAreNamed(statement) ==
    ToSet(Column(statement.notes, "scope")) = ToSet(Column(statement.scopes, "commitment"))

FundingIsProjected(statement) ==
    LET place == statement.close.index + 1
        inputs == statement.projection.inputs
    IN  /\ place \in DOMAIN inputs
        /\ inputs[place].role = FundingRole
        /\ inputs[place].outpoint = statement.funding.outpoint
        /\ inputs[place].value = statement.funding.value

\* The cells are the private-backing outputs, in order, each with its profile.
CellsAreProjected(statement) ==
    LET outputs == statement.projection.outputs
        backing == Kept([i \in DOMAIN outputs |-> i], {i \in DOMAIN outputs : outputs[i].role = BackingRole})
    IN  /\ Len(backing) = Len(statement.cells)
        /\ \A i \in DOMAIN backing :
              /\ statement.cells[i].index = backing[i] - 1
              /\ statement.cells[i].profile = outputs[backing[i]].profile

SkeletonsOf(statement) ==
    [i \in DOMAIN statement.cells |->
        LET cell == statement.cells[i]
        IN  [index |-> cell.index, value |-> statement.projection.outputs[cell.index + 1].value,
             profile |-> cell.profile]]

\* Mutant: a scope may create other cells than the projection pays.
Scopes0OfAnyCells(statement, skeletons) ==
    \A i \in DOMAIN statement.scopes :
        LET scope == statement.scopes[i].scope
        IN  /\ scope.network = statement.network /\ scope.profile = statement.profile
            /\ scope.outpoint = statement.funding.outpoint
            /\ scope.txid = statement.txid

Scopes0Belong(statement, skeletons) ==
    \A i \in DOMAIN statement.scopes :
        LET scope == statement.scopes[i].scope
        IN  /\ scope.network = statement.network /\ scope.profile = statement.profile
            /\ scope.outpoint = statement.funding.outpoint
            /\ scope.txid = statement.txid
            /\ scope.skeletons = skeletons

Scopes1Belong(statement) ==
    \A i \in DOMAIN statement.scopes :
        LET scope == statement.scopes[i].scope
        IN  /\ scope.network = statement.network /\ scope.profile = statement.profile
            /\ scope.outpoint = statement.funding.outpoint

AccountingIsProjected(statement) ==
    /\ ProjectionIsPayable(statement.projection)
    /\ statement.accounting = ProjectionAccounting(statement.projection)
    /\ statement.accounting.funding = statement.funding.value

InOrder(statement) ==
    [statement EXCEPT !.notes = ByCommitment(@), !.cells = ByIndex(@), !.scopes = ByScope(@)]

(***************************************************************************)
(* Canonical bytes.                                                        *)
(***************************************************************************)

WiredIdentity(statement) ==
    [network |-> statement.network, profile |-> statement.profile,
     funding |-> [statement.funding EXCEPT !.outpoint = Wire(@)], open |-> statement.open,
     close |-> [statement.close EXCEPT !.outpoint = Wire(@)]]

EncodeReferences0(references) ==
    [i \in DOMAIN references |-> [references[i] EXCEPT !.scope = EncodeScope0(@)]]
ParseReferences0(references) ==
    [i \in DOMAIN references |-> [references[i] EXCEPT !.scope = ParseScope0(@)]]
EncodeReferences1(references) ==
    [i \in DOMAIN references |-> [references[i] EXCEPT !.scope = EncodeScope1(@)]]
ParseReferences1(references) ==
    [i \in DOMAIN references |-> [references[i] EXCEPT !.scope = ParseScope1(@)]]

EncodeStatement0(statement) ==
    <<[head |-> WiredIdentity(statement), txid |-> statement.txid],
      [projection |-> EncodeProjection(statement.projection)]>>
    \o Counted(statement.notes) \o Counted(statement.cells)
    \o Counted(EncodeReferences0(statement.scopes))
    \o <<[table |-> statement.table, fee |-> statement.fee, accounting |-> statement.accounting]>>

EncodeStatement1(statement) ==
    <<[head |-> WiredIdentity(statement), settlement |-> statement.settlement]>>
    \o Counted(statement.notes) \o Counted(statement.cells)
    \o Counted(EncodeReferences1(statement.scopes))
    \o <<[table |-> statement.table, fee |-> statement.fee]>>

\* Where the three lists and the closing fields begin, when the first starts at
\* `at`; none when the bytes end early or go on.
Places3(bytes, at) ==
    LET cells == AfterItems(bytes, at)
        scopes == AfterItems(bytes, cells)
        tail == AfterItems(bytes, scopes)
    IN  IF HasItems(bytes, at) /\ HasItems(bytes, cells) /\ HasItems(bytes, scopes) /\ tail = Len(bytes)
        THEN [notes |-> at, cells |-> cells, scopes |-> scopes, tail |-> tail] ELSE None

ReadIdentity(head) ==
    [head EXCEPT !.funding.outpoint = Wire(@), !.close.outpoint = Wire(@)]

ReadStatement0(bytes, at) ==
    LET id == ReadIdentity(bytes[1].head)
        tail == bytes[at.tail]
    IN  [network |-> id.network, profile |-> id.profile, funding |-> id.funding, open |-> id.open,
         close |-> id.close, txid |-> bytes[1].txid,
         projection |-> ParseProjection(bytes[2].projection),
         notes |-> ItemsAt(bytes, at.notes), cells |-> ItemsAt(bytes, at.cells),
         scopes |-> ParseReferences0(ItemsAt(bytes, at.scopes)),
         table |-> tail.table, fee |-> tail.fee, accounting |-> tail.accounting]

ReadStatement1(bytes, at) ==
    LET id == ReadIdentity(bytes[1].head)
        tail == bytes[at.tail]
    IN  [network |-> id.network, profile |-> id.profile, funding |-> id.funding, open |-> id.open,
         close |-> id.close, settlement |-> bytes[1].settlement,
         notes |-> ItemsAt(bytes, at.notes), cells |-> ItemsAt(bytes, at.cells),
         scopes |-> ParseReferences1(ItemsAt(bytes, at.scopes)),
         table |-> tail.table, fee |-> tail.fee]

\* What the normalisers make of a record nobody else holds.
Normalised0(statement) ==
    LET ordered == InOrder(statement)
    IN  IF /\ NamesFields(statement, Fields0)
           /\ statement.projection # None /\ IsProjection(statement.projection)
           /\ AreCreatedNotes(statement.notes) /\ AreBackingCells(statement.cells)
           /\ References0Hold(statement.scopes)
           /\ SealIsClosed(ordered) /\ FundingIsProjected(ordered) /\ CellsAreProjected(ordered)
           /\ Scopes0Belong(ordered, SkeletonSet(SkeletonsOf(ordered)))
           /\ ScopesAreNamed(ordered) /\ AccountingIsProjected(ordered)
        THEN ordered ELSE None

Normalised1(statement) ==
    LET ordered == InOrder(statement)
    IN  IF /\ NamesFields(statement, Fields1)
           /\ AreCreatedNotes(statement.notes) /\ AreBackingCells(statement.cells)
           /\ References1Hold(statement.scopes)
           /\ SealIsClosed(ordered) /\ Scopes1Belong(ordered) /\ ScopesAreNamed(ordered)
        THEN ordered ELSE None

\* The bytes must be those of the answer, so lists in another order are refused.
ParseStatement0(bytes) ==
    LET at == Places3(bytes, 3)
        read == Normalised0(ReadStatement0(bytes, at))
    IN  IF at # None /\ read # None /\ EncodeStatement0(read) = bytes THEN read ELSE None

ParseStatement1(bytes) ==
    LET at == Places3(bytes, 2)
        read == Normalised1(ReadStatement1(bytes, at))
    IN  IF at # None /\ read # None /\ EncodeStatement1(read) = bytes THEN read ELSE None

StatementCommitment0(statement) ==
    Digest("import-created-note-statement-v0", EncodeStatement0(statement))
StatementCommitment1(statement) ==
    Digest("import-created-note-statement-v1", EncodeStatement1(statement))

ClaimCommitment(body) == Digest("import-claim-v0", body)
IsClaimBody(body) == body.amount > 0 /\ body.expiry > 0

Encoded(kind, record) ==
    CASE kind = "statement-v0" -> EncodeStatement0(record)
      [] kind = "statement-v1" -> EncodeStatement1(record)
      [] kind = "settlement" -> EncodeSettlement(record)
      [] kind = "current" -> EncodeCurrent(record)
ImportParsed(kind, bytes) ==
    CASE kind = "statement-v0" -> ParseStatement0(bytes)
      [] kind = "statement-v1" -> ParseStatement1(bytes)
      [] kind = "settlement" -> ParseSettlement(bytes)
      [] kind = "current" -> ParseCurrent(bytes)

(***************************************************************************)
(* Steps.                                                                  *)
(***************************************************************************)

ImportInit ==
    /\ held = None /\ call = None /\ answer = None /\ wire = None /\ overwrites = 0

\* The caller writes a record.
Hold(draft) ==
    /\ held' = draft
    /\ UNCHANGED <<call, answer, wire, overwrites>>

\* Meanwhile the caller writes part of another record over it.
Overwrite(field, draft) ==
    /\ draft.kind = held.kind /\ field \in DOMAIN draft.record
    /\ held' = [held EXCEPT !.record[field] = draft.record[field]]
    /\ overwrites' = overwrites + 1
    /\ UNCHANGED <<call, answer, wire>>

Await(stage, copy) == call' = [stage |-> stage, copy |-> copy]
Throw == call' = None /\ UNCHANGED answer
Answer(record) == call' = None /\ answer' = [kind |-> held.kind, record |-> record]

CanCall(kind) == held # None /\ held.kind = kind /\ call = None /\ answer = None

\* Everything but accounting, packet table and fee is copied before the scopes
\* are hashed.
BeginStatement0 ==
    /\ CanCall("statement-v0") /\ NamesFields(held.record, Fields0)
    /\ IsProjection(held.record.projection)
    /\ AreCreatedNotes(held.record.notes) /\ AreBackingCells(held.record.cells)
    /\ AreReferences0(held.record.scopes)
    /\ Await("scopes", InOrder(held.record))
    /\ UNCHANGED <<held, answer, wire, overwrites>>

\* The accounting is read now; the skeletons of the cells are hashed next.
ScopesHashed0 ==
    /\ call # None /\ held.kind = "statement-v0" /\ call.stage = "scopes"
    /\ LET copy == [call.copy EXCEPT !.accounting = held.record.accounting]
           corresponds == /\ References0Hold(copy.scopes) /\ SealIsClosed(copy)
                          /\ FundingIsProjected(copy) /\ CellsAreProjected(copy)
                          /\ IsSkeletons(SkeletonsOf(copy))
       IN  \/ corresponds /\ Await("skeletons", copy) /\ UNCHANGED answer
           \/ ~corresponds /\ Throw
    /\ UNCHANGED <<held, wire, overwrites>>

\* Packet table and fee are read last, after both digests.
FinishStatement0 ==
    /\ call # None /\ held.kind = "statement-v0" /\ call.stage = "skeletons"
    /\ LET belongs == /\ Scopes0Belong(call.copy, SkeletonSet(SkeletonsOf(call.copy)))
                      /\ ScopesAreNamed(call.copy)
                      /\ AccountingIsProjected(call.copy)
       IN  \/ /\ belongs
              /\ Answer([call.copy EXCEPT !.table = held.record.table, !.fee = held.record.fee])
           \/ ~belongs /\ Throw
    /\ UNCHANGED <<held, wire, overwrites>>

BeginStatement1 ==
    /\ CanCall("statement-v1") /\ NamesFields(held.record, Fields1)
    /\ AreCreatedNotes(held.record.notes) /\ AreBackingCells(held.record.cells)
    /\ AreReferences1(held.record.scopes)
    /\ Await("scopes", InOrder(held.record))
    /\ UNCHANGED <<held, answer, wire, overwrites>>

FinishStatement1 ==
    /\ call # None /\ held.kind = "statement-v1"
    /\ LET belongs == /\ References1Hold(call.copy.scopes) /\ SealIsClosed(call.copy)
                      /\ Scopes1Belong(call.copy) /\ ScopesAreNamed(call.copy)
       IN  \/ /\ belongs
              /\ Answer([call.copy EXCEPT !.table = held.record.table, !.fee = held.record.fee])
           \/ ~belongs /\ Throw
    /\ UNCHANGED <<held, wire, overwrites>>

\* The plan's commitment and expected output are read after its body is hashed.
BeginClaimPlan ==
    /\ CanCall("claim")
    /\ IsClaimBody(held.record.body)
    /\ Await("claim", held.record.body)
    /\ UNCHANGED <<held, answer, wire, overwrites>>

FinishClaimPlan ==
    /\ call # None /\ held.kind = "claim"
    /\ LET commitment == ClaimCommitment(call.copy)
           output == held.record.output
           matches == /\ held.record.commitment = commitment /\ output.commitment = commitment
                      /\ output.value = call.copy.amount
       IN  \/ /\ matches
              /\ Answer([body |-> call.copy, commitment |-> commitment, output |-> output])
           \/ ~matches /\ Throw
    /\ UNCHANGED <<held, wire, overwrites>>

\* Building a plan reads the body once and writes the rest itself.
BuildClaimPlan ==
    /\ CanCall("claim")
    /\ IsClaimBody(held.record.body)
    /\ LET body == held.record.body
           commitment == ClaimCommitment(body)
       IN  Answer([body |-> body, commitment |-> commitment,
                   output |-> [value |-> body.amount, commitment |-> commitment]])
    /\ UNCHANGED <<held, wire, overwrites>>

AnswerProjection ==
    /\ \/ CanCall("settlement") /\ IsSettlement(held.record)
       \/ CanCall("current") /\ IsCurrent(held.record)
    /\ Answer(held.record)
    /\ UNCHANGED <<held, wire, overwrites>>

Serialise ==
    /\ answer # None /\ answer.kind # "claim" /\ wire = None
    /\ wire' = Encoded(answer.kind, answer.record)
    /\ UNCHANGED <<held, call, answer, overwrites>>

ImportNext ==
    \/ held = None /\ \E draft \in ImportDrafts : Hold(draft)
    \/ /\ call # None /\ overwrites < MaxOverwrites
       /\ \E draft \in ImportDrafts : \E field \in DOMAIN draft.record : Overwrite(field, draft)
    \/ BeginStatement0 \/ ScopesHashed0 \/ FinishStatement0
    \/ BeginStatement1 \/ FinishStatement1
    \/ BeginClaimPlan \/ FinishClaimPlan \/ BuildClaimPlan
    \/ AnswerProjection \/ Serialise

ImportSpec == ImportInit /\ [][ImportNext]_importVars

(***************************************************************************)
(* Properties.                                                             *)
(***************************************************************************)

\* Where the money of a statement V0 is: what its projection pays into private
\* backing is what its cells name, one cell for each output, and the scopes its
\* notes name commit to exactly those cells and to the consumed funding outpoint.
StatementIsBacked(statement) ==
    LET outputs == statement.projection.outputs
        backing == {i \in DOMAIN outputs : outputs[i].role = BackingRole}
        skeletons == {[index |-> i - 1, value |-> outputs[i].value, profile |-> outputs[i].profile] :
                         i \in backing}
    IN  /\ statement.accounting.backing = SumOf(Column(OfRole(outputs, {BackingRole}), "value"))
        /\ {cell.index : cell \in ToSet(statement.cells)} = {i - 1 : i \in backing}
        /\ \A note \in ToSet(statement.notes) : \E reference \in ToSet(statement.scopes) :
              /\ note.scope = ScopeCommitment0(reference.scope)
              /\ ToSet(Tail(reference.scope.skeletons.content)) = skeletons
        /\ \E input \in ToSet(statement.projection.inputs) :
              /\ input.role = FundingRole /\ input.outpoint = statement.close.outpoint
              /\ input.value = statement.accounting.funding

\* An answered import is one import, whatever its caller made of the record while
\* the digests were under way: a statement V0 is backed by its projection, the
\* scopes that the notes of a statement name spend the outpoint its seal closes,
\* and a claim plan pays the amount its commitment hashes.
AnswerIsOneImport ==
    answer # None =>
        /\ answer.kind = "statement-v0" => StatementIsBacked(answer.record)
        /\ answer.kind \in {"statement-v0", "statement-v1"} =>
              \A note \in ToSet(answer.record.notes) :
                  note.scope.content.outpoint = Wire(answer.record.close.outpoint)
        /\ answer.kind = "claim" =>
              answer.record.output.commitment.content.amount = answer.record.output.value

Damaged(bytes) == {Front(bytes), Append(bytes, bytes[Len(bytes)])}

\* The bytes of an answered record are read back as that record, fee and postage
\* of a settlement included, and no reader takes them cut short or run on.
BytesAreTheAnswer ==
    wire # None =>
        /\ ImportParsed(answer.kind, wire) = answer.record
        /\ \A bytes \in Damaged(wire) : ImportParsed(answer.kind, bytes) = None
==============================================================================
