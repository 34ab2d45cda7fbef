-------------------------- MODULE ImportProjections --------------------------
(***************************************************************************)
(* What an import says of its transaction: the projection an import        *)
(* statement V0 carries, the creation scopes its notes belong to, and the  *)
(* settlement and current projections that a wallet and the covenant       *)
(* hash.  Each comes with its canonical bytes and the parser that takes    *)
(* them back.                                                              *)
(*                                                                         *)
(* Bytes are a sequence of tokens.  A run of fields of known width is one  *)
(* token, and so is an item of a list, whose scripts carry their length; a *)
(* list is its count and its items.  Magic, version, domain and texts have *)
(* one value each and are left out.                                        *)
(***************************************************************************)
EXTENDS Digests, Integers, Sequences, FiniteSets, SequencesExt, Lists

CONSTANTS MoneyCap,  \* stands for APNT_V1_BCH_MAX_MONEY_SATS
          ListCap    \* stands for the caps on inputs, outputs, notes, cells and scopes

Bounded(items) == IsList(items) /\ items # <<>> /\ Len(items) <= ListCap
Distinct(items) == Len(items) = Cardinality(ToSet(items))
Column(items, field) == [i \in DOMAIN items |-> items[i][field]]
OfRole(items, roles) == SelectSeq(items, LAMBDA item : item.role \in roles)
SumOf(values) == TotalOf(values)

\* checkedSum refuses a total beyond the cap.
Payable(values) == SumOf(values) <= MoneyCap

\* A transaction id is a byte string.  A byte string that is only compared stands as
\* a number, in byte order.
IsOutpoint(outpoint) == HasFields(outpoint, {"txid", "vout"}) /\ IsList(outpoint.txid)
IsComparable(bytes) == bytes \in Int

\* A transaction id is written in wire order, the reverse of the order it has
\* in a record.
Wire(outpoint) == [outpoint EXCEPT !.txid = Reverse(@)]
Wired(items) == [i \in DOMAIN items |-> [items[i] EXCEPT !.outpoint = Wire(@)]]

Counted(items) == <<[count |-> Len(items)]>> \o items
HasItems(bytes, at) == at \in DOMAIN bytes /\ at + bytes[at].count <= Len(bytes)
ItemsAt(bytes, at) == SubSeq(bytes, at + 1, at + bytes[at].count)
AfterItems(bytes, at) == at + bytes[at].count + 1

(***************************************************************************)
(* The transaction projection of statement V0.                             *)
(***************************************************************************)

BackingRole == "private-backing"
RecoveryRole == "recovery-packet-carrier"
FundingRole == "import-funding"
InputRoles == {FundingRole, "verifier-collateral"}
OutputRoles == {BackingRole, RecoveryRole, "verifier-collateral"}

\* A slot for the statement commitment lies inside the locking template.
IsSlot(offset, length) == offset # None => offset.at + 32 <= length

IsProjectionInput(input) ==
    /\ HasFields(input, {"outpoint", "value", "role"}) /\ IsOutpoint(input.outpoint)
    /\ input.role \in InputRoles /\ input.value \in 0..MoneyCap

IsProjectionOutput(output) ==
    /\ output.role \in OutputRoles
    /\ output.role = BackingRole <=> output.profile # None
    /\ output.value \in (IF output.role = BackingRole THEN 1 ELSE 0)..MoneyCap
    /\ IsSlot(output.slot, output.length)

IsProjection(projection) ==
    /\ HasFields(projection, {"inputs", "outputs"})
    /\ Bounded(projection.inputs) /\ Bounded(projection.outputs)
    /\ \A i \in DOMAIN projection.inputs : IsProjectionInput(projection.inputs[i])
    /\ \A i \in DOMAIN projection.outputs : IsProjectionOutput(projection.outputs[i])
    /\ Distinct(Column(projection.inputs, "outpoint"))
    /\ Len(OfRole(projection.inputs, {FundingRole})) = 1
    /\ {BackingRole, RecoveryRole} \subseteq ToSet(Column(projection.outputs, "role"))

EncodeProjection(projection) == Counted(Wired(projection.inputs)) \o Counted(projection.outputs)

ParseProjection(bytes) ==
    LET second == AfterItems(bytes, 1)
        read == [inputs |-> Wired(ItemsAt(bytes, 1)), outputs |-> ItemsAt(bytes, second)]
    IN  IF /\ HasItems(bytes, 1) /\ HasItems(bytes, second)
           /\ AfterItems(bytes, second) = Len(bytes) + 1
           /\ IsProjection(read)
           /\ EncodeProjection(read) = bytes
        THEN read ELSE None

ProjectionAccounting(projection) ==
    [funding |-> SumOf(Column(OfRole(projection.inputs, {FundingRole}), "value")),
     otherInputs |-> SumOf(Column(OfRole(projection.inputs, InputRoles \ {FundingRole}), "value")),
     backing |-> SumOf(Column(OfRole(projection.outputs, {BackingRole}), "value")),
     otherOutputs |-> SumOf(Column(OfRole(projection.outputs, OutputRoles \ {BackingRole}), "value")),
     inputs |-> SumOf(Column(projection.inputs, "value")),
     outputs |-> SumOf(Column(projection.outputs, "value"))]

ProjectionIsPayable(projection) ==
    Payable(Column(projection.inputs, "value")) /\ Payable(Column(projection.outputs, "value"))

(***************************************************************************)
(* Creation scopes.  A scope V0 names its transaction and the skeletons of *)
(* the cells it creates, a scope V1 does not name the transaction.         *)
(***************************************************************************)

ByIndex(items) == SortedBy(items, Column(items, "index"))
IsSkeletons(skeletons) ==
    /\ Bounded(skeletons)
    /\ Distinct(Column(skeletons, "index"))
    /\ \A i \in DOMAIN skeletons : skeletons[i].value \in 1..MoneyCap
EncodeSkeletons(skeletons) == Counted(ByIndex(skeletons))
SkeletonSet(skeletons) == Digest("import-created-backing-skeleton-set", EncodeSkeletons(skeletons))

IsScope0(scope) ==
    /\ HasFields(scope, {"network", "profile", "outpoint", "txid", "skeletons", "nonce"})
    /\ IsOutpoint(scope.outpoint) /\ IsComparable(scope.nonce)
EncodeScope0(scope) == [scope EXCEPT !.outpoint = Wire(@)]
ParseScope0(bytes) == IF IsScope0(bytes) THEN [bytes EXCEPT !.outpoint = Wire(@)] ELSE None
ScopeCommitment0(scope) == Digest("import-creation-scope-v0", EncodeScope0(scope))

IsScope1(scope) ==
    /\ HasFields(scope, {"network", "profile", "outpoint", "skeletons", "nonce"})
    /\ IsOutpoint(scope.outpoint) /\ IsComparable(scope.nonce)
EncodeScope1(scope) == [scope EXCEPT !.outpoint = Wire(@)]
\* Mutant: the reader keeps the wire order of the transaction id.
ParseScope1Unreversed(bytes) == IF IsScope1(bytes) THEN bytes ELSE None
ParseScope1(bytes) == IF IsScope1(bytes) THEN [bytes EXCEPT !.outpoint = Wire(@)] ELSE None
ScopeCommitment1(scope) == Digest("import-creation-scope-v1", EncodeScope1(scope))

(***************************************************************************)
(* The settlement projection: 12 inputs and 20 outputs, of which 15 carry  *)
(* recovery packets, in an order the covenant rebuilds.  Its bytes leave   *)
(* out fee and postage; ids keep the order they have in the record.        *)
(***************************************************************************)

SettlementInputs == 12
SettlementOutputs == 20
RecoveryPlaces == 5..19        \* outputs 4 to 18, counted from 0
LockingLength(place) == IF place \in RecoveryPlaces THEN 201 ELSE 54
ExactFee(inputs, outputs) == SumOf(Column(inputs, "value")) - SumOf(Column(outputs, "value"))
Postage(outputs) == SumOf(Column(SubSeq(outputs, 5, 19), "value"))

IsSettlementInput(input) == input.length = 54 /\ input.value \in 1..MoneyCap
IsSettlementOutput(output, place) == output.length = LockingLength(place) /\ output.value \in 1..MoneyCap
IsSettlement(projection) ==
    /\ HasFields(projection, {"inputs", "outputs", "fee", "postage"})
    /\ IsList(projection.inputs) /\ IsList(projection.outputs)
    /\ Len(projection.inputs) = SettlementInputs /\ Len(projection.outputs) = SettlementOutputs
    /\ \A i \in DOMAIN projection.inputs : IsSettlementInput(projection.inputs[i])
    /\ \A i \in DOMAIN projection.outputs : IsSettlementOutput(projection.outputs[i], i)
    /\ Distinct(Column(projection.inputs, "outpoint"))
    /\ projection.fee > 0 /\ projection.postage > 0
    /\ Payable(Column(projection.inputs, "value")) /\ Payable(Column(projection.outputs, "value"))
    /\ projection.fee = ExactFee(projection.inputs, projection.outputs)
    /\ projection.postage = Postage(projection.outputs)

EncodeSettlement(projection) == projection.inputs \o projection.outputs

ParseSettlement(bytes) ==
    LET inputs == SubSeq(bytes, 1, SettlementInputs)
        outputs == SubSeq(bytes, SettlementInputs + 1, SettlementInputs + SettlementOutputs)
        read == [inputs |-> inputs, outputs |-> outputs,
                 fee |-> ExactFee(inputs, outputs), postage |-> Postage(outputs)]
    IN  IF /\ Len(bytes) = SettlementInputs + SettlementOutputs
           /\ IsSettlement(read)
           /\ EncodeSettlement(read) = bytes
        THEN read ELSE None

SettlementCommitment(projection) == Digest("import-settlement-projection", EncodeSettlement(projection))

(***************************************************************************)
(* The current projection: the transaction as the chain shows it, with the *)
(* places its inputs and outputs have in the statement's projection.       *)
(***************************************************************************)

CurrentInputRoles == InputRoles \cup {"note-backed-verifier"}

IsCurrentInput(input) ==
    /\ HasFields(input, {"outpoint", "value", "role", "mapped"}) /\ IsOutpoint(input.outpoint)
    /\ input.role \in CurrentInputRoles
    /\ input.role = "note-backed-verifier" <=> input.mapped = None
    /\ input.value \in 1..MoneyCap

IsCurrentOutput(output) ==
    /\ output.role \in OutputRoles
    /\ output.role = RecoveryRole <=> output.chunk # None
    /\ output.value \in 1..MoneyCap

IsCurrent(projection) ==
    LET recovery == OfRole(projection.outputs, {RecoveryRole})
        mapped == SelectSeq(Column(projection.inputs, "mapped"), LAMBDA place : place # None)
    IN  /\ HasFields(projection, {"ids", "inputs", "outputs", "fee", "postage"})
        /\ Bounded(projection.inputs) /\ Bounded(projection.outputs)
        /\ \A i \in DOMAIN projection.inputs : IsCurrentInput(projection.inputs[i])
        /\ \A i \in DOMAIN projection.outputs : IsCurrentOutput(projection.outputs[i])
        /\ Distinct(Column(projection.inputs, "outpoint")) /\ Distinct(mapped)
        /\ Len(OfRole(projection.inputs, {FundingRole})) = 1
        /\ BackingRole \in ToSet(Column(projection.outputs, "role"))
        /\ recovery # <<>>
        /\ \A i \in DOMAIN recovery : recovery[i].chunk.at = i - 1
        /\ projection.fee \in 1..MoneyCap /\ projection.postage \in 1..MoneyCap
        /\ projection.fee = ExactFee(projection.inputs, projection.outputs)
        /\ projection.postage = SumOf(Column(recovery, "value"))

EncodeCurrent(projection) ==
    <<[head |-> projection.ids]>> \o Counted(Wired(projection.inputs)) \o Counted(projection.outputs)
    \o <<[tail |-> [fee |-> projection.fee, postage |-> projection.postage]]>>

ParseCurrent(bytes) ==
    LET second == AfterItems(bytes, 2)
        last == AfterItems(bytes, second)
        read == [ids |-> bytes[1].head, inputs |-> Wired(ItemsAt(bytes, 2)),
                 outputs |-> ItemsAt(bytes, second),
                 fee |-> bytes[last].tail.fee, postage |-> bytes[last].tail.postage]
    IN  IF /\ HasItems(bytes, 2) /\ HasItems(bytes, second) /\ last = Len(bytes)
           /\ IsCurrent(read)
           /\ EncodeCurrent(read) = bytes
        THEN read ELSE None

CurrentCommitment(projection) == Digest("import-current-transaction-projection", EncodeCurrent(projection))
SettlementFingerprint(outputs) == Digest("import-settlement-fingerprint", Counted(outputs))
==============================================================================
