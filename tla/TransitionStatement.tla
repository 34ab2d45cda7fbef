------------------------ MODULE TransitionStatement ------------------------
(***************************************************************************)
(* The public statement V2 of a private-note transition: which statements  *)
(* the TypeScript codec normalises and writes                              *)
(* (apnt_transition_statement_v2.ts) and which ones the Rust relation      *)
(* reads and finds valid under a privacy profile                           *)
(* (apnt-private-note-transition-v1-rust-parity/src/lib.rs).               *)
(*                                                                         *)
(* A statement is a record of collections in their wire order.  A hash is  *)
(* an injection that keeps its domain: Hash(d, x).  Commitments have no    *)
(* order of their own, so "ascending by commitment" is "distinct"; indexes *)
(* are numbers, counted from 0 as in the code, and are ordered.            *)
(***************************************************************************)
EXTENDS Lists, FiniteSets

CONSTANT MaxMoney    \* MAX_BCH_MONEY_SATS, scaled with the cell value

ASSUME MaxMoneyAssumption == MaxMoney \in Nat \ {0}

Hash(domain, content) == <<domain, content>>
Absent == <<"absent", 0>>
NoOutput == -1

Networks == {"chipnet", "mainnet", "regtest"}
InputRoles == {"private-backing", "verifier-only"}
OutputRoles == {"private-backing", "carrier", "transparent-exit", "aggregator-fee", "boundary"}

Has(s, i) == i \in 0 .. Len(s) - 1
At(s, i) == s[i + 1]
Distinct(s) == \A a, b \in DOMAIN s : s[a] = s[b] => a = b
Sum(s, Value(_)) == TotalOf([k \in DOMAIN s |-> Value(s[k])])

\* checked_satoshi_sum and checked_satoshi_add refuse a total above MAX_BCH_MONEY_SATS.
Overflows(total) == total > MaxMoney

\* The 0-based positions of s that have a role, ascending.
Positions(s, role) ==
    Kept([k \in DOMAIN s |-> k - 1], {k \in DOMAIN s : s[k].role = role})
OfRole(s, role) == Kept(s, {k \in DOMAIN s : s[k].role = role})
IndexesOf(cells) == [k \in DOMAIN cells |-> cells[k].index]

(***************************************************************************)
(* Privacy profile V2: the floors no profile may weaken.                   *)
(***************************************************************************)

ConsumedFloor(p) == p.minConsumedNotes * p.minCellsPerNote + p.surplus
CreatedFloor(p) == p.createdNotes * p.minCellsPerNote + p.surplus

ProfileParses(p) ==
    /\ p.cellValue \in 1 .. MaxMoney
    /\ p.flatFee \in 0 .. MaxMoney
    /\ {p.minConsumedNotes, p.minCellsPerNote, p.surplus, p.minConsumedCells, p.minCreatedCells} \subseteq Nat
    /\ p.minConsumedNotes >= 2
    /\ p.createdNotes = 2
    /\ p.minCellsPerNote >= 2
    /\ p.surplus >= 1
    /\ p.minConsumedCells >= ConsumedFloor(p)
    /\ p.minCreatedCells >= CreatedFloor(p)
    /\ p.maxCreatedCells = 8
    /\ p.minCreatedCells <= p.maxCreatedCells
    /\ p.packetCount = 2 /\ p.maxRecoveryCells = 8 /\ p.carrierCount = 15
    /\ IF p.flat THEN p.flatFee > 0 /\ p.flatFee % p.cellValue = 0 ELSE p.flatFee = 0

ProfileId(p) == Hash("profile", p)
LockingProfile(p) == Hash("seal-locking-profile", p.sealCategory)

\* The 128-byte seal: a deployment skeleton around the hash of one exit key.
Seal(p, keyHash) == <<"seal", p.sealCategory, keyHash>>
IsSeal(p, lock) == lock[1] = "seal" /\ lock[2] = p.sealCategory
ExitKeyHash(lock) == lock[3]

(***************************************************************************)
(* Nonce, scope and commitments of a statement.                            *)
(***************************************************************************)

BatchNonce(st) ==
    Hash("batch-nonce", <<st.network, st.mode, st.profile, st.relation, st.program,
                          {st.inputs[k].outpoint : k \in DOMAIN st.inputs}>>)

\* What the scope covers of the created cells: not their commitments.
Skeletons(st) ==
    [k \in DOMAIN st.createdCells |->
        LET cell == st.createdCells[k]
        IN  <<cell.index, At(st.outputs, cell.index).value, cell.profile>>]

CreationScope(st) ==
    Hash("creation-scope", <<st.network, st.mode, st.profile, st.nonce, st.relation, st.program,
                             st.verifier, st.inputs, Skeletons(st)>>)

StatementCommitment(st) == Hash("statement", st)

\* Binds the transaction that settles the statement, except for the
\* designated verifier input, whose spend carries the proof.
SettlementProjection(st) ==
    Hash("settlement", <<st.verifier,
                         [k \in DOMAIN st.inputs \ {st.verifier + 1} |-> <<st.inputs[k].outpoint, st.inputs[k].value>>],
                         [k \in DOMAIN st.outputs |-> <<st.outputs[k].value, st.outputs[k].lock,
                             IF st.outputs[k].slot THEN StatementCommitment(st) ELSE Absent>>],
                         st.networkFee>>)

(***************************************************************************)
(* The Rust reader.                                                        *)
(***************************************************************************)

\* The reader decodes every collection into a vector.
CollectionsAreLists(st) ==
    \A c \in {st.consumed, st.created, st.consumedCells, st.createdCells, st.inputs, st.outputs} :
        IsList(c)

\* A commitment slot is 32 zero bytes of the lock; a seal has none.
ProjectionParses(st) ==
    /\ \A k \in DOMAIN st.outputs : st.outputs[k].slot => st.outputs[k].lock[1] # "seal"
    /\ st.inputs # <<>> /\ st.outputs # <<>>
    /\ Distinct([k \in DOMAIN st.inputs |-> st.inputs[k].outpoint])
    /\ \A k \in DOMAIN st.inputs : st.inputs[k].role \in InputRoles /\ st.inputs[k].value \in 0 .. MaxMoney
    /\ \A k \in DOMAIN st.outputs : st.outputs[k].role \in OutputRoles /\ st.outputs[k].value \in 0 .. MaxMoney

\* strictly_ascending over index.to_le_bytes(): least significant byte first.
LittleEndian(i) == <<i % 256, (i \div 256) % 256, (i \div 65536) % 256, i \div 16777216>>
BytesPrecede(a, b) ==
    \E k \in 1 .. 4 : a[k] < b[k] /\ \A j \in 1 .. k - 1 : a[j] = b[j]
CellsAscend(cells) ==
    \A k \in 1 .. Len(cells) - 1 :
        BytesPrecede(LittleEndian(cells[k].index), LittleEndian(cells[k + 1].index))

CollectionsCanonical(st) ==
    /\ Distinct([k \in DOMAIN st.consumed |-> st.consumed[k].note])
    /\ Distinct([k \in DOMAIN st.consumed |-> st.consumed[k].nullifier])
    /\ Distinct([k \in DOMAIN st.created |-> st.created[k].note])
    /\ \A k \in DOMAIN st.created : st.created[k].packet = k - 1
    /\ CellsAscend(st.consumedCells)
    /\ CellsAscend(st.createdCells)
    /\ Distinct([k \in DOMAIN st.createdCells |-> st.createdCells[k].exit])

ModeIsPrivate(st) ==
    /\ st.mode = "private-transition"
    /\ st.scope # Absent /\ st.root # Absent
    /\ \A c \in {st.consumed, st.created, st.consumedCells, st.createdCells} : c # <<>>
    /\ Has(st.inputs, st.verifier)
    /\ \A k \in DOMAIN st.outputs : st.outputs[k].role # "transparent-exit"
    /\ \E k \in DOMAIN st.outputs : st.outputs[k].role = "carrier"

IdentityHolds(st, p) == st.profile = ProfileId(p) /\ st.relation = p.relation

\* Every private-backing input and output of the transaction is one public cell.
BackingCovered(st, p) ==
    /\ IndexesOf(st.consumedCells) = Positions(st.inputs, "private-backing")
    /\ IndexesOf(st.createdCells) = Positions(st.outputs, "private-backing")
    /\ \A cell \in ToSet(st.consumedCells) \cup ToSet(st.createdCells) :
            cell.profile = LockingProfile(p)

PrivacyMinima(st, p) ==
    /\ Len(st.consumed) >= p.minConsumedNotes
    /\ Len(st.created) = p.createdNotes
    /\ Len(st.consumedCells) >= p.minConsumedCells
    /\ Len(st.createdCells) \in p.minCreatedCells .. p.maxCreatedCells
    /\ Len(st.consumedCells) >= Len(st.consumed) * p.minCellsPerNote + p.surplus
    /\ Len(st.createdCells) >= Len(st.created) * p.minCellsPerNote + p.surplus
    /\ \A k \in DOMAIN st.consumedCells : At(st.inputs, st.consumedCells[k].index).value = p.cellValue
    /\ \A k \in DOMAIN st.createdCells : At(st.outputs, st.createdCells[k].index).value = p.cellValue

InputTotal(st) == Sum(st.inputs, LAMBDA x : x.value)
OutputTotal(st) == Sum(st.outputs, LAMBDA x : x.value)

TotalsHold(st) ==
    /\ ~Overflows(InputTotal(st)) /\ ~Overflows(OutputTotal(st))
    /\ st.totalIn = InputTotal(st) /\ st.totalOut = OutputTotal(st)
    /\ st.networkFee \in 1 .. st.totalIn
    /\ st.totalIn - st.networkFee = st.totalOut

\* The cells that disappear pay for both fees.
GapPaysFees(st, p) ==
    LET gap == Len(st.consumedCells) - Len(st.createdCells)
    IN  /\ gap >= 0
        /\ ~Overflows(st.networkFee + st.serviceFee)
        /\ gap * p.cellValue = st.networkFee + st.serviceFee

\* A mutated form: the flat fee taken per created cell instead of per consumed note.
ServiceFeeHoldsPerCell(st, p) ==
    st.serviceFee = (IF p.flat THEN p.flatFee * Len(st.createdCells) ELSE 0)

ServiceFeeHolds(st, p) ==
    LET feeOutputs == Positions(st.outputs, "aggregator-fee")
    IN  IF p.flat
        THEN /\ st.serviceFee = p.flatFee * Len(st.consumed)
             /\ feeOutputs = <<st.feeOutput>>
             /\ At(st.outputs, st.feeOutput).value = st.serviceFee
        ELSE st.serviceFee = 0 /\ st.feeOutput = NoOutput /\ feeOutputs = <<>>

\* What verifier-only inputs bring in leaves in carriers and the boundary output.
CollateralPasses(st) ==
    LET boundary == OfRole(st.outputs, "boundary")
    IN  /\ Len(boundary) <= 1
        /\ Sum(OfRole(st.inputs, "verifier-only"), LAMBDA x : x.value)
             = Sum(OfRole(st.outputs, "carrier") \o boundary, LAMBDA x : x.value)

SealsHold(st, p) ==
    /\ \A k \in DOMAIN st.outputs : st.outputs[k].role = "private-backing" => IsSeal(p, st.outputs[k].lock)
    /\ \A k \in DOMAIN st.inputs : st.inputs[k].role = "private-backing" => IsSeal(p, st.inputs[k].lock)

CarriageHolds(st, p) ==
    /\ Len(st.created) = p.packetCount
    /\ Len(st.createdCells) <= p.maxRecoveryCells
    /\ Len(OfRole(st.outputs, "carrier")) = p.carrierCount

ValidStatement(st, p) ==
    /\ ModeIsPrivate(st)
    /\ IdentityHolds(st, p)
    /\ st.nonce = BatchNonce(st)
    /\ \A k \in DOMAIN st.createdCells : Has(st.outputs, st.createdCells[k].index)
    /\ st.scope = CreationScope(st)
    /\ BackingCovered(st, p)
    /\ PrivacyMinima(st, p)
    /\ TotalsHold(st)
    /\ GapPaysFees(st, p)
    /\ ServiceFeeHolds(st, p)
    /\ CollateralPasses(st)
    /\ SealsHold(st, p)
    /\ CarriageHolds(st, p)

StatementParses(st, p) ==
    /\ st.network \in Networks
    /\ CollectionsAreLists(st)
    /\ ProjectionParses(st)
    /\ CollectionsCanonical(st)
    /\ ValidStatement(st, p)

(***************************************************************************)
(* The TypeScript codec, for a private transition: what                    *)
(* normalizeAPNTTransitionStatementV2 keeps unchanged and then writes.     *)
(***************************************************************************)

IndexesAscend(cells) == \A k \in 1 .. Len(cells) - 1 : cells[k].index < cells[k + 1].index

CodecCollections(st) ==
    /\ Distinct([k \in DOMAIN st.consumed |-> st.consumed[k].note])
    /\ Distinct([k \in DOMAIN st.consumed |-> st.consumed[k].nullifier])
    /\ Distinct([k \in DOMAIN st.created |-> st.created[k].note])
    /\ Distinct([k \in DOMAIN st.created |-> st.created[k].hash])
    /\ \A k \in DOMAIN st.created : st.created[k].packet = k - 1
    /\ \A cells \in {st.consumedCells, st.createdCells} :
            IndexesAscend(cells) /\ Distinct([k \in DOMAIN cells |-> cells[k].cell])
    /\ Distinct([k \in DOMAIN st.createdCells |-> st.createdCells[k].exit])

CodecFeeShape(st) ==
    LET feeOutputs == Positions(st.outputs, "aggregator-fee")
    IN  IF st.serviceFee > 0
        THEN feeOutputs = <<st.feeOutput>> /\ At(st.outputs, st.feeOutput).value = st.serviceFee
        ELSE st.feeOutput = NoOutput /\ feeOutputs = <<>>

CodecTotals(st) ==
    /\ ~Overflows(InputTotal(st)) /\ ~Overflows(OutputTotal(st))
    /\ st.totalIn = InputTotal(st) /\ st.totalOut = OutputTotal(st)
    /\ st.networkFee \in 0 .. st.totalIn
    /\ st.totalIn - st.networkFee = st.totalOut

CodecWrites(st) ==
    /\ ProjectionParses(st)
    /\ ModeIsPrivate(st)
    /\ CodecCollections(st)
    /\ IndexesOf(st.consumedCells) = Positions(st.inputs, "private-backing")
    /\ IndexesOf(st.createdCells) = Positions(st.outputs, "private-backing")
    /\ CodecFeeShape(st)
    /\ Len(OfRole(st.outputs, "boundary")) <= 1
    /\ CodecTotals(st)
    /\ st.nonce = BatchNonce(st)
    /\ st.scope = CreationScope(st)
=============================================================================
