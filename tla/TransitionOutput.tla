-------------------------- MODULE TransitionOutput --------------------------
(***************************************************************************)
(* The output that carries a batch on chain, and the carrier outputs of    *)
(* its recovery packets (apnt_aggregation_transition_output_v0.ts).        *)
(*                                                                         *)
(* The output's five commitments are pushed one after the other.  One of   *)
(* them, the transcript bind, is the slot a transaction projection zeroes: *)
(* the statement commits to the bytecode without it and the transcript     *)
(* bind is derived from the statement.  A recipient parses the bytecode it *)
(* finds.  Bytecode is a sequence of units, the length byte of a push, its *)
(* data or an opcode, so that offsets in bytes are those of the code.      *)
(***************************************************************************)
EXTENDS Digests, Lists

CONSTANTS Batches,      \* values of the four commitments that come before the proof
          PacketBins,   \* packet bins: carriage profile, payload, count, roots, padding
          Funding       \* fee, available value, carrier value and least output value

\* The accounting refuses negative values and counts.
ASSUME FundingAssumption ==
    \A funds \in Funding :
        {funds.override, funds.bins, funds.fee, funds.available, funds.minimum} \subseteq Nat

VARIABLES unbound,    \* the output, its transcript bind still zero
          slot,       \* its projection slot
          funding,    \* carrier accounting
          statement,  \* statement commitment made from the template
          output,     \* the output with its transcript bind
          found,      \* the bytecode a recipient was shown
          parsed      \* what it read from it

outputVars == <<unbound, slot, funding, statement, output, found, parsed>>

(***************************************************************************)
(* Carriers: one push of the payload, dropped, then OP_1.                  *)
(***************************************************************************)

CarrierBytecodeLength(payload) == (IF payload <= 75 THEN 1 ELSE 2) + payload + 2
CompactSizeLength(value) == IF value < 253 THEN 1 ELSE IF value <= 65535 THEN 3 ELSE 5
DustMinimum(length) == 3 * (148 + 8 + CompactSizeLength(length) + length)

\* A carrier value below the dust minimum throws, and so does a payload that no
\* carrier holds.  An override is the value of every carrier; 0 stands for none.
CarrierAccounting(bin, funds) ==
    LET dust == DustMinimum(CarrierBytecodeLength(bin.payload))
        value == IF funds.override = 0 THEN dust ELSE funds.override
        carriers == bin.count * funds.bins
        required == carriers * value + funds.fee + funds.minimum
    IN  IF bin.payload \notin 1..255 \/ bin.count = 0 \/ funds.bins = 0 \/ value < dust THEN None
        ELSE [status |-> IF funds.available >= required THEN "funded" ELSE "funding-shortfall",
              payload |-> bin.payload, value |-> value, carriers |-> carriers,
              fee |-> funds.fee, minimum |-> funds.minimum,
              available |-> funds.available, required |-> required,
              shortfall |-> IF funds.available >= required THEN 0 ELSE required - funds.available]

PaddingPolicies == {"none", "profile-selected", "fixed-class"}
CarriageProfiles == {"same-tx-batch-7x197", "same-tx-recovery-10x197",
                     "same-tx-recovery-15x197", "sharded-12x128"}
\* Neither payload nor count is compared with what the profile's name says.
IsPacketBin(bin) ==
    /\ bin.profile \in CarriageProfiles /\ bin.padding \in PaddingPolicies
    /\ {bin.payload, bin.count, bin.byteLength} \subseteq Nat
PacketBinCommitment(bin) == Digest("plane-b-packet-bin-commitment", bin)

(***************************************************************************)
(* Bytecode of the output.                                                 *)
(***************************************************************************)

FieldOrder == <<"transitionStatementBind32", "consumedSealSetCommitment32", "newNoteBatchRoot32",
                "planeBPacketBinCommitment32", "proofTranscriptBind32">>
\* Mutant: the slot is the field the transcript bind is derived from.
SlotOnStatementBind == "transitionStatementBind32"
SlotField == "proofTranscriptBind32"

Zeros == Digest("no digest: zero bytes", [bytes |-> 32])
TagBytes == 20
Tag == [tag |-> "BCHCLOAK_APNT_ATO_V0"]
Version0 == [version |-> 0]

LengthByte(size) == [unit |-> "length", size |-> size]
Data(size, value) == [unit |-> "data", size |-> size, value |-> value]
Opcode(name) == [unit |-> "opcode", opcode |-> name]
ByteLength(unit) == IF unit.unit = "data" THEN unit.size ELSE 1

PushAndDrop(size, value) == <<LengthByte(size), Data(size, value), Opcode("OP_DROP")>>
Bytecode(out) ==
    PushAndDrop(TagBytes, Tag) \o PushAndDrop(1, Version0)
    \o FlattenSeq([i \in DOMAIN FieldOrder |-> PushAndDrop(32, out[FieldOrder[i]])])
    \o <<Opcode("OP_1")>>

\* Where a unit starts, by counting; and where the code says the fields start.
OffsetOf(bytecode, unit) ==
    RunningTotals([i \in DOMAIN bytecode |-> ByteLength(bytecode[i])])[unit - 1]
PrefixBytes == 1 + TagBytes + 1 + 1 + 1 + 1
FieldOffset(i) == PrefixBytes + 1 + (i - 1) * (32 + 1 + 1)
BytecodeBytes == PrefixBytes + Len(FieldOrder) * (1 + 32 + 1) + 1
SlotOffset == FieldOffset(CHOOSE i \in DOMAIN FieldOrder : FieldOrder[i] = SlotField)

\* The units of the slot zeroed; None when the length is not that of the layout or
\* the slot does not carry its field.
ProjectionSlot(out) ==
    LET bytecode == Bytecode(out)
        last == Len(bytecode)
        inSlot == {i \in DOMAIN bytecode : OffsetOf(bytecode, i) = SlotOffset}
    IN  IF \/ OffsetOf(bytecode, last) + ByteLength(bytecode[last]) # BytecodeBytes
           \/ \E i \in inSlot : bytecode[i] # Data(32, out[SlotField])
        THEN None
        ELSE [bytecode |-> bytecode, offset |-> SlotOffset,
              template |-> [i \in DOMAIN bytecode |->
                               IF i \in inSlot THEN Data(32, Zeros) ELSE bytecode[i]]]

\* The parser: lengths, drops, tag, version and the final opcode as expected, and
\* nothing after it.
PushSizes == <<TagBytes, 1, 32, 32, 32, 32, 32>>
PushAt(bytecode, push) == bytecode[3 * push - 1]
ReadsPush(bytecode, push) ==
    LET first == 3 * push - 2
        size == PushSizes[push]
    IN  /\ Len(bytecode) >= first + 2
        /\ bytecode[first] = LengthByte(size)
        /\ bytecode[first + 1].unit = "data" /\ bytecode[first + 1].size = size
        /\ bytecode[first + 2] = Opcode("OP_DROP")
Parse(bytecode) ==
    LET end == 3 * Len(PushSizes) + 1
    IN  IF /\ \A push \in DOMAIN PushSizes : ReadsPush(bytecode, push)
           /\ PushAt(bytecode, 1).value = Tag
           /\ PushAt(bytecode, 2).value = Version0
           /\ Len(bytecode) = end
           /\ bytecode[end] = Opcode("OP_1")
        THEN [field \in {FieldOrder[i] : i \in DOMAIN FieldOrder} |->
                 PushAt(bytecode, 2 + CHOOSE i \in DOMAIN FieldOrder : FieldOrder[i] = field).value]
        ELSE None

(***************************************************************************)
(* Steps.                                                                  *)
(***************************************************************************)

OutputInit ==
    /\ unbound = None /\ slot = None /\ funding = None /\ statement = None
    /\ output = None /\ found = None /\ parsed = None

\* The four commitments are fixed and the carriers paid for.
DraftOutput(batch, bin, funds) ==
    /\ unbound = None
    /\ IsPacketBin(bin)
    /\ funding' = CarrierAccounting(bin, funds)
    /\ unbound' = [transitionStatementBind32 |-> batch.statementBind,
                 consumedSealSetCommitment32 |-> batch.seals,
                 newNoteBatchRoot32 |-> batch.notes,
                 planeBPacketBinCommitment32 |-> PacketBinCommitment(bin),
                 proofTranscriptBind32 |-> Zeros]
    /\ slot' = ProjectionSlot(unbound')
    /\ UNCHANGED <<statement, output, found, parsed>>

\* External: the statement embeds the template, the transcript bind its bind and
\* its commitment.
CommitStatement ==
    /\ slot # None /\ statement = None
    /\ funding # None /\ funding.status = "funded"
    /\ statement' = Digest("statement", [template |-> slot.template, offset |-> slot.offset])
    /\ UNCHANGED <<unbound, slot, funding, output, found, parsed>>

FillSlot ==
    /\ statement # None /\ output = None
    /\ output' = [unbound EXCEPT !.proofTranscriptBind32 =
                     Digest("proof-transcript-bind",
                            [bind |-> unbound.transitionStatementBind32, statement |-> statement])]
    /\ slot' = ProjectionSlot(output')
    /\ UNCHANGED <<unbound, funding, statement, found, parsed>>

\* What a recipient may be shown: the bytecode, one with a unit missing, doubled or
\* exchanged for another, or the template.
Shown(bytecode) ==
    {bytecode, slot.template}
    \cup {RemoveAt(bytecode, i) : i \in DOMAIN bytecode}
    \cup {InsertAt(bytecode, i, bytecode[i]) : i \in DOMAIN bytecode}
    \cup {ReplaceAt(bytecode, i, unit) : i \in DOMAIN bytecode,
             unit \in {LengthByte(31), Data(31, Zeros), Data(32, Zeros), Data(1, [version |-> 1]),
                       Opcode("OP_1"), Opcode("OP_DROP")}}
ParseShown(bytecode) ==
    /\ found = None
    /\ found' = bytecode /\ parsed' = Parse(bytecode)
    /\ UNCHANGED <<unbound, slot, funding, statement, output>>

OutputNext ==
    \/ \E batch \in Batches, bin \in PacketBins, funds \in Funding : DraftOutput(batch, bin, funds)
    \/ CommitStatement
    \/ FillSlot
    \/ output # None /\ slot # None
       /\ \E bytecode \in Shown(slot.bytecode) : ParseShown(bytecode)

OutputSpec == OutputInit /\ [][OutputNext]_outputVars

(***************************************************************************)
(* Properties.                                                             *)
(***************************************************************************)

\* The statement committed to the output that is published: all of it but the
\* transcript bind, which is where the projection looks for it, although the bind
\* was not known when the statement was made.
\* buildApntAggregationTransitionOutputProjectionSlotV0, the comment above it.
StatementFixesOutput ==
    output # None =>
        /\ slot # None
        /\ statement.content = [template |-> slot.template, offset |-> slot.offset]
        /\ \E i \in DOMAIN slot.bytecode :
              /\ OffsetOf(slot.bytecode, i) = statement.content.offset
              /\ slot.bytecode[i].value = output.proofTranscriptBind32

\* A bytecode the parser accepts is the bytecode of what it answers, to the last
\* byte, and of one output only.
ParsedIsCanonical == found # None /\ parsed # None => Bytecode(parsed) = found

\* Published carriers can be relayed and leave the least value for the output: each
\* is worth three times the bytes of its output and of the input that spends it,
\* across the lengths at which a push or a length prefix grows.
CarriersArePaid ==
    output # None =>
        LET bin == output.planeBPacketBinCommitment32.content
            length == bin.payload + (IF bin.payload > 75 THEN 4 ELSE 3)
            prefix == IF length > 252 THEN 3 ELSE 1
        IN  /\ funding.payload = bin.payload
            /\ funding.carriers >= bin.count
            /\ funding.value >= 3 * (length + prefix + 156)
            /\ funding.available - funding.fee - funding.carriers * funding.value >= funding.minimum

\* All three: what is published is what the statement committed to, what a recipient
\* reads back, and what the carriers can pay for.
PublishedOutputIsSound == StatementFixesOutput /\ ParsedIsCanonical /\ CarriersArePaid
=============================================================================
