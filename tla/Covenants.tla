----------------------------- MODULE Covenants -----------------------------
(***************************************************************************)
(* The scripts on chain (cashassembly/*.casm): the verifier factory, the   *)
(* settlement authorization covenant and the seal of a created note, with  *)
(* the builders that fill their templates and write what they compare.     *)
(*                                                                         *)
(* The chain is the set of unspent coins.  A transaction is whatever       *)
(* somebody offers; it confirms when every script it runs allows it.  What *)
(* the scripts see of it are the answers of the introspection opcodes.     *)
(* A spending is a transaction whose inputs show the coins they spend.     *)
(***************************************************************************)
EXTENDS Digests, Integers, Sequences, FiniteSets, SequencesExt, Lists

CONSTANTS Proven,                \* settlement statements that have a proof
          Genesis,               \* outpoint -> coin, before the first transaction
          Offered(_, _),         \* transactions somebody may build, of coins and signatures
          ExitDrafts(_),         \* spends an owner may sign: [tx, key, hashType, scheme]
          InputSlots,            \* MAX_INPUTS of the covenant
          OutputSlots,           \* MAX_OUTPUTS
          Word,                  \* 2^32
          MaxConfirmed,          \* bound: transactions confirmed in one behaviour
          MaxSignatures          \* bound: signatures made in one behaviour

ASSUME SizesAssumption ==
    /\ InputSlots \in Nat /\ OutputSlots \in Nat /\ Word \in Nat \ {0}
    /\ InputSlots < Word \div 2 /\ OutputSlots < Word \div 2

SumSats(values) == TotalOf(values)
Values(items) == [i \in DOMAIN items |-> items[i].value]

VARIABLES coins,        \* unspent: outpoint -> [value, locking, token]
          confirmed,    \* the spendings confirmed, in order
          signatures    \* exit signatures made, with the draft they were made for

covenantVars == <<coins, confirmed, signatures>>

VerifierCategory == "verifier"
FactoryLocking == [kind |-> "factory"]
StageZeroLocking == [kind |-> "stages"]
VerdictLocking == [kind |-> "L_verdict"]
\* Plain SHA-256 of the key; the relation's commitment to it is another digest.
ExitKeyHash(key) == Digest("sha256", [key |-> key])
SealLocking(exitKeyHash) == [kind |-> "seal", exitKeyHash |-> exitKeyHash]

\* The bare category for an immutable token, otherwise followed by its capability.
TokenCategory(token) ==
    IF token = None THEN <<>>
    ELSE <<token.category>> \o CASE token.capability = "immutable" -> <<>>
                                 [] token.capability = "mutable" -> <<1>>
                                 [] token.capability = "minting" -> <<2>>

(***************************************************************************)
(* The settlement projection of a statement                                *)
(* (apnt_transition_settlement_projection_v0.ts).                          *)
(***************************************************************************)

ProjectionDomain == "transition-settlement-projection-commitment-v0"
StatementCommitment(statement) == Digest("transition-statement", statement)

\* The statement commitment is written into the slot a template declares.
Materialized(out, commitment) ==
    IF out.slot THEN [out.locking EXCEPT !.commitment = commitment] ELSE out.locking

\* The designated input's outpoint does not exist yet when the statement is proved.
ProjectedInputs(inputs, designated) ==
    RemoveAt([i \in DOMAIN inputs |-> [outpoint |-> inputs[i].outpoint,
                                       sequence |-> inputs[i].sequence,
                                       value |-> inputs[i].value]],
             designated + 1)

IsWord(value) == value \in 0..(Word - 1)
\* None stands for a throw.
SerializedProjection(statement) ==
    IF \/ statement.inputs = <<>> \/ statement.outputs = <<>>
       \/ \E i \in DOMAIN statement.inputs : statement.inputs[i].token # None
       \/ \E j \in DOMAIN statement.outputs : statement.outputs[j].token # None
       \/ statement.designated >= Len(statement.inputs)
       \/ ~IsWord(statement.version) \/ ~IsWord(statement.locktime)
       \/ \E i \in DOMAIN statement.inputs : ~IsWord(statement.inputs[i].sequence)
    THEN None
    ELSE [version |-> statement.version, locktime |-> statement.locktime,
          inputCount |-> Len(statement.inputs), designated |-> statement.designated,
          inputs |-> ProjectedInputs(statement.inputs, statement.designated),
          outputCount |-> Len(statement.outputs),
          outputs |-> [j \in DOMAIN statement.outputs |->
                          [value |-> statement.outputs[j].value,
                           locking |-> Materialized(statement.outputs[j],
                                                    StatementCommitment(statement))]],
          fee |-> statement.fee]
\* settlementProjection32, which the relation publishes and the proof attests.
ProjectionCommitment(statement) == Digest(ProjectionDomain, SerializedProjection(statement))

\* What the relation and statement V2 leave of the statements that have a proof: their
\* projection serializes, inputs are distinct, and the fee is inputs minus outputs.
ASSUME ProvenAssumption ==
    \A statement \in Proven :
        /\ IsList(statement.inputs) /\ IsList(statement.outputs)
        /\ \A i \in DOMAIN statement.inputs : statement.inputs[i].value \in Nat
        /\ \A j \in DOMAIN statement.outputs : statement.outputs[j].value \in Nat
        /\ \A i, k \in DOMAIN statement.inputs :
              statement.inputs[i].outpoint = statement.inputs[k].outpoint => i = k
        /\ statement.designated \in Nat
        /\ statement.fee \in Nat
        /\ statement.fee = SumSats(Values(statement.inputs)) - SumSats(Values(statement.outputs))
        /\ SerializedProjection(statement) # None

(***************************************************************************)
(* The settlement authorization covenant at L_verdict.                     *)
(***************************************************************************)

\* u32le: a number of 2^31 and more has a fifth byte for its sign.  OP_NUM2BIN fails
\* (-1) unless the number fits the bytes asked for.
NarrowWord(number) == IF number < Word \div 2 THEN number ELSE -1
WideWord(number) == number % Word

\* Every input counts for the fee; the executing one is left out of the body, and
\* slots the transaction does not have are skipped.  Left out: the VM's limit of 10,000
\* bytes on the stack item that collects it, which only oversized, non-standard
\* lockings of outputs could meet.
Transcript(spending, index) ==
    LET inputs == SubSeq(spending.inputs, 1, Min({Len(spending.inputs), InputSlots}))
        outputs == SubSeq(spending.outputs, 1, Min({Len(spending.outputs), OutputSlots}))
        body == [i \in DOMAIN inputs |-> [outpoint |-> inputs[i].outpoint,
                                          sequence |-> WideWord(inputs[i].sequence),
                                          value |-> inputs[i].coin.value]]
    IN  [version |-> WideWord(spending.version), locktime |-> WideWord(spending.locktime),
         inputCount |-> NarrowWord(Len(spending.inputs)), designated |-> NarrowWord(index - 1),
         inputs |-> IF index <= Len(inputs) THEN RemoveAt(body, index) ELSE body,
         outputCount |-> NarrowWord(Len(spending.outputs)),
         outputs |-> [j \in DOMAIN outputs |-> [value |-> outputs[j].value,
                                                locking |-> outputs[j].locking]],
         fee |-> SumSats([i \in DOMAIN inputs |-> inputs[i].coin.value]) - SumSats(Values(outputs))]

\* It compares the hash with the commitment of its own token, of whatever category.
SettlementAuthorized(spending, index) ==
    LET token == spending.inputs[index].coin.token
    IN  /\ \A j \in 1..Min({Len(spending.outputs), OutputSlots}) :
              TokenCategory(spending.outputs[j].token) = <<>>
        /\ token # None
        /\ token.commitment = Digest(ProjectionDomain, Transcript(spending, index))

(***************************************************************************)
(* The verifier factory, and the stages of a verifier run (external): a    *)
(* run takes a mutable token through its stages, and ends by leaving it    *)
(* immutable at L_verdict with the projection of what has been proved.     *)
(***************************************************************************)

\* Mutant: the last output may carry a token.
FactoryAllowsAnyChange(spending, index) ==
    /\ Len(spending.outputs) = 3
    /\ TokenCategory(spending.inputs[index].coin.token) = <<VerifierCategory, 2>>
    /\ TokenCategory(spending.outputs[1].token) = <<VerifierCategory, 2>>
    /\ spending.outputs[1].locking = spending.inputs[index].coin.locking
    /\ TokenCategory(spending.outputs[2].token) = <<VerifierCategory, 1>>
    /\ spending.outputs[2].locking = StageZeroLocking
FactoryAllows(spending, index) ==
    /\ Len(spending.outputs) = 3
    /\ TokenCategory(spending.inputs[index].coin.token) = <<VerifierCategory, 2>>
    /\ TokenCategory(spending.outputs[1].token) = <<VerifierCategory, 2>>
    /\ spending.outputs[1].locking = spending.inputs[index].coin.locking
    /\ TokenCategory(spending.outputs[2].token) = <<VerifierCategory, 1>>
    /\ spending.outputs[2].locking = StageZeroLocking
    /\ TokenCategory(spending.outputs[3].token) = <<>>

StagesAllow(spending) ==
    \A j \in DOMAIN spending.outputs :
        LET out == spending.outputs[j]
        IN  out.token # None =>
                /\ TokenCategory(out.token) = <<VerifierCategory>>
                /\ out.locking = VerdictLocking
                /\ out.token.commitment \in {ProjectionCommitment(s) : s \in Proven}

(***************************************************************************)
(* The seal of a created note: OP_IF the aggregate branch, OP_ELSE the     *)
(* exit branch.                                                            *)
(***************************************************************************)

AggregateSelector == 1
ExitSelector == 0

\* The witness is the index of an input, whichever the spender likes.
AggregateAllows(spending, unlocking) ==
    LET verifier == unlocking.index + 1
    IN  /\ verifier \in DOMAIN spending.inputs
        /\ TokenCategory(spending.inputs[verifier].coin.token) = <<VerifierCategory>>
        /\ spending.inputs[verifier].coin.locking = VerdictLocking

\* What OP_CHECKSIG makes a signature answer for (external).
SignedDigest(tx, index, covered, hashType) ==
    Digest("signature",
        [version |-> tx.version, locktime |-> tx.locktime, covered |-> covered,
         prevouts |-> [i \in DOMAIN tx.inputs |-> tx.inputs[i].outpoint],
         outpoint |-> tx.inputs[index].outpoint, sequence |-> tx.inputs[index].sequence,
         sequences |-> IF hashType = "ALL" THEN [i \in DOMAIN tx.inputs |-> tx.inputs[i].sequence]
                       ELSE <<>>,
         outputs |-> CASE hashType = "ALL" -> tx.outputs
                       [] hashType = "SINGLE" -> IF index \in DOMAIN tx.outputs
                                                 THEN <<tx.outputs[index]>> ELSE <<>>
                       [] hashType = "NONE" -> <<>>,
         hashType |-> hashType])
\* 64 bytes of Schnorr signature, or a longer DER encoding, and the sighash byte.
SignatureBytes(signature) == IF signature.scheme = "schnorr" THEN 65 ELSE 72

\* The bytecode the signature covers is the whole seal.  No signature of a key verifies
\* but those its holder has made (external).
ExitAllows(spending, index, unlocking) ==
    LET seal == spending.inputs[index].coin.locking
        signature == unlocking.signature
    IN  /\ ExitKeyHash(unlocking.key) = seal.exitKeyHash
        /\ signature \in signatures
        /\ SignatureBytes(signature) = 65
        /\ signature.hashType = "ALL"
        /\ signature.key = unlocking.key
        /\ signature.digest = SignedDigest(spending, index, seal, signature.hashType)

SealAllows(spending, index) ==
    LET unlocking == spending.inputs[index].unlocking
    IN  /\ unlocking # None
        /\ IF unlocking.selector = AggregateSelector THEN AggregateAllows(spending, unlocking)
           ELSE ExitAllows(spending, index, unlocking)

(***************************************************************************)
(* The builders of a spender.                                              *)
(***************************************************************************)

\* The index push is refused beyond the slots of the covenant.
AggregateUnlocking(index) ==
    IF index \notin 0..(InputSlots - 1) THEN None
    ELSE [selector |-> AggregateSelector, index |-> index]

\* A signature of another length or sighash byte is refused.
ExitUnlocking(signature) ==
    IF SignatureBytes(signature) # 65 \/ signature.hashType # "ALL" THEN None
    ELSE [selector |-> ExitSelector, key |-> signature.key, signature |-> signature]

\* The spend that was signed, with its unlocking bytecode in place.
Unlocked(draft, unlocking) ==
    [version |-> draft.version, locktime |-> draft.locktime,
     inputs |-> <<[outpoint |-> draft.inputs[1].outpoint, sequence |-> draft.inputs[1].sequence,
                   unlocking |-> unlocking]>>,
     outputs |-> draft.outputs]

\* The transaction a statement projects, with a verdict at its designated input.
Settlement(statement, verdict) ==
    [version |-> statement.version, locktime |-> statement.locktime,
     inputs |-> [i \in DOMAIN statement.inputs |->
                    IF i = statement.designated + 1
                    THEN [outpoint |-> verdict, sequence |-> statement.inputs[i].sequence,
                          unlocking |-> None]
                    ELSE [outpoint |-> statement.inputs[i].outpoint,
                          sequence |-> statement.inputs[i].sequence,
                          unlocking |-> AggregateUnlocking(statement.designated)]],
     outputs |-> [j \in DOMAIN statement.outputs |->
                     [value |-> statement.outputs[j].value, token |-> None,
                      locking |-> Materialized(statement.outputs[j], StatementCommitment(statement))]]]

(***************************************************************************)
(* The chain (external).                                                   *)
(***************************************************************************)

IsToken(token) == token # None => token.capability \in {"immutable", "mutable", "minting"}
IsCoin(coin) == coin.value \in Nat /\ IsToken(coin.token)
\* What the bytes of a transaction decode to: lists, satoshis and 32-bit words.
IsTransaction(tx) ==
    /\ IsList(tx.inputs) /\ IsList(tx.outputs)
    /\ IsWord(tx.version) /\ IsWord(tx.locktime)
    /\ \A i \in DOMAIN tx.inputs : IsWord(tx.inputs[i].sequence)
    /\ \A j \in DOMAIN tx.outputs : IsCoin(tx.outputs[j])

\* A run keeps the token of the verifier's category where it belongs: the minting one in
\* the factory, a mutable one in the stages, and a verdict for what has been proved.
TokenIsPlaced(coin) ==
    coin.token # None /\ coin.token.category = VerifierCategory =>
        \/ coin.token.capability = "minting" /\ coin.locking = FactoryLocking
        \/ coin.token.capability = "mutable" /\ coin.locking = StageZeroLocking
        \/ /\ coin.token.capability = "immutable" /\ coin.locking = VerdictLocking
           /\ coin.token.commitment \in {ProjectionCommitment(s) : s \in Proven}

\* The deployment starts with the minting token in its factory.  A place <<n, j>> is the
\* output j of the transaction n.
ASSUME GenesisAssumption ==
    \A o \in DOMAIN Genesis :
        /\ IsCoin(Genesis[o]) /\ TokenIsPlaced(Genesis[o])
        /\ o[1] = 0

\* An output's token comes from a minting token of its category or from one token of
\* its own, which an immutable one leaves as it was.
ComesFrom(to, from) ==
    /\ to.category = from.category
    /\ to.capability # "minting"
    /\ from.capability = "immutable" => to = from
TokensConserved(spending) ==
    LET given == {i \in DOMAIN spending.inputs : spending.inputs[i].coin.token # None}
        minted(token) == \E i \in given : /\ spending.inputs[i].coin.token.category = token.category
                                          /\ spending.inputs[i].coin.token.capability = "minting"
        moved == {j \in DOMAIN spending.outputs :
                     /\ spending.outputs[j].token # None
                     /\ ~minted(spending.outputs[j].token)}
    IN  \E from \in Injection(moved, given) :
            \A j \in moved : ComesFrom(spending.outputs[j].token, spending.inputs[from[j]].coin.token)

Spending(tx) ==
    [version |-> tx.version, locktime |-> tx.locktime,
     inputs |-> [i \in DOMAIN tx.inputs |->
        [outpoint |-> tx.inputs[i].outpoint, sequence |-> tx.inputs[i].sequence,
         unlocking |-> tx.inputs[i].unlocking, coin |-> coins[tx.inputs[i].outpoint]]],
     outputs |-> tx.outputs]

ScriptAllows(spending, index) ==
    LET kind == spending.inputs[index].coin.locking.kind
    IN  /\ kind = "factory" => FactoryAllows(spending, index)
        /\ kind = "stages" => StagesAllow(spending)
        /\ kind = "L_verdict" => SettlementAuthorized(spending, index)
        /\ kind = "seal" => SealAllows(spending, index)

IsAccepted(tx) ==
    LET spending == Spending(tx)
    IN  /\ IsTransaction(tx)
        /\ tx.inputs # <<>>
        /\ \A i \in DOMAIN tx.inputs : tx.inputs[i].outpoint \in DOMAIN coins
        /\ \A i, j \in DOMAIN tx.inputs : tx.inputs[i].outpoint = tx.inputs[j].outpoint => i = j
        /\ SumSats([i \in DOMAIN tx.inputs |-> spending.inputs[i].coin.value])
               >= SumSats(Values(tx.outputs))
        /\ TokensConserved(spending)
        /\ \A i \in DOMAIN tx.inputs : ScriptAllows(spending, i)

CovenantInit == coins = Genesis /\ confirmed = <<>> /\ signatures = {}

\* The spend of one seal, possibly for less than the whole of it.
IsExitDraft(tx) ==
    /\ IsTransaction(tx) /\ Len(tx.inputs) = 1
    /\ \A j \in DOMAIN tx.outputs : tx.outputs[j].token = None
    /\ LET outpoint == tx.inputs[1].outpoint
       IN  /\ outpoint \in DOMAIN coins /\ coins[outpoint].locking.kind = "seal"
           /\ SumSats(Values(tx.outputs)) <= coins[outpoint].value
\* An owner signs a spend, of whichever seal and with whichever key it takes for its own.
SignExit(draft) ==
    /\ Cardinality(signatures) < MaxSignatures
    /\ IsExitDraft(draft.tx)
    /\ LET locking == coins[draft.tx.inputs[1].outpoint].locking
       IN  signatures' = signatures \cup
               {[key |-> draft.key, scheme |-> draft.scheme, hashType |-> draft.hashType,
                 digest |-> SignedDigest(draft.tx, 1, locking, draft.hashType), draft |-> draft.tx]}
    /\ UNCHANGED <<coins, confirmed>>

Confirm(tx) ==
    /\ Len(confirmed) < MaxConfirmed
    /\ IsAccepted(tx)
    /\ LET id == Len(confirmed) + 1
           spent == {tx.inputs[i].outpoint : i \in DOMAIN tx.inputs}
           created == {<<id, j>> : j \in DOMAIN tx.outputs}
       IN  coins' = [o \in (DOMAIN coins \ spent) \cup created |->
                        IF o \in created THEN tx.outputs[o[2]] ELSE coins[o]]
    /\ confirmed' = Append(confirmed, Spending(tx))
    /\ UNCHANGED signatures

CovenantNext ==
    \/ \E draft \in ExitDrafts(coins) : SignExit(draft)
    \/ \E tx \in Offered(coins, signatures) : Confirm(tx)

CovenantSpec == CovenantInit /\ [][CovenantNext]_covenantVars

(***************************************************************************)
(* Properties.                                                             *)
(***************************************************************************)

\* The spending is the transaction the statement projects, down to the value of the
\* designated input, which nothing commits to but the fee, and that only for an input
\* the covenant has a slot for.
IsSettlementOf(spending, statement) ==
    /\ Len(spending.inputs) = Len(statement.inputs)
    /\ Len(spending.outputs) = Len(statement.outputs)
    /\ spending.version = statement.version /\ spending.locktime = statement.locktime
    /\ \A i \in DOMAIN statement.inputs :
          /\ \/ spending.inputs[i].coin.value = statement.inputs[i].value
             \/ i = statement.designated + 1 /\ i > InputSlots
          /\ \/ i = statement.designated + 1
             \/ /\ spending.inputs[i].outpoint = statement.inputs[i].outpoint
                /\ spending.inputs[i].sequence = statement.inputs[i].sequence
    /\ \A j \in DOMAIN statement.outputs :
          /\ spending.outputs[j].value = statement.outputs[j].value
          /\ spending.outputs[j].token = None
          /\ spending.outputs[j].locking =
                 Materialized(statement.outputs[j], StatementCommitment(statement))

\* The owner of the seal's key signed this spend: the same coins to the same outputs.
IsSignedExit(spending, index) ==
    \E signature \in signatures :
        /\ ExitKeyHash(signature.key) = spending.inputs[index].coin.locking.exitKeyHash
        /\ signature.draft.outputs = spending.outputs
        /\ signature.draft.locktime = spending.locktime
        /\ [i \in DOMAIN signature.draft.inputs |-> signature.draft.inputs[i].outpoint] =
               [i \in DOMAIN spending.inputs |-> spending.inputs[i].outpoint]

\* Whoever offers transactions, whatever tokens they make and whichever index a seal is
\* shown: a seal is spent by its aggregate branch only in the transaction that a proven
\* statement projects, and by its exit branch only in one that its owner signed whole.
SealsAreSpentAsAuthorized ==
    \A n \in DOMAIN confirmed : \A i \in DOMAIN confirmed[n].inputs :
        LET spent == confirmed[n].inputs[i]
        IN  spent.coin.locking.kind = "seal" =>
                IF spent.unlocking.selector = AggregateSelector
                THEN \E statement \in Proven : IsSettlementOf(confirmed[n], statement)
                ELSE IsSignedExit(confirmed[n], i)

\* A verdict that a run has left for a statement, worth what the statement says.
IsVerdictOf(coin, statement) ==
    /\ coin.locking = VerdictLocking
    /\ TokenCategory(coin.token) = <<VerifierCategory>>
    /\ coin.token.commitment = ProjectionCommitment(statement)
    /\ coin.value = statement.inputs[statement.designated + 1].value

\* As long as a proven statement's coins are unspent and its run has ended, its
\* settlement is accepted, at any designated index and for any locktime and sequence
\* number, if the covenant has slots for its inputs and outputs: what the serializer
\* writes is what the covenant rebuilds.
SettlementIsAccepted ==
    \A statement \in Proven, verdict \in DOMAIN coins :
        /\ IsVerdictOf(coins[verdict], statement)
        /\ Len(statement.inputs) <= InputSlots /\ Len(statement.outputs) <= OutputSlots
        /\ \A i \in DOMAIN statement.inputs \ {statement.designated + 1} :
              /\ statement.inputs[i].outpoint \in DOMAIN coins
              /\ coins[statement.inputs[i].outpoint].value = statement.inputs[i].value
              /\ coins[statement.inputs[i].outpoint].locking.kind \in {"seal", "plain"}
        => IsAccepted(Settlement(statement, verdict))

\* The floor: while a seal is unspent its owner needs nobody.  A signature that the
\* builder takes, of the key the seal commits to, is enough to spend it.
ExitIsOpen ==
    \A signature \in signatures :
        LET outpoint == signature.draft.inputs[1].outpoint
        IN  /\ outpoint \in DOMAIN coins
            /\ ExitKeyHash(signature.key) = coins[outpoint].locking.exitKeyHash
            /\ ExitUnlocking(signature) # None
            => IsAccepted(Unlocked(signature.draft, ExitUnlocking(signature)))

\* What the builders make for an authorized spender passes the scripts, whatever
\* others have confirmed before.  A settlement whose transcript passes the VM's limit of
\* 10,000 bytes, as oversized, non-standard lockings could make it, is not told apart
\* here (see Transcript).
AuthorizedSpendsAreAccepted == SettlementIsAccepted /\ ExitIsOpen
=============================================================================
