# Formal model of the proofnote chain clients, protocol runtime and transition relation

This directory holds TLA+ modules that model the stateful core of the
repository, the TLC configurations that check them, and machine-checked proofs
of their main invariants. `PROJECT.json` lists the runs, the code line each
definition models, the hazards and the theorems.

## 1. The system

The repository is the reference implementation of a private-note token protocol
on Bitcoin Cash. What it does is (a) talk to a chain, (b) turn what the chain
says into evidence, (c) check statements about private notes against that
evidence and against proofs.

| Component | Where | State | Operations | What makes it correct |
|---|---|---|---|---|
| Fulcrum transport | `packages/chain-io/src/index.ts` 1420-1729, 2102-2125 | one pooled socket per endpoint, its `pending` map, ready promise, ref/timer flags; per request a settled flag and a promise chain | request, dial, answer, garbled answer, error/close, connect/request timeout, idle close, one redial, next endpoint | every request settles once, with its own answer; no socket leaks; a submission is not replayed; the process neither exits nor hangs on a socket |
| Provider lookups and evidence | `index.ts` 560-1417, 1780-2100, 2127-2654 | none between calls except two `WeakSet` provenance marks; inside a call, answers of several requests, each possibly from another endpoint | list unspent, history, transaction, output, spend scan, submit; seal open/consumed evidence; transparent funding; transaction location | evidence composed from several answers must not claim what no single chain view supports |
| Wallet consensus node | `wallet_consensus_node_v0.ts` | configured nodes and authenticated tip handles (module-private `WeakMap`s) | configure, read tip, authenticate inclusion, historical output, current output, backing set | a certificate is true at the tip it names although it was gathered by several RPCs |
| UTXO seals and candidates | `protocol-runtime/src/apnt_utxo_seal.ts`, `seal_bound_private_note_candidate.ts` | values; what a builder has copied while it awaits a digest | open a seal, bind a candidate, close the seal, join a boundary record | a boundary record is about one output, on one network, that was spent |
| Claimed models | `apnt_lifecycle_acceptance_policy_v0.ts`, `apnt_transition_validity_model_v0.ts`, `apnt_value_conservation_model_v0.ts`, `apnt_aggregation_validity_model_v0.ts` | values, as above | build a claim, normalise a stored one, evaluate, hash | the claimed verdict equals the recomputed one, sums conserve, no nullifier twice |
| Note tree, lane roots, state | `note_tree.ts`, `apnt_lane_roots.ts`, `state.ts`, `notes.ts` | append-only leaves; the level of a root in progress | append, root, lane root, master root, summary | a root stands for leaves or a tuple its caller showed |
| Transition output | `apnt_aggregation_transition_output_v0.ts` | values only | draft, carrier accounting, projection slot, bytecode, parse | the published output is the one committed to before its last field was known |
| Import statements | `apnt_import_*.ts`, `import_claim.ts` | values, as above | normalise, serialise, parse | an answer is one import; bytes and record determine each other |
| Transition statements and projections | `apnt_transition_statement_v*.ts`, `apnt_*projection*.ts`, `apnt_creation_scope_v*.ts` | values only | build, validate, project onto a transaction | a statement determines the transaction that settles it |
| Relations in Rust | `tools/*-rust-parity/src` | values only | staged evaluation, first failing stage | same verdict as the TypeScript statement |
| Covenants | `protocol-runtime/src/cashassembly`, `apnt_verifier_factory_v0.ts`, `apnt_settlement_authorization_covenant_v0.ts`, `apnt_created_note_seal*_v0.ts`, `apnt_transition_settlement_projection_v0.ts` | the unspent outputs of the chain | spend factory, verdict, seal; build their unlockings | a seal is spent only by the settlement that was proved or by its owner, and both of these can spend it |
| SP1 guests, reference aggregator, examples | `tools/*sp1*`, `packages/reference-aggregator`, `examples` | none | one-shot | recomputation agrees with fixtures |
| Browser verifier | `browser-verifier` | page mode, one verification in flight | choose mode, verify | a late result is not shown for a newer input |

Interactions: lookups and evidence builders call the transport for every
question (and may be answered by a different endpoint each time); the wallet
node client uses HTTP JSON-RPC; protocol-runtime consumes their evidence as plain
values. Its builders call each other with plain values too, but most of them await
a Web Crypto digest, and nothing stops their caller from changing the arguments
meanwhile.

The hard behaviours: pipelining on a shared socket whose failures, answers and
timers race with promise continuations; retries and failover of requests that
may have been acted on; evidence gathered by several calls while the chain
reorganises; a `null` that means two things; records copied before one `await`
and read after the next; records of several imports that only digests tell
apart. They are listed, line by line,
under `hazards` in `PROJECT.json`.

## 2. Plan

Order of work, most important behaviour first.

1. `FulcrumTransport` with the abstract `FulcrumCall` (done, proved, the refinement
   included).
2. `BlockTree` (external chain) and `WalletConsensusNode` (done, proved).
3. `ProviderLookups`, on `BlockTree`: lookups, funding, spend scan and location
   evidence composed of answers from endpoints with different views (done,
   proved).
4. `SealEvidence` and `SealLifecycle`, on the evidence of 2 and 3 (done, proved);
   `ValidityModels` and `ModelJudgement`, `LaneRoots`, `TransitionOutput`,
   `ImportProjections` and `ImportStatements`, `Covenants`, composed in
   `MCProtocolRuntime` (done, proved).
5. `TransitionStatement`, the staged `TransitionRelation` and the batch around
   it (done; what each stage establishes for the ones after it is proved, and that
   all of them accept what an honest plan yields, and nothing else for its statement).
6. Open: the transition statements V0 and V1 with their creation scopes and
   transaction projection, after the pattern of `ImportStatements`; the import
   relations in Rust.
   No proof of a safety property is open except that of `AcceptedBatchIsHonest`, which is
   true within the fault bounds only; `HonestStatementFixesMaterial` is what holds without.

Modules that are proved about use recursive functions or the folds of the
community modules, never RECURSIVE operators.

## 3. Modules

### FulcrumTransport (and FulcrumCall)

One *call* is one `requestFromAnyEndpointV0` promise; `call[c].phase` says at
which `await` its chain stands: `awaiting` (the ready promise), `sent` (in a
`pending` map), `failed` (the attempt rejected and the retry wrapper has not
resumed), `thrown` (the wrapper rethrew and the endpoint loop has not resumed),
then `returned` or `threw`. `conn` holds the fields of each
`FulcrumConnectionV0`, `pool` is the `connections` map, `wire` remembers what a
live socket has carried, so that a peer can answer late, twice or out of order.

The host is Node's event loop. Socket data, connect events and timers are
macrotasks and only run when no continuation is queued (`Quiescent`); `error`
and `close` events are emitted from `nextTick`, which runs before queued promise
continuations, so `SocketFails` carries no such guard. Each action is one
handler or one continuation up to its next `await`; effects of `teardown`,
`release` and `noteFulcrumConnectionActivityV0` belong to the handler that calls
them. Socket identities are recycled when no chain refers to them, which bounds
the state without bounding behaviour. Texts, JSON encoding and the request id's
form are left out: an id is the counter it contains.

`FulcrumCall` is what one caller is promised: settle once, endpoints in order,
at most two writes of a query and one of a submission per endpoint, a result
only after a write.

### BlockTree and WalletConsensusNode

`BlockTree` says what the clients assume of a validating node (external to the
repository): blocks with heights and accumulated work, the branch of each, the
transactions they mine, and from these the confirmed UTXO set at a block.
`WalletConsensusNode` makes each RPC of each operation an action, so a
reorganisation (`SelectTip`, only to more work) can fall between any two.
A tip handle is the pair that `authenticatedTipsV0` records. Every error path
of `rpcCall` and of the format checks is `RpcFails` or `Abort`. The configured
node is trusted to answer each single RPC from one consistent state, as the code
does. `getrawtransaction` may name a block the node has disconnected.
Operations keep `before`, a history variable of what was done when they began.

### ProviderLookups

A lookup of the provider (`index.ts` 2127-2432), and each evidence builder over
lookups (1134-1417, 1780-2100, 2535-2654), is a chain of requests. `op[o].stage`
is the request that is outstanding, `slot` the endpoint of the list it is put
to; one action is one answer or failure together with all the code that runs on
it up to the next request. `EndpointFails` is an iteration of the endpoint loop
(2117-2123): on to the next endpoint, or the error path of the lookup and of its
caller (`Raised`). The error joins the messages of all endpoints (2121-2124) and
`isTransactionNotFoundErrorV0` looks for its phrase anywhere in them (637-641),
so `missing` remembers that one endpoint did not have the transaction; that is
enough for a not-found answer although the others timed out. It claims nothing
of a chain, so no property is about it. A null answer for the raw bytes is one
at once (`NoBytes`, 2212). `Unparsable` is an answer the parsers refuse; it ends
the request at once, since the parsers run outside the loop. Transport-level
detail (redials, sockets) is `FulcrumTransport`'s; a lost answer is an endpoint
failure.

The constants sort the operations: `Scans` (`lookupOutpointSpendEvidence` and
the consumed-outpoint wrapper), `OutputReads` (output and seal-open evidence),
`Fundings` (transparent funding: raw transaction, output, spend scan, closing
list-unspent), `Locations`, `Submissions`. The value, program, token and network
comparisons of a candidate are one nondeterministic `Mismatch`, possible
wherever the code compares. A script may be shared by several outputs, so a
history holds transactions that do not spend the outpoint.

Indexers are external: each endpoint answers from its own `view`, a tip and a
mempool without double spends or orphans, which moves to more work, relays and
evicts between any two requests (`EndpointMoves`). Different endpoints may be on
competing branches and hold conflicting spends. A disconnected transaction may
still be reported with its former block and no depth (`Placements`).
`answered` is a history variable. The provider call that hands one request
straight through (`lookupTransparentUtxosByLockingBytecodeEvidence`) is left out.

### TransitionStatement, TransitionRelation and TransitionBatch

`TransitionStatement` says which statements V2 the TypeScript codec writes
(`CodecWrites`) and which ones the Rust relation reads (`StatementParses`: the
parser, the profile floors, the derived nonce and scope, `validate_statement`).
`TransitionRelation` is the evaluation of a proving input: ten stages, each a
sequence of checks in the order of the code. `FirstFailure(checks, later)` is the
early return: the verdict is the first check that fails, or else that of the
later stages, which are not evaluated before. `Reached` translates the table of
booleans of a rejected result (`progression_booleans`), where the failing stage
alone says what has been checked.

A hash is an injection that keeps its domain (`Hash(domain, content)`), a
signature names its key and message, a packet its plaintext, descriptor and
seed: what the model can find wrong is what is hashed, compared and left out,
not the primitives. Byte order survives in one place, `LittleEndian`, because
the reader compares the bytes of cell indexes. Commitments are unordered, so
"strictly ascending" over them is "distinct". Left out: version bytes, lengths,
magic, the constant relation commitment, token data (refused when read), and the
role checks of witnesses whose role the parser has fixed.

`TransitionBatch` is the external world: a host plans two consumed notes, their
cells, two created notes, cells and fees. `HonestBatch` builds from a plan what
an honest host, owners and senders supply. Then the host may change the plan
(a revalued note or cell, a reused key or descriptor, other fees, a cell more
or less) or misstate a field of the statement before anything commits to it,
and a contribution may be lost, repeated, or have a field left over from its
neighbour or from another batch (`Graft`). `Evaluate` is the one step of the
repository's code. An edit is recorded, and the `input` derived from the record,
so that the state stays small.

A list of checks is built from named ones, one operator for the checks of one item
(`OpeningItemChecks`, `ConsumedCellItemChecks`, `RecoveryItemChecks`, ...), in the
order of the loop that makes them. That the reader only ever hands arrays to the
relation is a conjunct of what parses (`CollectionsAreLists`, and `IsList` in
`InputParses` and `BundleParses`): a model of JSON would have them anyway.

### Lists and ListLemmas

Arrays as the code uses them: `TotalOf`, the sum that every loop over values
accumulates, `Kept`, what a filter leaves of an array, and `SortedBy`, a stable
sort. They are defined so that TLC evaluates them on long arrays and the provers
can reason about them: the total is a function defined by halving its interval (a
loop's running total, `RunningTotals`, has the same last value, which is the lemma
`TotalIsLast`), a filter is given the places it keeps, a sort the keys of the
items. `ListLemmas` is what the proofs share about them (section 5).

### Digests

The one thing the modules of protocol-runtime share: a domain-separated hash is
the record of its domain and content, so equal digests have equal preimages and
two domains never meet. What a check can miss is then exactly what it does not
hash or compare.

### SealEvidence and SealLifecycle

`SealEvidence` has the records of `apnt_utxo_seal.ts` and
`seal_bound_private_note_candidate.ts`, their digests and the conditions under
which a builder answers: `OpensSeal`, `MatchesOpenSeal`, `ClosesSeal`,
`JoinsBoundary`. `SealLifecycle` is a wallet that follows several imports and
keeps the last record of each kind, so that any mixture of records of different
imports, outputs and networks can be handed to the next builder. A builder that
awaits is two actions (`BeginOpen`/`FinishOpen`, `BeginBinding`/`FinishBinding`)
with what it copied in between; `EditDraft` is its caller, writing part of
another candidate over the one it passed. Chain and lookups are external: a
lookup may expect the wrong output or be wrong about what is unspent, but only
reports a spend that some chain has shown, and the output that really is at an
outpoint.

### ValidityModels and ModelJudgement

`ValidityModels` has the four claimed models: the verdict the builder reaches,
the one the evaluator reaches, what the normaliser demands of a stored model and
what the hash covers. `ModelJudgement` runs one question: build (await by await,
the arguments edited in between), store, perhaps alter, evaluate. The eight
groups of gates of the lifecycle policy are sets; a question is the set of the
gates that are true. Batches and the openings in them are arrays (`IsAggregationModel`),
as the normaliser demands.

### LaneRoots

`AppendNote`, then `BeginRoot` and one `DigestParent` per `await` of
`noteTreeRootV0`, while leaves are appended and overwritten; lane root, master
root and summary, with a lane root replaced in the arguments between the
digest of its tuple and the comparison. `ReferenceRoot` is the reference
definition of the tree's root: the table of all nodes of the padded tree (`TreeLevels`).
`CapacityForDepth` is a recursive function.

### TransitionOutput

The output's bytecode is a sequence of units (the length byte of a push, its
data, an opcode), each with its bytes, so the offset the code computes
(`SlotOffset`) is checked against the offset found by counting (`OffsetOf`).
The order is the code's: a zero slot first, the template committed to, then the
transcript bind filled in. `Shown` is what a recipient may find: the bytecode,
the template, and every one-unit damage.

### ImportProjections and ImportStatements

`ImportProjections` has the transaction projection, the creation scopes, the
settlement and the current projection: what each normaliser demands, its bytes,
its parser. `ImportStatements` has the statements V0 and V1 and the claim plans
and the steps of a normaliser: `BeginStatement0` copies, `ScopesHashed0` reads
the accounting after the scopes' digests, `FinishStatement0` compares, and
`Overwrite` is a field of another draft written over the caller's record in
between. Bytes are tokens; a transaction id is reversed where the code writes it
in wire order and left alone where it does not. Of the checks that a value has the
type its declaration says, the modules have the ones that the bytes rest on: the fields
`assertRecord` and `assertKnownKeys` ask for (`HasFields`, `NamesFields`), that an
array is one, that an outpoint's transaction id is a byte string (`IsOutpoint`). Of a draft
nothing is assumed but its kind (`DraftAssumption`).

### Covenants (and MCCovenants)

The chain is the set of unspent coins; a transaction is whatever somebody offers
(`Offered`), and `Confirm` is the one step that spends and creates. Each script is
an operator over a *spending*, a transaction whose inputs show the coins they
spend, as the introspection opcodes do: `FactoryAllows`, `SettlementAuthorized`,
`AggregateAllows`, `ExitAllows`. `SerializedProjection` is the TypeScript serializer,
`Transcript` what the covenant rebuilds from the transaction; nothing makes them
equal but their definitions. Script numbers keep their sign bit (`NarrowWord`,
`WideWord`), with `Word` for 2^32. The verifier's stages (`StagesAllow`: a run ends
with the projection of a statement that has a proof), the token rules of the
chain and signatures are external; a signature may cover less than the whole
transaction (`SignExit`), and none exists that was not made: an owner signs what
`ExitDrafts` offers it, and the check of a signature finds it among those made.
What is on the wire decodes to coins, tokens and transactions of the right shape or
to nothing (`IsCoin`, `IsToken`, `IsTransaction`). What a transcript's bytes concatenate is a record: records
of an input have one length and both counts are in front of them. Left out: the
limit of 10,000 bytes on a stack item, which the transcript of a settlement with
oversized, non-standard lockings could pass (`apnt_settlement_authorization_covenant_v0.casm`
69-74), script sizes, fungible amounts.

## 4. Runs

| Run | Shows | Bounds |
|---|---|---|
| `transport_pipelining` | `TypeOK`, `PoolIsLive`, `PendingIsOwed`, `HostHeldOpen`, `AnswerIsOwn`, `OneQuestionPerSocket` | 3 calls (one submission), 1 endpoint, 3 sockets: enough for a request to share a dial, be redialled, and meet another caller on the new socket while the old one is still referenced |
| `transport_failover` | the inductive invariant `IndInv`, refinement `ImplementsPromise`, `EveryCallSettles` | a query and a submission, 2 endpoints, 2 sockets; no symmetry, since it checks liveness |
| `transport_replay` | violation: `SubmissionNeverReplayed` | 1 submission, 2 endpoints |
| `node_reads` | `TypeOK`, `CertificateIsSnapshot`, `InclusionHoldsAtUnmovedTip`, `ReadAfterInclusionConfirmsIt` | a fork of equal height and more work and a return to the first branch; 2 nodes, one of another network, on different branches; a tip read, an inclusion, a current and a backing read, of which `MaxOps` = 3 begin in one behaviour |
| `node_ancestor` | violation: `InclusionIsAncestor` | 1 node |
| `node_spent` | violation: `SpentHasExisted` | 1 node |
| `lookups` | `TypeOK`, `UnspentAtVerdict`, `SpentNamesSpender`, `ScanIsUnambiguous`, `FundingStatusIsCurrent`, `LocationIsPlaced` | 2 endpoints; 3 blocks, where the branch with more work loses the spend the other one mined; two conflicting spends of the outpoint and one of another output under the same script; a scan, a funding or a location (`MaxOps` = 1: lookups share no state) |
| `lookups_liveness` | `EveryLookupEnds` | a funding, a read of an output that does not exist and the submission that spends the candidate, two of them in one behaviour, 2 endpoints |
| `lookups_refusal` | violation: `SpentRefusalIsTrue` | 1 endpoint, 1 funding |
| `transition_batch` | `HonestBatchIsAccepted`, `AcceptedBatchIsHonest`, `HonestStatementFixesMaterial`, `ReachedAuthorityIsBacked`, `ReachedNullifierIsAuthorized`, `PublicSumsSuffice`, `RecipientsCanRecover` | profiles at the floors that `parse_privacy_profile_v2` sets, one without and one with a service fee; every field of the first and last item of each collection, alone or together with one change of the host's; 2 notes a side, 6 or 8 cells consumed and 5 created |
| `transition_order` | violation: `CodecStatementIsRead` | one honest batch whose last cell is input 256 |
| `protocol_runtime` | `BoundaryIsOneSeal`, `BoundaryWasSpent`, `BoundaryIsTheImport`, `BindingIsOneCandidate`, `EvaluationConfirmsTheBuilder`, `AcceptedBatchIsSound`, `FailureNamesAFailedGroup`, `RootsAreBacked`, `PublishedOutputIsSound`, `AnswerIsOneImport`, `BytesAreTheAnswer`, `SealsAreSpentAsAuthorized`, `AuthorizedSpendsAreAccepted` | three outputs, two of them with one outpoint on two networks, two imports, two notes, one edit of a candidate; policies that are at most two gates off, batches that share a nullifier, mint or are empty, one edit; a tree of depth 2, one overwritten leaf; payloads and values on both sides of every bound of the carrier accounting; statements whose scopes, projection and order disagree, one overwrite; two seals, two proven settlements that compete for one of them and an unproven one, each also with one thing changed, one signature, four transactions (`MaxConfirmed`: factory, run, settlement, exit) |

Bounds that the code does not have: the sets of calls, sockets, operations,
blocks and transactions, and `MaxOps`, the number of operations begun in one
behaviour (`MayBegin`), which the proofs leave arbitrary. Indexers and nodes are
only moved while an operation may still notice. With 2 calls at most two sockets
are in use and a third could only be a closed one whose caller has not resumed;
`transport_pipelining` covers that case.
`MaxMoney` and the cell value are scaled down together; `MaxHostFaults` and `MaxLapses` bound
what goes wrong in one batch. Two faults of different parties are enough for
one to hide the other; each collection is edited at its ends, the items between
being treated alike by the loops of the code.

The run `protocol_runtime` is a sum, not a product: its components share no
memory, so a behaviour is one of them, chosen by `subject`, and the others keep
their initial state. One edit or overwrite per behaviour (`MaxEdits`,
`MaxModelEdits`, `MaxLeafEdits`, `MaxOverwrites`) can fall at every await; a
second one only matters if it undoes the first. Depth 2 is the least at which the note
tree has an inner level. `MoneyCap` and `ListCap` scale down the money supply and
the list caps of the statements, `InputSlots` and `OutputSlots` the covenant's 64 and
32, `Word` its 32-bit fields. A component ends when its record does, so
deadlock is not checked.

The five violations are disagreements between a text of the repository and what
the code does:

* `index.ts:1724` says a submission is never replayed; the redial obeys it, the
  endpoint loop around it (2117-2123) does not.
* `wallet_consensus_node_v0.ts:669` speaks of an ancestor of the selected tip;
  what is checked is a height and the chain of a later moment (666-681).
  `InclusionHoldsAtUnmovedTip` and `ReadAfterInclusionConfirmsIt` are what does
  hold: an inclusion followed by an output-state read on the same handle is
  final.
* `wallet_consensus_node_v0.ts:94` warns that a null `gettxout` does not
  distinguish spent from never existed; the backing-set read reports `spent` for
  it (853).
* `index.ts:2009` says of a refused funding candidate that it is not currently
  unspent; the branch is taken for every status but `unspent` and `ambiguous`,
  so for a scan that gave up (`unavailable`) too.
* The TypeScript codec sorts statement cells by number, the Rust reader requires
  their little-endian bytes to ascend (`lib.rs:1131`); the two agree up to index
  255 and both admit thousands of inputs. `lib.rs:1` calls the reader parity
  over canonical Statement V2 bytes.

Fairness (`FairSpec`): promise continuations run (Node drains the microtask
queue), request timers and connect timers fire. Timers are unref'd, so they only
fire while something keeps the process alive; `HostHeldOpen` is the invariant
that justifies it: whenever the loop would block, a socket with a waiting caller
is ref'd. Nothing is assumed of the peer. `EveryLookupEnds` assumes of each lookup that its
outstanding request settles, one way or the other, which is what
`EveryCallSettles` shows of the transport; it assumes nothing of what the
indexers answer. The history that a scan follows is one answer and so finite.
Deadlock is checked in the runs of
the chain clients, where the states with nothing left to do are the explicit
`Finished` steps; the evaluation of a batch really ends, and the two
`transition` runs and `protocol_runtime` switch it off.

## 5. Proofs

Eight modules hold the proofs, each for every value of the constants.

| Module | Proves |
|---|---|
| `FulcrumTransportProofs` | `TypeOK`, `IndInv`, the five safety invariants of the transport, and that it implements `FulcrumCall` |
| `WalletConsensusNodeProofs` | `TypeOK`, `IndInv` and the three invariants of `node_reads` |
| `ProviderLookupsProofs` | `TypeOK`, `IndInv` and the five invariants of `lookups` |
| `ListLemmas` | what the next four share about totals, filters, joined and sorted arrays |
| `ProtocolRuntimeProofs` | the four seal invariants of `protocol_runtime`, the three about claimed models, `RootsAreBacked`, `PublishedOutputIsSound`, `AnswerIsOneImport`, `BytesAreTheAnswer` |
| `CovenantsProofs` | `SealsAreSpentAsAuthorized`, `AuthorizedSpendsAreAccepted` |
| `TransitionBatchProofs` | `TypeOK`, `PublicSumsSuffice`, `ReachedAuthorityIsBacked`, `ReachedNullifierIsAuthorized`, `RecipientsCanRecover`; that a statement fixes its material |
| `HonestBatchProofs` | `HonestBatchIsAccepted`, `HonestStatementFixesMaterial` |

The theorems about `protocol_runtime` are each of a component's own specification
(`LifecycleSpec`, `JudgementSpec`, `LaneSpec`, `OutputSpec`, `ImportSpec`,
`CovenantSpec`), whose actions the composition runs unchanged.

*Transport.* `IndInv` adds to these invariants that a dialling socket has a
waiting caller and no idle timer, that a closed one has settled everything
(`ConnShape`), that a waiting call is linked to a socket (`CallShape`), that
ids are unique on all wires (`IdsUnique`) and that a caller whose question is on
a live wire never asks that endpoint again (`AskedOnce`). The first two are
needed because `AnswerIsOwn` and `PendingIsOwed` are not inductive: an answer is
only its caller's own if no other entry has its id, and a timeout removes the
right entry only if ids are unique. The proofs group the actions by what they
touch: a continuation moves one call (`MoveOn`), a closing socket rejects its
riders (`Closing`), a chunk or timeout settles some entries (`Settling`), an
attempt reuses or dials.

*Refinement.* That a step of the transport is a step of the abstract call is not a
consequence of `IndInv`: the abstract call bounds the writes of a whole call, and
the code bounds them only through the order of its loops. `WritesHold` adds what
that order gives: of each call and endpoint at most one write per attempt of the
redial wrapper, and none for an endpoint that the loop has not come to. Actions
are then sorted by what a caller can see of them (`StepKinds`: nothing,
a write, a settlement), and the step onward of the chain (`Onward`) is proved once
for the failures and once for the retries. The abstract specification states no
fairness, so no liveness is involved.

*Node.* `CertificateIsSnapshot` is not inductive: while the read runs, its
replies are only true *if* the node still has the bound tip. `IndInv` says just
that, and that a node that has left a tip it gave out has more work since
(`LeftForMoreWork`), so that rereading the same tip at the end proves the node
never left it. The assumption is `BlockAssumption`/`TxAssumption` of `BlockTree`
and that a node only moves to more work.

*Lookups.* The verdict invariants are not inductive because a scan carries its
matches and the entries still to read over many requests to different endpoints.
`IndInv` adds `OneSpender`: of the matched and the remaining transactions at
most one spends the outpoint. It is established when the history arrives, from
the consistency of the one view that gave it, and no later answer can break it,
since a transaction's inputs are fixed by its identity. The proofs take one
record at a time (`Sound`), with one lemma per helper of the model
(`RequestKeeps`, `VerdictKeeps`, `ScannedKeeps`, ...) and one case per action.
They assume `BlockAssumption`, `TxAssumption`, a finite set of transactions and
at least one endpoint (`index.ts:2130`).

*Seals.* The four properties speak of the last record only, and a boundary
builder compares too little for them to be inductive. `RecordsHold` says of each
record on the way what it owes to the one it was made from: a preimage is that
of the output its import was made for, a seal's commitment hashes the seal's
own place, a candidate's repeats those of the seal it was matched with, a
closure names a spend that was shown. One lemma per builder
(`OpenedPreimageHolds`, `IdentityHolds`, `MatchedCandidateHolds`,
`BindingEvidenceHolds`, `ClosureEvidenceHolds`, `BoundaryEvidenceHolds`), then one
step per action. Number of imports, outputs, notes and edits is arbitrary; the
assumption is that a place is a network and an outpoint, that outputs have
natural values, and that a digest is injective.

*Lists.* The library's induction theorems take the hypothesis as an operator, which
these provers cannot instantiate. `ListLemmas.Induction` takes it as a set, the numbers
it holds of, and follows from the well-foundedness of strict inclusion on finite
sets (`LeastElement`). From it: that a running total, a total by halves and a joined
list exist and satisfy the equations that define them (`RunningTotalsExist`,
`PartTotalsExist`, `JoinsExist`: a recursive function is a CHOOSE until somebody shows
that there is one); where the items of a joined list come from
(`FlattenedItem`, `PlacesApart`); what is kept of a list and in which order
(`KeptAscend`, `KeptNumbers`); that a sort permutes (`SortedOrder`) and leaves an array
that is in order alone (`SortedAlready`). Two are pigeonholes: `AllMatched` (of two
lists of one length without repeats, if each item of the first is in the second,
each of the second is in the first) and `SharedTotal` (when m things belong to n
owners, each worth c per thing it owns, the owners are worth c * m).

*Claimed models.* `JudgementHolds` says which of built, stored and examined model
exist at each stage and that a claim is what its evaluator will find
(`ClaimIsConfirmed`), which for a batch needs that the output root awaited
first is that of the transitions hashed second. For `AcceptedBatchIsSound`,
`BatchesHold` says that a judgement on a batch is the evaluator's verdict on the very
batch whose hash is kept. The verdict compares the three sums of a batch; that the
differences of its transitions then add up to nothing is `SumsOfDifferences`, and that a
count of distinct nullifiers leaves no two alike, over the joined lists of all
transitions, is `NullifiersAreApart`.

*Lane roots.* `RootsHold` keeps, for the hash that is awaited, the tuple it was called
with; the answer is thrown away unless the lane root read after the await is
the one hashed before, so a replaced argument cannot get in. A digest being
injective, equal lane roots are those of one tuple. For the note tree
`SnapshotHolds` says that the level in progress consists of the roots of the
subtrees of the snapshot taken at the beginning (`WorksAt`: the height is that of the
level, each finished node is the reference root of its part), whatever is appended
or overwritten meanwhile. `TreeDepth` is arbitrary (`LaneAssumption`).

*Transition output.* `FundingHolds` ties the accounting at hand to the bin that the draft
committed to, through all later stages; `DustIsLeastValue`, `CountsMultiply` and
`AccountingPays` are the arithmetic. `OutputHolds` says that the template committed to
is that of the finished output: it does not depend on the transcript bind
(`TemplateIsShared`), because the offset the code computes is where that field's push
really is (`UnitOffsets`, `SlotOfOutput`), for any bytecode. `ParsedBytecode` then shows
that whatever a recipient is shown, an output that the parser reads from it is the one
with exactly that bytecode. The assumption is that funds are natural numbers (`FundingAssumption`);
payloads and carriers are bounded by the code.

*Import statements.* `AnswerIsOneImport` compares the answer with digests and with the
projection, but the normaliser compares them at different times, and two fields
are read from the caller's record after the last await. `ImportHolds` says what the
copy owes at each stage: between the two digests it corresponds to its own
projection (`Corresponds0`), and what is read last (`LastReadFields`) is in none of
these comparisons. That the skeletons hashed are those of the projection's
backing outputs whatever the order in which the caller lists cells is
`SkeletonsOfOutputs`, from `KeptNumbers` and `SortedOrder`. Any drafts, and any overwrite
at any await; the assumption is `DraftAssumption`.

*Bytes.* `BytesAreTheAnswer` is about what a parser finds again. Three arguments meet.
A counted list is where its count says (`HoldsList`, `ListIsRead`), whatever was
written before and after it, and bytes that lost or gained an item at the end are
refused (`DamagedBytes`). A reader gives back what was written of a record *if the
normaliser would change nothing in it* (`ProjectionIsRead`, `SettlementIsRead`,
`CurrentIsRead`, `ScopeIsRead`, `Statement0IsRead`, `Statement1IsRead`): it normalises
what it read and compares the bytes. So an answer has to be such a record, which is
`IsNormal`: an answer's lists are sorted, sorting them again changes nothing
(`SortedTwice`, which needs keys without repeats), and the checks passed for the unsorted
lists pass for the sorted ones (`NotesOrdered`, `CellsOrdered`, `ScopesOrdered`). For the
statements this has to hold although two fields are taken from the caller's
record at the very end: no check reads these (`ChecksReadFields`, `LastFields0`,
`LastFields1`). `WireHolds` says so of the answer and of the bytes made of it.

*Covenants.* That a seal is spent as authorized is not inductive: it depends on the
verdict coin beside it. `CovenantInv` adds that every token of the verifier's
category is placed (`TokenIsPlaced`): the minting one in the factory, a mutable one
in the stages, an immutable one at `L_verdict` with the projection of a proven
statement; and that a signature is one that somebody made (`SignaturesAnswer`).
`TranscriptIsProjection` is the core: whenever what the covenant rebuilds hashes to a
commitment of the serializer, the transaction is the projected one, input by input.
The converse, that the settlement a builder makes is accepted, needs
`ProjectionIsTranscript` and the arithmetic of script numbers
(`NarrowIsFaithful`, `WideIsFaithful`); that a signed exit is accepted needs
`SignedSpends`: outpoints are never used again, so a seal that a signature names is,
as long as it is unspent, the one that was signed for.
`SizesAssumption` is that slot counts fit a script number (64 and 32 against 2^31),
`GenesisAssumption` that the deployment starts with the minting token in its
factory, `ProvenAssumption` what the relation and Statement V2 leave of statements with a
proof: distinct inputs, natural values, the fee their difference, a projection
that serializes.

*Transition relation.* `BatchInv` says that a result, once there is one, is the
relation's verdict on the input that arrived (`Faithful`), and that faults are within their
bounds; everything else is a theorem about the relation, true of every input. A
verdict is the first check that fails, and a stage is a list of checks,
often a joined list with one part per item. `ChecksOf` says of a list from which stages
its failures may come, one lemma per list (`OpeningStage`, `LogicalStage`,
`CellStage`, `BundleStage`, `ConservationStage`, ...) says what its passing means, and
`EvaluationStages` puts them in order: a verdict of a later stage means that
every check of the earlier ones holds. From it
`ResultReached` reads what a boolean of the result vouches for. The two hardest steps are
sums. `SideIsBacked` shows that the notes of a side are worth its cells: every bundle
has as many members as cells are assigned to its note, each cell to one note
(`AllMatched`), so the notes share out the cells (`SharedTotal`). `StatementMoney` does the
same for the statement's public outputs by role (`PublicMoney`). Together they give
`PublicSumsSuffice`: the private conservation stages cannot be the first to fail.
`TypeOK` of the batch is proved (`BatchTypeOK`) and left out of the run, where
`ReachedAuthorityIsBacked` catches what it could.
`RecipientsCanRecover` meets all stages: the carriers hold the packets that the evidence
rebuilds (`CarriersHoldPackets`), one of them for each kem key (`PacketOfDescriptor`), the
one at a note's place in the statement (`EvidenceNote`); what a packet leaves out is public,
because the cells that open a bundle are the public ones (`MembersArePublic`), and the
bundle and the note rebuilt from both are those behind the note's commitment
(`NoteIsInPacket`). It is stated for the descriptors that senders used; that these
are the ones the host planned is a part of `AcceptedBatchIsHonest`. The
assumptions are `BatchAssumption`, that profiles are ones `parse_privacy_profile_v2`
admits and the bounds are natural numbers, and `MaxMoneyAssumption`.

*Completeness.* `HonestBatchIsAccepted` runs the other way: a check that fails where it
should not is what it rules out, so that every check has to be evaluated on what a
host builds. `HonestPlan` is what `PlanHonest` comes to for two notes a side and any
number of cells. `InputsByPlace` and `OutputsByPlace` say which input and output is at
each place, `RolesOfInputs` and `RolesOfOutputs` what the filters by role then find;
`MoneyOfPlan` bounds every sum. `StatementOfPlan` is the boundary, and one lemma per
stage follows (`LogicalOfPlan`, `CellsOfPlan`, `ExitsOfPlan`, `BundlesOfPlan`,
`ConservationOfPlan`, `AuthorityOfPlan`, `NullifiersOfPlan`, `RecoveryOfPlan`), which
`AcceptedPlan` chains from the last to the first. The invariant it needs besides
`BatchInv` is `PlanShape`, which says that the host's changes keep two notes with numeric
values on each side and give every cell to one of them (`PlansKeepTheirShape`). The proof
asks for three things that the property states: the cells that come in are no
more money than there is, the plan has the notes its profile asks for (a profile
may ask for more than two, and then no plan of this host is honest), and indexes
below 256.

*Soundness.* `HonestStatementFixesMaterial` says that once the honest statement is
written the material is nobody's choice, however much of it is lost, repeated, swapped or
left over. It rests on `StatementFixesMaterial`, which is about any two inputs that pass every
check for one statement. Both agree on a collection because each item of one has its equal
in the other (`SoundSaysNoMore`, applied both ways). Notes and their bundles are behind the
commitments of the statement (`NotesAlike`). A created cell has its index; a consumed one
is found by the member of the bundle that it opens, which is where the hypothesis comes in
that the statement names no consumed cell twice (`CellsTellApart`). Exits have no count of
their own: there are as many as exit outputs and each serves one, so none is left over
(`ShorterMatched` of `ListLemmas`). Authorities and nullifiers follow from the owner
commitment of their note, evidence and table from the packet hashes, place by place. The plan of
an honest host gives its cells different slots (`CellsOfPlanTellApart`), so the theorem
applies to it; that its own batch passes every check is the completeness above. Hashes and
signatures are injective here, as everywhere in this project.

Left to TLC: `EveryCallSettles` and `EveryLookupEnds`, which are liveness under
fairness, and `AcceptedBatchIsHonest`. That one also says that the statement is the
plan's, and is true for a few faults only: enough of them, one field at a time, turn a
statement into that of another honest batch, which is rightly accepted.
The violated properties are refuted on their small instances and need no theorem.

## 6. Not modelled

See `components` in `PROJECT.json` for each part and the reason. In short: hashing,
transaction (de)serialisation and script text are conversions whose correctness
is a test's business; cryptography is external; one-shot scripts keep no state.

* The statement normaliser reads packet table commitment and authorized fee
  after its last await
  (`apnt_import_created_note_statement_v0.ts:1028`), so a caller that edits its
  record can get an answer whose table and fee are of another version than its
  notes. No check relates them to anything else, and no property here does.
* Not modelled yet: the transition statements V0 and V1, the codec's own reader
  of V2, transition creation scopes and projections (beyond the abstraction in
  `TransitionStatement`), the import relations in Rust.
* The codec admits projections of 8,192 inputs and outputs
  (`apnt_transaction_projection_v1.ts:9`), the covenant has slots for 64 and 32: a
  statement beyond them can be proved and not settled, so
  `AuthorizedSpendsAreAccepted` is stated for those within. Nor does it tell apart a
  settlement whose transcript is longer than the VM's 10,000 bytes of a stack item
  (`apnt_settlement_authorization_covenant_v0.ts:88-95`): 64 inputs and 32 lockings
  of a hash's length stay far below, oversized ones need not, and the covenant refuses
  them. The other way round, the
  projection leaves the value of the designated input to the fee
  (`apnt_transition_settlement_projection_v0.ts:45-48`), and the covenant adds up the
  values of its 64 slots only (`apnt_settlement_authorization_covenant_v0.ts:198-220`):
  a proven statement whose designated input is the 65th is settled by a verdict coin
  of whatever value, if the statement puts that input at 0. `IsSettlementOf` excepts that
  one value. The CashAssembly compiler
  and the size assertions of the builders are a test's business.
* `import.ts` derives the checkpoint of an import from its funding source, and
  `import_evidence.ts` wraps a checkpoint with its hash, networks and tree:
  records without a step between them, except that the wrapper's normaliser
  reads the checkpoint, network and tree again after it has awaited the hash, so
  a caller that overwrites them meanwhile gets an answer whose hash is of the
  older checkpoint. Nothing in these files consumes that record.
* The browser verifier's one asynchronous operation is guarded by a flag
  (`state.running`), and no control of its page changes the mode while it runs;
  only the window functions exported for tests do.
* Values derived without a decision (nullifiers, asset ids, spend authority,
  descriptors, intents, the privacy report) are digests or records wherever
  another module needs them.
* `rpcCall` clears its abort timer when headers arrive, so a stalled body leaves
  an operation pending: nothing promises otherwise and no termination property
  is stated for it.
