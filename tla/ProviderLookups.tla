-------------------------- MODULE ProviderLookups --------------------------
(***************************************************************************)
(* The evidence lookups of the Fulcrum chain provider of                   *)
(* src/packages/chain-io/src/index.ts, and the evidence builders over      *)
(* them: outpoint spend, transaction output (seal-open), transparent       *)
(* funding, transaction location, raw transaction submission.              *)
(*                                                                         *)
(* A lookup is a sequence of requests.  Each one is put to the configured  *)
(* endpoints in order until one answers, so consecutive answers may come   *)
(* from indexers with different chains and mempools, which also change     *)
(* between any two requests.  One action is one answer (or failure) and    *)
(* the code that runs on it.  How a request travels is FulcrumTransport.   *)
(***************************************************************************)
EXTENDS BlockTree, Sequences, FiniteSets

CONSTANTS LastSlot,     \* number of configured endpoints
          Script,       \* per transaction and output index: the locking bytecode
          Absent,       \* a field the answer does not carry
          Target,       \* per operation: the outpoint it is about
          Scans,        \* lookupOutpointSpendEvidence, consumed-outpoint evidence
          OutputReads,  \* lookupTransactionOutputEvidence, seal-open evidence
          Fundings,     \* ...AuthenticatedTransparentFundingEvidenceV0
          Locations,    \* ...TransactionLocationEvidenceV0
          Submissions,  \* submitRawTransaction
          MaxOps        \* bound: lookups begun in one behaviour

Slot == 1..LastSlot
Op == Scans \cup OutputReads \cup Fundings \cup Locations \cup Submissions

ASSUME SlotAssumption == LastSlot \in Nat \ {0}
ASSUME TargetAssumption == Target \in [Op -> Tx \X Nat] /\ Absent \notin Nat
ASSUME HistoriesAreFinite == IsFiniteSet(Tx)
ASSUME OpKinds ==
    /\ Scans \cap (OutputReads \cup Fundings \cup Locations \cup Submissions) = {}
    /\ OutputReads \cap (Fundings \cup Locations \cup Submissions) = {}
    /\ Fundings \cap (Locations \cup Submissions) = {}
    /\ Locations \cap Submissions = {}

VARIABLES view,  \* per endpoint: the tip and mempool it answers from
          op     \* per operation

vars == <<view, op>>

View == [tip : Block, mempool : SUBSET Tx]

Stage == {"idle", "raw", "output", "source", "history", "scan", "unspent",
          "utxoSource", "utxoList", "broadcast", "done"}

SpendStatus == {"spent-outpoint", "unspent", "not-found", "unavailable", "ambiguous"}

Status == SpendStatus \cup
    {"none", "refused", "verified-output-exists", "submitted",
     "accepted", "transaction-missing", "output-missing", "mismatch", "spent",
     "provider-ambiguous", "provider-unavailable",
     "located-confirmed", "located-unconfirmed", "not-located"}

OpState == [stage : Stage, slot : Slot,
            missing : BOOLEAN,                  \* an endpoint asked for this request
                                                \* said: no such transaction
            found : BOOLEAN,                    \* the raw transaction was returned
            depth : Nat \cup {Absent},          \* confirmations
            block : Block \cup {NoBlock},       \* blockhash
            pending : Seq(Tx),                  \* history entries still to fetch
            spenders : SUBSET Tx,               \* matches of the scan
            status : Status,
            answered : View]                    \* history: the view of the last answer

TypeOK ==
    /\ view \in [Slot -> View]
    /\ op \in [Op -> OpState]

-----------------------------------------------------------------------------
(* The indexers (external) *)

Known(w) == Confirmed(w.tip) \cup w.mempool

IsUnspent(w, x) ==
    /\ x[1] \in Known(w)
    /\ x[2] \in Outputs[x[1]]
    /\ \A t \in Known(w) : x \notin Spends[t]

\* No view holds a double spend or an orphan.
Consistent(w) ==
    /\ w.mempool \cap Confirmed(w.tip) = {}
    /\ \A t \in Known(w) : \A x \in Spends[t] :
          /\ x[1] \in Known(w)
          /\ x[2] \in Outputs[x[1]]
          /\ \A u \in Known(w) \ {t} : x \notin Spends[u]

\* Connecting, reorganising, relaying, evicting.
EndpointMoves(s, w) ==
    /\ w # view[s]
    /\ Consistent(w)
    /\ w.tip = view[s].tip \/ Work[w.tip] > Work[view[s].tip]
    /\ view' = [view EXCEPT ![s] = w]
    /\ UNCHANGED op

Orders(S) == {q \in [1..Cardinality(S) -> S] : \A i, j \in DOMAIN q : q[i] = q[j] => i = j}

\* get_history: the known transactions that pay to or spend from a script.
History(w, script) ==
    {t \in Known(w) :
        \/ \E v \in Outputs[t] : Script[t][v] = script
        \/ \E x \in Spends[t] : Script[x[1]][x[2]] = script}

\* The confirmations and blockhash of a verbose transaction: a mempool one has
\* none or zero; one whose block was disconnected may still name that block.
Placements(w, t) ==
    IF t \in Confirmed(w.tip)
    THEN {[depth |-> Height[w.tip] - Height[b] + 1, block |-> b] :
             b \in {c \in Chain[w.tip] : t \in Mines[c]}}
    ELSE {[depth |-> d, block |-> NoBlock] : d \in {Absent, 0}} \cup
         {[depth |-> 0, block |-> b] :
             b \in {c \in Block : t \in Mines[c] /\ Work[c] < Work[w.tip]}}

-----------------------------------------------------------------------------

Init ==
    /\ view \in [Slot -> View]
    /\ \A s \in Slot : Consistent(view[s])
    /\ op = [o \in Op |-> [stage |-> "idle", slot |-> 1,
                           missing |-> FALSE, found |-> FALSE,
                           depth |-> Absent, block |-> NoBlock, pending |-> << >>,
                           spenders |-> {}, status |-> "none",
                           answered |-> view[1]]]

Set(o, r) == op' = [op EXCEPT ![o] = r] /\ UNCHANGED view

\* The view of the endpoint that is being asked.
Asked(o) == view[op[o].slot]

\* The next request starts again at the first endpoint.
Request(r, stage) == [r EXCEPT !.stage = stage, !.slot = 1, !.missing = FALSE]

Verdict(o, r, status) ==
    [r EXCEPT !.stage = "done", !.status = status, !.missing = FALSE,
              !.pending = << >>, !.answered = Asked(o)]

FirstStage(o) ==
    CASE o \in Scans -> "source"
      [] o \in OutputReads -> "output"
      [] o \in Submissions -> "broadcast"
      [] OTHER -> "raw"

\* A lookup may begin, within the bound of the model.
MayBegin(o) ==
    /\ op[o].stage = "idle"
    /\ Cardinality({p \in Op : op[p].stage # "idle"}) < MaxOps

Begin(o) ==
    /\ MayBegin(o)
    /\ Set(o, Request(op[o], FirstStage(o)))

\* A stale or malformed funding candidate, a submission the policy forbids: no
\* request is made.
Refuse(o) ==
    /\ MayBegin(o)
    /\ o \in Fundings \cup Submissions
    /\ Set(o, [op[o] EXCEPT !.stage = "done", !.status = "refused"])

-----------------------------------------------------------------------------
(* What the spend scan's result means to its caller *)

SpendVerdict(o, r, status) ==
    IF o \notin Fundings THEN Verdict(o, r, status)
    ELSE CASE status = "unspent" -> Request(r, "utxoSource")
           [] status = "ambiguous" -> Verdict(o, r, "provider-ambiguous")
           [] OTHER -> Verdict(o, r, "spent")

\* A mutated form: a named block is taken for an inclusion.
LocationStatusByBlock(r, there) ==
    CASE ~r.found -> "not-located"
      [] r.found /\ (~there \/ r.depth = Absent) -> "unavailable"
      [] OTHER -> IF r.block = NoBlock THEN "located-unconfirmed" ELSE "located-confirmed"

\* No bytes, no output, no depth, or a depth without a block is no location.
LocationStatus(r, there) ==
    CASE ~r.found -> "not-located"
      [] r.found /\ (~there \/ r.depth = Absent) -> "unavailable"
      [] r.found /\ there /\ r.depth = 0 -> "located-unconfirmed"
      [] OTHER -> IF r.block = NoBlock THEN "unavailable" ELSE "located-confirmed"

\* The output evidence has come: found there, or reported missing.
Placement(o, r, there) ==
    CASE o \in Fundings ->
            IF there THEN Request(r, "source") ELSE Verdict(o, r, "output-missing")
      [] o \in OutputReads ->
            Verdict(o, r, IF there THEN "verified-output-exists" ELSE "not-found")
      [] OTHER -> Verdict(o, r, LocationStatus(r, there))

-----------------------------------------------------------------------------
(* Requests that fail at every endpoint *)

\* The transaction that a blockchain.transaction.get asks for.
Wanted(o) ==
    CASE op[o].stage \in {"raw", "output", "source", "utxoSource"} -> {Target[o][1]}
      [] op[o].stage = "scan" -> {Head(op[o].pending)}
      [] OTHER -> {}

\* The rejected request, as the lookup and its caller take it: the error
\* joins the messages of all endpoints, and missing says that one of them was "no
\* such transaction".
Raised(o, missing) ==
    LET r == op[o] IN
    CASE r.stage = "raw" /\ missing /\ o \in Fundings ->
            Verdict(o, r, "transaction-missing")
      [] r.stage = "raw" /\ missing /\ o \notin Fundings -> Request(r, "output")
      [] r.stage = "output" /\ missing -> Placement(o, r, FALSE)
      [] r.stage = "source" /\ missing -> SpendVerdict(o, r, "not-found")
      [] \/ r.stage = "source" /\ ~missing
         \/ r.stage \in {"history", "scan", "unspent"} ->
            SpendVerdict(o, r, "unavailable")
      [] OTHER ->
            Verdict(o, r, IF o \in Fundings THEN "provider-unavailable" ELSE "unavailable")

Asking(o) == op[o].stage \notin {"idle", "done"}

\* A mutated form: the loop never moves on.
NextSlotStuck(o) == op[o].slot

\* The loop of requestFromAnyEndpointV0.
NextSlot(o) == op[o].slot + 1

\* A mutated form: an off-by-one in the loop bound.
HasNextSlotOffByOne(o) == op[o].slot <= LastSlot

HasNextSlot(o) == op[o].slot < LastSlot

\* The endpoint cannot be reached, times out, or answers with an error; that it
\* lacks the transaction is remembered until the last endpoint has failed too, in
\* the stages whose error path asks for it (isTransactionNotFoundErrorV0).
EndpointFails(o, missing) ==
    /\ Asking(o)
    /\ missing => /\ op[o].stage \in {"raw", "output", "source"}
                  /\ \E t \in Wanted(o) : t \notin Known(Asked(o))
    /\ Set(o, IF HasNextSlot(o)
              THEN [op[o] EXCEPT !.slot = NextSlot(o), !.missing = @ \/ missing]
              ELSE Raised(o, op[o].missing \/ missing))

\* A null answer for the raw bytes: not found, whatever the other endpoints have.
NoBytes(o) ==
    /\ op[o].stage = "raw"
    /\ \E t \in Wanted(o) : t \notin Known(Asked(o))
    /\ Set(o, Raised(o, TRUE))

\* An answer the parsers refuse, a history height below zero for instance:
\* the endpoint loop is over, nothing else is asked.
Unparsable(o) ==
    /\ Asking(o)
    /\ Set(o, Raised(o, FALSE))

-----------------------------------------------------------------------------
(* Transaction and output evidence *)

\* The endpoint asked at this stage has the transaction.
Located(o, stage) ==
    /\ op[o].stage = stage
    /\ \A t \in Wanted(o) : t \in Known(Asked(o))

HasOutput(o) == Target[o][2] \in Outputs[Target[o][1]]

\* The bytes derive the txid; a funding candidate's output must be in them.
RawTransaction(o) ==
    /\ Located(o, "raw")
    /\ Set(o, IF o \in Fundings /\ ~HasOutput(o) THEN Verdict(o, op[o], "output-missing")
              ELSE [Request(op[o], "output") EXCEPT !.found = TRUE])

OutputEvidence(o) ==
    /\ Located(o, "output")
    /\ \E p \in Placements(Asked(o), Target[o][1]) :
          Set(o, Placement(o, [op[o] EXCEPT !.depth = p.depth, !.block = p.block],
                           HasOutput(o)))

\* The candidate's or the expected value, program or network is another.
Mismatch(o) ==
    /\ \/ o \in Fundings /\ op[o].stage \in {"raw", "output", "utxoList"}
       \/ o \in OutputReads /\ op[o].stage = "output"
    /\ Set(o, Verdict(o, op[o], IF o \in Fundings THEN "mismatch" ELSE "not-found"))

-----------------------------------------------------------------------------
(* The spend scan *)

SourceOutput(o) ==
    /\ Located(o, "source")
    /\ Set(o, IF HasOutput(o) THEN Request(op[o], "history")
              ELSE SpendVerdict(o, op[o], "not-found"))

TargetScript(o) == Script[Target[o][1]][Target[o][2]]

ScriptHistory(o) ==
    /\ op[o].stage = "history"
    /\ \E q \in Orders(History(Asked(o), TargetScript(o))) :
          Set(o, [Request(op[o], IF q = << >> THEN "unspent" ELSE "scan")
                    EXCEPT !.pending = q])

\* A mutated form: any input that names the transaction counts.
SpendsTargetAnyOutput(o, t) == \E x \in Spends[t] : x[1] = Target[o][1]

\* extractSpendCandidatesFromTransactionV0 finds an input.
SpendsTarget(o, t) == Target[o] \in Spends[t]

\* A mutated form: a history without a spender is enough.
ScannedTrusting(o, r) ==
    CASE Cardinality(r.spenders) = 1 -> SpendVerdict(o, r, "spent-outpoint")
      [] Cardinality(r.spenders) > 1 -> SpendVerdict(o, r, "ambiguous")
      [] OTHER -> SpendVerdict(o, r, "unspent")

\* The whole history has been read.
Scanned(o, r) ==
    CASE Cardinality(r.spenders) = 1 -> SpendVerdict(o, r, "spent-outpoint")
      [] Cardinality(r.spenders) > 1 -> SpendVerdict(o, r, "ambiguous")
      [] OTHER -> Request(r, "unspent")

HistoryTransaction(o) ==
    /\ Located(o, "scan")
    /\ LET t == Head(op[o].pending)
           r == [Request(op[o], "scan") EXCEPT
                    !.pending = Tail(@),
                    !.spenders = IF SpendsTarget(o, t) THEN @ \cup {t} ELSE @]
       IN Set(o, IF r.pending = << >> THEN Scanned(o, r) ELSE r)

\* listunspent, positively: nothing else makes an outpoint unspent.
ScriptUnspent(o) ==
    /\ op[o].stage = "unspent"
    /\ Set(o, SpendVerdict(o, op[o],
                 IF IsUnspent(Asked(o), Target[o]) THEN "unspent" ELSE "unavailable"))

-----------------------------------------------------------------------------
(* The closing look of transparent funding *)

UtxoSource(o) ==
    /\ Located(o, "utxoSource")
    /\ Set(o, Request(op[o], "utxoList"))

\* A mutated form: an unconfirmed entry is never held against the confirmations.
StatusAgreesOneSided(o) ==
    Target[o][1] \in Confirmed(Asked(o).tip) => op[o].depth \notin {Absent, 0}

\* The list-unspent height and the output's confirmations tell the same.
StatusAgrees(o) ==
    Target[o][1] \in Confirmed(Asked(o).tip) <=> op[o].depth \notin {Absent, 0}

UtxoEvidence(o) ==
    /\ op[o].stage = "utxoList"
    /\ Set(o, Verdict(o, op[o],
                 IF IsUnspent(Asked(o), Target[o]) /\ StatusAgrees(o)
                 THEN "accepted" ELSE "provider-ambiguous"))

-----------------------------------------------------------------------------
(* Submission *)

\* blockchain.transaction.broadcast reaches an endpoint that takes the
\* transaction into its mempool; the answer may still be lost.
Broadcast(o, lost) ==
    LET s == op[o].slot
        w == [Asked(o) EXCEPT !.mempool = @ \cup {Target[o][1]}] IN
    /\ op[o].stage = "broadcast"
    /\ Target[o][1] \notin Known(Asked(o))
    /\ Consistent(w)
    /\ view' = [view EXCEPT ![s] = w]
    /\ op' = [op EXCEPT ![o] =
                 CASE ~lost -> [Verdict(o, @, "submitted") EXCEPT !.answered = w]
                   [] lost /\ HasNextSlot(o) -> [@ EXCEPT !.slot = NextSlot(o)]
                   [] OTHER -> Raised(o, FALSE)]

-----------------------------------------------------------------------------

Step(o) ==
    \/ \E missing \in BOOLEAN : EndpointFails(o, missing)
    \/ NoBytes(o) \/ Unparsable(o)
    \/ RawTransaction(o) \/ OutputEvidence(o) \/ Mismatch(o)
    \/ SourceOutput(o) \/ ScriptHistory(o) \/ HistoryTransaction(o) \/ ScriptUnspent(o)
    \/ UtxoSource(o) \/ UtxoEvidence(o)
    \/ \E lost \in BOOLEAN : Broadcast(o, lost)

\* No lookup is outstanding.
Finished == (\A o \in Op : ~Asking(o)) /\ UNCHANGED vars

\* The indexers' moves are explored as long as some lookup may still see them.
Next ==
    \/ /\ \E o \in Op : Asking(o) \/ MayBegin(o)
       /\ \E s \in Slot, w \in View : EndpointMoves(s, w)
    \/ \E o \in Op : Begin(o) \/ Refuse(o) \/ Step(o)
    \/ Finished

Spec == Init /\ [][Next]_vars

\* Every request settles (FulcrumTransport: EveryCallSettles).
FairSpec == Spec /\ \A o \in Op : WF_vars(Step(o))

-----------------------------------------------------------------------------
(* Properties *)

\* A scan that reports an outpoint unspent, or a funding that is accepted after
\* it, was last told so by an indexer that had no spend of it, in its mempool
\* either, whatever happened since the history was read.
UnspentAtVerdict ==
    \A o \in Op : op[o].status \in {"unspent", "accepted"} =>
        IsUnspent(op[o].answered, Target[o])

\* "spent-outpoint" evidence names one transaction, and that one spends the very
\* outpoint, although its parent, the history and the transactions were read
\* from different indexers.
SpentNamesSpender ==
    \A o \in Op : op[o].status = "spent-outpoint" =>
        \E t \in Tx : op[o].spenders = {t} /\ Target[o] \in Spends[t]

\* Honest indexers never make a scan ambiguous: the entries it follows are one
\* indexer's history, even when other indexers on conflicting branches serve
\* the transactions.
ScanIsUnambiguous == \A o \in Op : op[o].status # "ambiguous"

\* An accepted funding says confirmed or not as the last answer had it, however
\* the chain moved since the confirmations were read.
FundingStatusIsCurrent ==
    \A o \in Fundings : op[o].status = "accepted" =>
        IF op[o].depth \in {Absent, 0}
        THEN Target[o][1] \in op[o].answered.mempool
        ELSE Target[o][1] \in Confirmed(op[o].answered.tip)

\* A confirmed location names a block on the chain of the indexer that gave it,
\* at the depth it reports; a stale block never passes for one.
LocationIsPlaced ==
    \A o \in Locations : op[o].status = "located-confirmed" =>
        LET b == op[o].block
            w == op[o].answered IN
        /\ b \in Chain[w.tip]
        /\ Target[o][1] \in Mines[b]
        /\ op[o].depth = Height[w.tip] - Height[b] + 1

\* "candidate outpoint is not currently unspent" (index.ts:2009): some endpoint
\* has the candidate of a funding refused with that message spent or missing.
SpentRefusalIsTrue ==
    \A o \in Fundings : op[o].status = "spent" =>
        \E s \in Slot : ~IsUnspent(view[s], Target[o])

\* What a scan has matched and has still to read comes from one consistent view:
\* one transaction at most spends the outpoint.
OneSpender(o, r) ==
    /\ IsFiniteSet(r.spenders)
    /\ \A t \in r.spenders : Target[o] \in Spends[t]
    /\ \A t, u \in r.spenders \cup {r.pending[i] : i \in 1..Len(r.pending)} :
          Target[o] \in Spends[t] /\ Target[o] \in Spends[u] => t = u

ScanShape(o, r) ==
    /\ r.status = "none" <=> r.stage # "done"
    /\ r.stage = "scan" => r.pending # << >>
    /\ r.stage \in {"idle", "raw", "output", "source", "history", "broadcast"} =>
          r.spenders = {}
    /\ OneSpender(o, r)

\* The strengthening that makes the invariants above inductive.
IndInv ==
    /\ \A s \in Slot : Consistent(view[s])
    /\ \A o \in Op : ScanShape(o, op[o])
    /\ UnspentAtVerdict
    /\ SpentNamesSpender
    /\ ScanIsUnambiguous
    /\ FundingStatusIsCurrent
    /\ LocationIsPlaced

\* Every lookup ends, however the indexers move: the endpoint loop, the scan of
\* a history and the chain of requests are all finite.
EveryLookupEnds == \A o \in Op : Asking(o) ~> op[o].stage = "done"
=============================================================================
