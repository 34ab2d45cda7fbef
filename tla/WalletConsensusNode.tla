------------------------ MODULE WalletConsensusNode ------------------------
(***************************************************************************)
(* The operations of packages/chain-io/src/wallet_consensus_node_v0.ts: a  *)
(* wallet authenticates tips, transaction inclusion and confirmed output   *)
(* state against its own validating node.  Every operation is a sequence   *)
(* of JSON-RPC calls; the node answers each one from its state of that     *)
(* moment and may connect blocks or reorganise between any two.            *)
(*                                                                         *)
(* One action is one call and the code that runs on its answer.  A tip     *)
(* handle is the pair (node, block) that authenticatedTipsV0 records.      *)
(***************************************************************************)
EXTENDS BlockTree, Sequences, FiniteSets

CONSTANTS Node,          \* configured node handles
          WrongNetwork,  \* those whose endpoint serves another network
          TipReads,      \* readChainIoWalletConsensusNodeTipV0 calls
          Inclusions,    \* ...IncludedTransactionV0 calls
          Histories,     \* ...HistoricalSourceOutputV0 calls
          CurrentReads,  \* authenticateCurrentSourceOutput calls
          BackingReads,  \* ...CurrentBackingSetStateV0 calls
          Asked,         \* transactions asked for
          Vout,          \* output indexes asked for
          MaxOps         \* bound: operations begun in one behaviour

Op == TipReads \cup Inclusions \cup Histories \cup CurrentReads \cup BackingReads
TxReads == Inclusions \cup Histories
UtxoReads == CurrentReads \cup BackingReads

ASSUME NodeAssumption ==
    WrongNetwork \subseteq Node /\ Asked \subseteq Tx /\ Vout \subseteq Nat
ASSUME OpAssumption ==
    /\ TipReads \cap (TxReads \cup UtxoReads) = {}
    /\ TxReads \cap UtxoReads = {}
    /\ Inclusions \cap Histories = {} /\ CurrentReads \cap BackingReads = {}

VARIABLES best,  \* per node: its selected tip
          seen,  \* per node: the blocks it has connected at some time
          tips,  \* the tip handles given out
          op     \* per operation

vars == <<best, seen, tips, op>>

Stage == {"idle", "raw", "header", "canonical", "txout", "info", "hash",
          "done", "failed"}

Tip == [node : Node, block : Block]

OpState == [stage : Stage, node : Node, tip : Block \cup {NoBlock},
            tx : Asked, vout : Vout,
            block : Block \cup {NoBlock},           \* where the transaction is
            replies : Seq(Block \cup {NoBlock}),    \* bestblock per gettxout, or null
            read : Block \cup {NoBlock},            \* the tip (re)read last
            before : SUBSET Op]                     \* history: done when it began

TypeOK ==
    /\ best \in [Node -> Block]
    /\ seen \in [Node -> SUBSET Block]
    /\ tips \subseteq Tip
    /\ op \in [Op -> OpState]

Init ==
    /\ best \in [Node -> Block]
    /\ seen = [n \in Node |-> Chain[best[n]]]
    /\ tips = {}
    /\ \E n \in Node, t \in Asked, v \in Vout :
          op = [o \in Op |-> [stage |-> "idle", node |-> n, tip |-> NoBlock,
                              tx |-> t, vout |-> v, block |-> NoBlock,
                              replies |-> << >>, read |-> NoBlock, before |-> {}]]

-----------------------------------------------------------------------------
(* The configured node (external) *)

\* The node only ever selects a branch with more work.
SelectTip(n, b) ==
    /\ Work[b] > Work[best[n]]
    /\ best' = [best EXCEPT ![n] = b]
    /\ seen' = [seen EXCEPT ![n] = @ \cup Chain[b]]
    /\ UNCHANGED <<tips, op>>

\* gettxout [txid, vout, false]: null, or an entry with the node's best block.
TxOut(n, t, v) == IF <<t, v>> \in Utxo(best[n]) THEN best[n] ELSE NoBlock

\* The blocks getrawtransaction may name: the index keeps disconnected ones.
Locations(n, t) == {b \in seen[n] : t \in Mines[b]}

-----------------------------------------------------------------------------
(* Starting an operation *)

\* The promise rejects and the operation's local bindings go out of scope.
Failed(r) == [r EXCEPT !.stage = "failed", !.tip = NoBlock, !.block = NoBlock,
                       !.replies = << >>, !.read = NoBlock, !.before = {}]

Fail(o) == op' = [op EXCEPT ![o] = Failed(@)]

Done == {o \in Op : op[o].stage = "done"}

\* An operation may begin, within the bound of the model.
MayBegin(o) ==
    /\ op[o].stage = "idle"
    /\ Cardinality({p \in Op : op[p].stage # "idle"}) < MaxOps

StartTipRead(o, n) ==
    /\ MayBegin(o)
    /\ op' = [op EXCEPT ![o] = [@ EXCEPT !.stage = "info", !.node = n]]
    /\ UNCHANGED <<best, seen, tips>>

\* A mutated form: the handle of another configured node is accepted.
BoundAnywhere(n, t) == t \in tips

\* requireAuthenticatedTip: a handle given out for this very node.
Bound(n, t) == t \in tips /\ t.node = n

Begun(r, stage, n, b, t, v, done) ==
    [r EXCEPT !.stage = stage, !.node = n, !.tip = b, !.tx = t, !.vout = v,
              !.before = done]

Start(o, n, t, tx, v) ==
    /\ MayBegin(o)
    /\ Bound(n, t)
    /\ op' = [op EXCEPT ![o] =
                Begun(@, IF o \in TxReads THEN "raw" ELSE "txout", n, t.block, tx, v, Done)]
    /\ UNCHANGED <<best, seen, tips>>

StartWithForeignTip(o, n, t) ==
    /\ MayBegin(o)
    /\ t \in tips
    /\ ~Bound(n, t)
    /\ Fail(o)
    /\ UNCHANGED <<best, seen, tips>>

-----------------------------------------------------------------------------
(* rpcCall *)

Calling(o) == op[o].stage \notin {"idle", "done", "failed"}

\* A timeout, an HTTP error, a malformed envelope or a JSON-RPC error: each
\* one ends the whole operation.
RpcFails(o) ==
    /\ Calling(o)
    /\ Fail(o)
    /\ UNCHANGED <<best, seen, tips>>

\* What follows a successful answer at this stage.
Proceed(o, r) ==
    /\ op' = [op EXCEPT ![o] = r]
    /\ UNCHANGED <<best, seen, tips>>

Abort(o) == Proceed(o, Failed(op[o]))

-----------------------------------------------------------------------------
(* readChainIoWalletConsensusNodeTipV0, alone or as the closing recheck *)

\* getblockchaininfo.
ChainInfo(o) ==
    /\ op[o].stage = "info"
    /\ IF op[o].node \in WrongNetwork THEN Abort(o)
       ELSE Proceed(o, [op[o] EXCEPT !.stage = "hash", !.read = best[op[o].node]])

\* getblockhash at the height just read.
StillCanonical(o) ==
    op[o].read \in At(best[op[o].node], Height[op[o].read])

\* A mutated form: the recheck compares heights only.
SameTipHeight(o) == Height[op[o].read] = Height[op[o].tip]

SameTip(o) == op[o].read = op[o].tip

TipNotCanonical(o) ==
    /\ op[o].stage = "hash"
    /\ ~StillCanonical(o)
    /\ Abort(o)

\* A mutated form: the handle is recorded with the binding of the caller.
TipAuthenticatedUnread(o) ==
    /\ op[o].stage = "hash"
    /\ o \in TipReads
    /\ StillCanonical(o)
    /\ tips' = tips \cup {[node |-> op[o].node, block |-> op[o].tip]}
    /\ op' = [op EXCEPT ![o] = [@ EXCEPT !.stage = "done", !.tip = op[o].read]]
    /\ UNCHANGED <<best, seen>>

TipAuthenticated(o) ==
    /\ op[o].stage = "hash"
    /\ o \in TipReads
    /\ StillCanonical(o)
    /\ tips' = tips \cup {[node |-> op[o].node, block |-> op[o].read]}
    /\ op' = [op EXCEPT ![o] = [@ EXCEPT !.stage = "done", !.tip = op[o].read]]
    /\ UNCHANGED <<best, seen>>

TipRechecked(o) ==
    /\ op[o].stage = "hash"
    /\ o \in UtxoReads
    /\ StillCanonical(o)
    /\ IF SameTip(o) THEN Proceed(o, [op[o] EXCEPT !.stage = "done"]) ELSE Abort(o)

-----------------------------------------------------------------------------
(* authenticateCanonicalTransaction and the historical source output *)

\* getrawtransaction: unknown and mempool-only transactions have no block hash.
RawTransaction(o) ==
    /\ op[o].stage = "raw"
    /\ \/ Abort(o)
       \/ \E b \in Locations(op[o].node, op[o].tx) :
             Proceed(o, [op[o] EXCEPT !.stage = "header", !.block = b])

BlockHeader(o) ==
    /\ op[o].stage = "header"
    /\ IF Height[op[o].block] > Height[op[o].tip] THEN Abort(o)
       ELSE Proceed(o, [op[o] EXCEPT !.stage = "canonical"])

\* A mutated form: any block the node knows at that height will do.
OnActiveChainAnyBlock(o) == At(best[op[o].node], Height[op[o].block]) # {}

\* getblockhash at the block's height names the block.
OnActiveChain(o) == op[o].block \in At(best[op[o].node], Height[op[o].block])

\* The historical source output must exist in the parent.
OutputPresent(o) == o \in Histories => op[o].vout \in Outputs[op[o].tx]

CanonicalHash(o) ==
    /\ op[o].stage = "canonical"
    /\ IF OnActiveChain(o) /\ OutputPresent(o)
       THEN Proceed(o, [op[o] EXCEPT !.stage = "done"]) ELSE Abort(o)

-----------------------------------------------------------------------------
(* authenticateCurrentSourceOutput and the backing set *)

\* The output indexes a read asks for, one gettxout after the other.
Wanted(o, r) == IF o \in BackingReads THEN <<0, 1, 2, 3, 4>> ELSE <<r.vout>>

NextReply(o, r) == TxOut(r.node, r.tx, Wanted(o, r)[Len(r.replies) + 1])

\* No entry of the replies names another best block.
OneTip(replies, b) == \A i \in 1..Len(replies) : replies[i] \in {NoBlock, b}

OutputRead(o) ==
    /\ op[o].stage = "txout"
    /\ LET replies == Append(op[o].replies, NextReply(o, op[o])) IN
       IF Len(replies) < Len(Wanted(o, op[o]))
       THEN Proceed(o, [op[o] EXCEPT !.replies = replies])
       ELSE IF OneTip(replies, op[o].tip)
       THEN Proceed(o, [op[o] EXCEPT !.replies = replies, !.stage = "info"])
       ELSE Abort(o)

-----------------------------------------------------------------------------

\* No call is outstanding: the wallet may ask nothing more.
Finished ==
    /\ \A o \in Op : ~Calling(o)
    /\ UNCHANGED vars

Step(o) ==
    \/ RpcFails(o)
    \/ ChainInfo(o) \/ TipNotCanonical(o) \/ TipAuthenticated(o) \/ TipRechecked(o)
    \/ RawTransaction(o) \/ BlockHeader(o) \/ CanonicalHash(o)
    \/ OutputRead(o)

Next ==
    \/ \E n \in Node, b \in Block : SelectTip(n, b)
    \/ \E o \in TipReads, n \in Node : StartTipRead(o, n)
    \/ \E o \in TxReads \cup UtxoReads, n \in Node, t \in tips :
          \/ StartWithForeignTip(o, n, t)
          \/ \E tx \in Asked, v \in Vout : Start(o, n, t, tx, v)
    \/ \E o \in Op : Step(o)
    \/ Finished

Spec == Init /\ [][Next]_vars

-----------------------------------------------------------------------------
(* Properties *)

\* What the records of operation o, in state r, say of the outputs they list.
Truthful(o, r) ==
    \A i \in 1..Len(r.replies) :
        r.replies[i] # NoBlock <=> <<r.tx, Wanted(o, r)[i]>> \in Utxo(r.tip)

\* What an output-state certificate says of each output is true of the
\* confirmed UTXO set at the one block it names, although the gettxout calls
\* and the tip reads were separate and a null carries no block: a current read
\* ("not-in-confirmed-canonical-utxo-set-at-tip") and the five records of a
\* backing set are a snapshot at the bound tip.
CertificateIsSnapshot ==
    \A o \in UtxoReads : op[o].stage = "done" =>
        Len(op[o].replies) = Len(Wanted(o, op[o])) /\ Truthful(o, op[o])

\* While a node still has the tip an inclusion was bound to, the transaction's
\* block is on that tip's branch and the confirmations count is the real one.
InclusionHoldsAtUnmovedTip ==
    \A o \in TxReads : op[o].stage = "done" /\ best[op[o].node] = op[o].tip =>
        op[o].tx \in Mines[op[o].block] /\ op[o].block \in Chain[op[o].tip]

\* The order of use that makes an inclusion final for its tip: an output-state
\* read begun after it, on the same handle, only completes if the transaction
\* is on the handle's branch.
ReadAfterInclusionConfirmsIt ==
    \A p \in UtxoReads : \A o \in op[p].before \cap TxReads :
        /\ op[p].stage = "done"
        /\ op[o].node = op[p].node
        /\ op[o].tip = op[p].tip
        => op[o].block \in Chain[op[p].tip]

\* "transaction block is not an ancestor of the selected canonical tip"
\* (wallet_consensus_node_v0.ts:669): the inclusions that are not refused have
\* their block on the branch of the bound tip.
InclusionIsAncestor ==
    \A o \in TxReads : op[o].stage = "done" => op[o].block \in Chain[op[o].tip]

\* "`gettxout: null` alone cannot distinguish a spent output from one that
\* never existed." (wallet_consensus_node_v0.ts:94): an output the backing set
\* reports "spent" has existed on the branch of its tip.
SpentHasExisted ==
    \A o \in BackingReads : op[o].stage = "done" =>
        \A i \in 1..5 : op[o].replies[i] = NoBlock =>
            <<op[o].tx, Wanted(o, op[o])[i]>> \in Created(op[o].tip)

\* The strengthening that makes the three above inductive.  A node that has
\* left a tip it gave out has more work since, so it never returns to it.
LeftForMoreWork(n, b) == best[n] = b \/ Work[best[n]] > Work[b]

TipsLeftForMoreWork == \A t \in tips : LeftForMoreWork(t.node, t.block)

TipReadShape(r) ==
    /\ r.stage \in {"idle", "info", "hash", "done", "failed"}
    /\ r.stage = "hash" => r.read \in Block /\ LeftForMoreWork(r.node, r.read)

\* What r was bound to when the operation began.
BoundShape(r) ==
    r.stage \notin {"idle", "failed"} => r.tip \in Block /\ LeftForMoreWork(r.node, r.tip)

TxReadShape(r) ==
    /\ r.stage \in {"idle", "raw", "header", "canonical", "done", "failed"}
    /\ BoundShape(r)
    /\ r.stage \in {"header", "canonical", "done"} =>
          r.block \in Block /\ r.tx \in Mines[r.block]
    /\ r.stage = "done" /\ best[r.node] = r.tip => r.block \in Chain[r.tip]

\* The replies collected so far are those of the bound tip, provided the node
\* still has it, or had it when it was reread.
UtxoReadShape(o, r) ==
    /\ r.stage \in {"idle", "txout", "info", "hash", "done", "failed"}
    /\ BoundShape(r)
    /\ r.stage = "idle" => r.replies = << >>
    /\ r.stage = "txout" => Len(r.replies) < Len(Wanted(o, r))
    /\ r.stage \in {"info", "hash", "done"} => Len(r.replies) = Len(Wanted(o, r))
    /\ r.stage \in {"txout", "info"} /\ best[r.node] = r.tip => Truthful(o, r)
    /\ r.stage = "hash" /\ r.read = r.tip => Truthful(o, r)
    /\ r.stage = "done" => Truthful(o, r)

OpShape ==
    /\ \A o \in TipReads : TipReadShape(op[o])
    /\ \A o \in TxReads : TxReadShape(op[o])
    /\ \A o \in UtxoReads : UtxoReadShape(o, op[o])

\* What was done when a read began is done.
BeforeIsDone == \A p \in Op : op[p].before \subseteq Done

\* A read begun after an inclusion cannot reread its tip unless the inclusion
\* is on its branch.
InclusionBackedInFlight ==
    \A p \in UtxoReads : \A o \in op[p].before \cap TxReads :
        /\ \/ op[p].stage = "done"
           \/ op[p].stage = "hash" /\ op[p].read = op[p].tip
        /\ op[o].node = op[p].node
        /\ op[o].tip = op[p].tip
        => op[o].block \in Chain[op[p].tip]

IndInv ==
    /\ TipsLeftForMoreWork
    /\ OpShape
    /\ BeforeIsDone
    /\ InclusionBackedInFlight
=============================================================================
