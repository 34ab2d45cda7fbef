---------------------- MODULE WalletConsensusNodeProofs ----------------------
(***************************************************************************)
(* Proofs about WalletConsensusNode for every block tree, every set of     *)
(* nodes and every set of operations: the type invariant, and the          *)
(* inductive invariant behind the snapshot property of the output-state    *)
(* certificates and the reach of the inclusion certificates.               *)
(***************************************************************************)
EXTENDS WalletConsensusNode, TLAPS

-----------------------------------------------------------------------------
(* Types *)

\* A rejected operation is a well-typed operation that keeps its identity.
LEMMA FailedType ==
    ASSUME NEW r \in OpState
    PROVE  /\ Failed(r) \in OpState
           /\ Failed(r).stage = "failed" /\ Failed(r).before = {}
<1>1. << >> \in Seq(Block \cup {NoBlock}) /\ "failed" \in Stage
  BY DEF Stage
<1>2. Failed(r) \in OpState
  BY <1>1 DEF Failed, OpState
<1>3. Failed(r).stage = "failed" /\ Failed(r).before = {}
  BY DEF Failed, OpState
<1> QED
  BY <1>2, <1>3

\* One operation's record is replaced by a well-typed one.
LEMMA ReplaceType ==
    ASSUME op \in [Op -> OpState], NEW o \in Op, NEW r \in OpState,
           op' = [op EXCEPT ![o] = r]
    PROVE  op' \in [Op -> OpState]
  OBVIOUS

\* The record an operation starts with.
LEMMA BegunType ==
    ASSUME NEW r \in OpState, NEW s \in Stage, NEW n \in Node, NEW b \in Block,
           NEW t \in Asked, NEW v \in Vout, NEW D \in SUBSET Op
    PROVE  Begun(r, s, n, b, t, v, D) \in OpState
  BY DEF Begun, OpState

\* Another reply is a member of the reply type.
LEMMA NextReplyType ==
    ASSUME TypeOK, NEW o \in Op
    PROVE  NextReply(o, op[o]) \in Block \cup {NoBlock}
  BY DEF TypeOK, OpState, NextReply, TxOut

\* What one step of an operation does: its record is replaced, nothing else
\* but the given-out tips changes.
LEMMA StepType ==
    ASSUME TypeOK, NEW o \in Op, Step(o)
    PROVE  TypeOK'
<1> USE DEF TypeOK
<1>0. op[o] \in OpState /\ Failed(op[o]) \in OpState
  BY FailedType
<1>f. ASSUME Abort(o) PROVE TypeOK'
  <2>1. op' = [op EXCEPT ![o] = Failed(op[o])] /\ UNCHANGED <<best, seen, tips>>
    BY <1>f DEF Abort, Proceed
  <2> QED
    BY <2>1, <1>0, ReplaceType
<1>p. ASSUME NEW r \in OpState, Proceed(o, r) PROVE TypeOK'
  BY <1>p, ReplaceType DEF Proceed
<1>1. CASE RpcFails(o)
  <2>1. op' = [op EXCEPT ![o] = Failed(op[o])] /\ UNCHANGED <<best, seen, tips>>
    BY <1>1 DEF RpcFails, Fail
  <2> QED
    BY <2>1, <1>0, ReplaceType
<1>2. CASE ChainInfo(o)
  <2>1. CASE op[o].node \in WrongNetwork
    BY <1>2, <2>1, <1>f DEF ChainInfo
  <2>2. CASE op[o].node \notin WrongNetwork
    <3>1. [op[o] EXCEPT !.stage = "hash", !.read = best[op[o].node]] \in OpState
      BY <1>0 DEF OpState, Stage
    <3> QED
      BY <1>2, <2>2, <3>1, <1>p DEF ChainInfo
  <2> QED BY <2>1, <2>2
<1>3. CASE TipNotCanonical(o)
  BY <1>3, <1>f DEF TipNotCanonical
<1>4. CASE TipAuthenticated(o)
  <2>1. op[o].read \in Block
    BY <1>4, <1>0, BlockAssumption DEF TipAuthenticated, StillCanonical, At, OpState
  <2>2. [op[o] EXCEPT !.stage = "done", !.tip = op[o].read] \in OpState
    BY <1>0, <2>1 DEF OpState, Stage
  <2>3. op' = [op EXCEPT ![o] = [op[o] EXCEPT !.stage = "done", !.tip = op[o].read]]
    BY <1>4 DEF TipAuthenticated
  <2>4. op' \in [Op -> OpState]
    BY <2>2, <2>3, ReplaceType
  <2>5. tips' \subseteq Tip
    BY <1>4, <1>0, <2>1 DEF TipAuthenticated, Tip, OpState
  <2> QED
    BY <1>4, <2>4, <2>5 DEF TipAuthenticated
<1>5. CASE TipRechecked(o)
  <2>1. [op[o] EXCEPT !.stage = "done"] \in OpState
    BY <1>0 DEF OpState, Stage
  <2> QED
    BY <1>5, <2>1, <1>p, <1>f DEF TipRechecked
<1>6. CASE RawTransaction(o)
  <2>1. ASSUME NEW b \in Locations(op[o].node, op[o].tx)
        PROVE  [op[o] EXCEPT !.stage = "header", !.block = b] \in OpState
    BY <1>0 DEF OpState, Stage, Locations
  <2> QED
    BY <1>6, <2>1, <1>p, <1>f DEF RawTransaction
<1>7. CASE BlockHeader(o)
  <2>1. [op[o] EXCEPT !.stage = "canonical"] \in OpState
    BY <1>0 DEF OpState, Stage
  <2> QED
    BY <1>7, <2>1, <1>p, <1>f DEF BlockHeader
<1>8. CASE CanonicalHash(o)
  <2>1. [op[o] EXCEPT !.stage = "done"] \in OpState
    BY <1>0 DEF OpState, Stage
  <2> QED
    BY <1>8, <2>1, <1>p, <1>f DEF CanonicalHash
<1>9. CASE OutputRead(o)
  <2> DEFINE R == Append(op[o].replies, NextReply(o, op[o]))
  <2>1. R \in Seq(Block \cup {NoBlock})
    BY <1>0, NextReplyType DEF OpState
  <2>2. /\ [op[o] EXCEPT !.replies = R] \in OpState
        /\ [op[o] EXCEPT !.replies = R, !.stage = "info"] \in OpState
    BY <1>0, <2>1 DEF OpState, Stage
  <2> HIDE DEF R
  <2>3. \/ Proceed(o, [op[o] EXCEPT !.replies = R])
        \/ Proceed(o, [op[o] EXCEPT !.replies = R, !.stage = "info"])
        \/ Abort(o)
    BY <1>9 DEF OutputRead, R
  <2> QED
    BY <2>2, <2>3, <1>p, <1>f
<1> QED
  BY <1>1, <1>2, <1>3, <1>4, <1>5, <1>6, <1>7, <1>8, <1>9 DEF Step

\* The operations, in the three groups the actions distinguish.
LEMMA OpGroups == Op = TipReads \cup TxReads \cup UtxoReads
  BY DEF Op, TxReads, UtxoReads

\* Type correctness is inductive.
LEMMA TypeStep ==
    ASSUME TypeOK, [Next]_vars
    PROVE  TypeOK'
<1> USE DEF TypeOK
<1>1. CASE UNCHANGED vars
  BY <1>1 DEF vars
<1>2. ASSUME NEW n \in Node, NEW b \in Block, SelectTip(n, b) PROVE TypeOK'
  BY <1>2, BlockAssumption DEF SelectTip
<1>3. ASSUME NEW o \in TipReads, NEW n \in Node, StartTipRead(o, n) PROVE TypeOK'
  <2>1. o \in Op
    BY OpGroups
  <2>2. op[o] \in OpState /\ "info" \in Stage
    BY <2>1 DEF Stage
  <2>3. [op[o] EXCEPT !.stage = "info", !.node = n] \in OpState
    BY <2>2 DEF OpState
  <2> QED
    BY <1>3, <2>1, <2>3, ReplaceType DEF StartTipRead
<1>4. ASSUME NEW o \in TxReads \cup UtxoReads, NEW n \in Node, NEW t \in tips,
             NEW tx \in Asked, NEW v \in Vout, Start(o, n, t, tx, v)
      PROVE  TypeOK'
  <2>1. o \in Op /\ t.block \in Block /\ Done \in SUBSET Op
    BY OpGroups DEF Tip, Done
  <2> DEFINE s == IF o \in TxReads THEN "raw" ELSE "txout"
  <2>2. s \in Stage
    BY DEF Stage
  <2>3. Begun(op[o], s, n, t.block, tx, v, Done) \in OpState
    BY <2>1, <2>2, BegunType
  <2> QED
    BY <1>4, <2>1, <2>3, ReplaceType DEF Start
<1>5. ASSUME NEW o \in TxReads \cup UtxoReads, NEW n \in Node, NEW t \in tips,
             StartWithForeignTip(o, n, t)
      PROVE  TypeOK'
  <2>1. o \in Op
    BY OpGroups
  <2>2. op' = [op EXCEPT ![o] = Failed(op[o])] /\ UNCHANGED <<best, seen, tips>>
    BY <1>5 DEF StartWithForeignTip, Fail
  <2> QED
    BY <2>1, <2>2, FailedType, ReplaceType
<1>6. ASSUME NEW o \in Op, Step(o) PROVE TypeOK'
  BY <1>6, StepType
<1> QED
  BY <1>1, <1>2, <1>3, <1>4, <1>5, <1>6 DEF Next, Finished

\* Every state has the declared types, for every block tree and every set of
\* nodes and operations.
THEOREM NodeTypes == Spec => []TypeOK
<1>1. Init => TypeOK
  <2> SUFFICES ASSUME Init PROVE TypeOK
    OBVIOUS
  <2>1. best \in [Node -> Block] /\ tips \subseteq Tip
    BY DEF Init
  <2>2. seen \in [Node -> SUBSET Block]
    BY <2>1, BlockAssumption DEF Init
  <2>3. op \in [Op -> OpState]
    BY DEF Init, OpState, Stage
  <2> QED
    BY <2>1, <2>2, <2>3 DEF TypeOK
<1> QED
  BY <1>1, TypeStep, PTL DEF Spec

-----------------------------------------------------------------------------
(* The inductive invariant *)

\* A node that moved on has more work than any tip it gave out, so it is at
\* such a tip now only if it has been there all along.
LEMMA LeavesForGood ==
    ASSUME TypeOK, NEW n \in Node, NEW b \in Block, SelectTip(n, b),
           NEW m \in Node, NEW c \in Block, LeftForMoreWork(m, c)
    PROVE  LeftForMoreWork(m, c)' /\ (best'[m] = c => best[m] = c)
<1>1. /\ best \in [Node -> Block] /\ best' = [best EXCEPT ![n] = b]
      /\ Work[b] > Work[best[n]]
  BY DEF TypeOK, SelectTip
<1>2. Work[b] \in Nat /\ Work[best[n]] \in Nat /\ Work[c] \in Nat
  BY <1>1, BlockAssumption
<1>3. CASE m # n
  <2>1. best'[m] = best[m]
    BY <1>1, <1>3
  <2> QED
    BY <2>1 DEF LeftForMoreWork
<1>4. CASE m = n
  <2>1. best'[m] = b
    BY <1>1, <1>4
  <2>2. Work[b] > Work[c]
    BY <1>1, <1>2, <1>4 DEF LeftForMoreWork
  <2>3. b # c
    BY <1>2, <2>2
  <2> QED
    BY <2>1, <2>2, <2>3 DEF LeftForMoreWork
<1> QED
  BY <1>3, <1>4

\* The node's own moves keep the invariant.
LEMMA SelectTipKeeps ==
    ASSUME TypeOK, IndInv, NEW n \in Node, NEW b \in Block, SelectTip(n, b)
    PROVE  IndInv'
<1>1. op' = op /\ tips' = tips
  BY DEF SelectTip
<1>2. ASSUME NEW o \in Op PROVE op[o] \in OpState /\ op[o].node \in Node
  BY DEF TypeOK, OpState
<1>3. TipsLeftForMoreWork'
  <2> SUFFICES ASSUME NEW t \in tips PROVE LeftForMoreWork(t.node, t.block)'
    BY <1>1 DEF TipsLeftForMoreWork
  <2>1. t.node \in Node /\ t.block \in Block /\ LeftForMoreWork(t.node, t.block)
    BY DEF TypeOK, Tip, IndInv, TipsLeftForMoreWork
  <2> QED
    BY <2>1, LeavesForGood
<1>4. ASSUME NEW o \in TipReads PROVE TipReadShape(op[o])'
  <2>1. o \in Op /\ TipReadShape(op[o])
    BY OpGroups DEF IndInv, OpShape
  <2>2. CASE op[o].stage # "hash"
    BY <1>1, <2>1, <2>2 DEF TipReadShape
  <2>3. CASE op[o].stage = "hash"
    <3>1. LeftForMoreWork(op[o].node, op[o].read)'
      BY <1>1, <1>2, <2>1, <2>3, LeavesForGood DEF TipReadShape
    <3> QED
      BY <1>1, <2>1, <2>3, <3>1 DEF TipReadShape
  <2> QED
    BY <2>2, <2>3
<1>5. ASSUME NEW o \in Op, BoundShape(op[o])
      PROVE  /\ BoundShape(op[o])'
             /\ op[o].stage \notin {"idle", "failed"} /\ best'[op[o].node] = op[o].tip
                    => best[op[o].node] = op[o].tip
  <2>1. CASE op[o].stage \in {"idle", "failed"}
    BY <1>1, <2>1 DEF BoundShape
  <2>2. CASE op[o].stage \notin {"idle", "failed"}
    <3>1. /\ op[o].tip \in Block
          /\ LeftForMoreWork(op[o].node, op[o].tip)'
          /\ best'[op[o].node] = op[o].tip => best[op[o].node] = op[o].tip
      BY <1>1, <1>2, <1>5, <2>2, LeavesForGood DEF BoundShape
    <3> QED
      BY <1>1, <3>1 DEF BoundShape
  <2> QED
    BY <2>1, <2>2
<1>6. ASSUME NEW o \in TxReads PROVE TxReadShape(op[o])'
  <2>1. o \in Op /\ TxReadShape(op[o]) /\ BoundShape(op[o])
    BY OpGroups DEF IndInv, OpShape, TxReadShape
  <2>2. BoundShape(op[o])' /\ (op[o].stage = "done" /\ best'[op[o].node] = op[o].tip
                                  => best[op[o].node] = op[o].tip)
    BY <1>5, <2>1
  <2> QED
    BY <1>1, <2>1, <2>2 DEF TxReadShape
<1>7. ASSUME NEW o \in UtxoReads PROVE UtxoReadShape(o, op[o])'
  <2>1. o \in Op /\ UtxoReadShape(o, op[o]) /\ BoundShape(op[o])
    BY OpGroups DEF IndInv, OpShape, UtxoReadShape
  <2>2. /\ BoundShape(op[o])'
        /\ op[o].stage \in {"txout", "info"} /\ best'[op[o].node] = op[o].tip
               => best[op[o].node] = op[o].tip
    BY <1>5, <2>1
  <2>3. Truthful(o, op[o])' <=> Truthful(o, op[o])
    BY <1>1 DEF Truthful, Wanted
  <2>4. Wanted(o, op[o])' = Wanted(o, op[o])
    BY <1>1 DEF Wanted
  <2> QED
    BY <1>1, <2>1, <2>2, <2>3, <2>4 DEF UtxoReadShape
<1>8. OpShape'
  BY <1>1, <1>4, <1>6, <1>7 DEF OpShape
<1>9. BeforeIsDone' /\ InclusionBackedInFlight'
  BY <1>1 DEF IndInv, BeforeIsDone, Done, InclusionBackedInFlight
<1> QED
  BY <1>3, <1>8, <1>9 DEF IndInv

\* A step of operation o that leaves the node alone: if the new record r has
\* the shape of o, respects what was done, and backs the inclusions it follows,
\* the invariants over all operations are kept.
LEMMA OneOperation ==
    ASSUME TypeOK, IndInv, NEW o \in Op, NEW r \in OpState,
           op[o].stage # "done", op' = [op EXCEPT ![o] = r], best' = best,
           o \in TipReads => TipReadShape(r),
           o \in TxReads => TxReadShape(r),
           o \in UtxoReads => UtxoReadShape(o, r),
           r.before \subseteq Done,
           \A q \in r.before \cap TxReads :
               /\ o \in UtxoReads
               /\ r.stage = "done" \/ (r.stage = "hash" /\ r.read = r.tip)
               /\ op[q].node = r.node
               /\ op[q].tip = r.tip
               => op[q].block \in Chain[r.tip]
    PROVE  OpShape' /\ BeforeIsDone' /\ InclusionBackedInFlight'
<1>1. op'[o] = r /\ \A p \in Op : p # o => op'[p] = op[p]
  BY DEF TypeOK
<1>2. Done \subseteq Done' /\ o \notin Done
  BY <1>1 DEF Done
<1>3. OpShape'
  <2>1. \A p \in TipReads : p # o => TipReadShape(op'[p])
    BY <1>1, OpGroups DEF IndInv, OpShape
  <2>2. \A p \in TxReads : p # o => TxReadShape(op'[p])
    BY <1>1, OpGroups DEF IndInv, OpShape
  <2>3. \A p \in UtxoReads : p # o => UtxoReadShape(p, op'[p])
    BY <1>1, OpGroups DEF IndInv, OpShape
  <2>4. /\ \A p \in TipReads : TipReadShape(op'[p])
        /\ \A p \in TxReads : TxReadShape(op'[p])
        /\ \A p \in UtxoReads : UtxoReadShape(p, op'[p])
    BY <1>1, <2>1, <2>2, <2>3
  <2>5. ASSUME NEW p \in TipReads PROVE TipReadShape(op[p])'
    BY <2>4 DEF TipReadShape, LeftForMoreWork
  <2>6. ASSUME NEW p \in TxReads PROVE TxReadShape(op[p])'
    BY <2>4 DEF TxReadShape, BoundShape, LeftForMoreWork
  <2>7. ASSUME NEW p \in UtxoReads PROVE UtxoReadShape(p, op[p])'
    BY <2>4 DEF UtxoReadShape, BoundShape, LeftForMoreWork, Truthful, Wanted
  <2> QED
    BY <2>5, <2>6, <2>7 DEF OpShape
<1>4. BeforeIsDone'
  <2> SUFFICES ASSUME NEW p \in Op PROVE op'[p].before \subseteq Done'
    BY DEF BeforeIsDone
  <2> QED
    BY <1>1, <1>2 DEF IndInv, BeforeIsDone
<1>5. InclusionBackedInFlight'
  <2> SUFFICES ASSUME NEW p \in UtxoReads, NEW q \in op'[p].before \cap TxReads,
                      \/ op'[p].stage = "done"
                      \/ op'[p].stage = "hash" /\ op'[p].read = op'[p].tip,
                      op'[q].node = op'[p].node, op'[q].tip = op'[p].tip
               PROVE  op'[q].block \in Chain[op'[p].tip]
    BY DEF InclusionBackedInFlight
  <2>1. p \in Op /\ q \in Op
    BY OpGroups
  <2>2. q \in Done
    BY <1>1, <2>1 DEF IndInv, BeforeIsDone
  <2>3. op'[q] = op[q]
    BY <1>1, <1>2, <2>1, <2>2
  <2>4. CASE p = o
    BY <1>1, <2>3, <2>4
  <2>5. CASE p # o
    <3>1. op'[p] = op[p]
      BY <1>1, <2>1, <2>5
    <3> QED
      BY <2>3, <3>1 DEF IndInv, InclusionBackedInFlight
  <2> QED
    BY <2>4, <2>5
<1> QED
  BY <1>3, <1>4, <1>5

\* Operations of different groups are different.
LEMMA GroupsDisjoint ==
    /\ \A o \in TipReads : o \notin TxReads /\ o \notin UtxoReads
    /\ \A o \in TxReads : o \notin UtxoReads
  BY OpAssumption DEF TxReads, UtxoReads

\* The shapes of the operation that takes a step.
LEMMA ShapeOf ==
    ASSUME IndInv, NEW o \in Op
    PROVE  /\ o \in TipReads => TipReadShape(op[o])
           /\ o \in TxReads => TxReadShape(op[o])
           /\ o \in UtxoReads => UtxoReadShape(o, op[o])
           /\ op[o].before \subseteq Done
  BY DEF IndInv, OpShape, BeforeIsDone

\* A failed operation has every shape.
LEMMA FailKeeps ==
    ASSUME TypeOK, IndInv, NEW o \in Op, op[o].stage # "done",
           op' = [op EXCEPT ![o] = Failed(op[o])], UNCHANGED <<best, tips>>
    PROVE  IndInv'
<1>1. op[o] \in OpState
  BY DEF TypeOK
<1>2. /\ Failed(op[o]) \in OpState /\ Failed(op[o]).stage = "failed"
      /\ Failed(op[o]).before = {}
  BY <1>1, FailedType
<1> DEFINE r == Failed(op[o])
<1> HIDE DEF r
<1>3. r \in OpState /\ r.stage = "failed" /\ r.before = {} /\ op' = [op EXCEPT ![o] = r]
  BY <1>2 DEF r
<1>4. TipReadShape(r) /\ TxReadShape(r) /\ UtxoReadShape(o, r)
  BY <1>3 DEF TipReadShape, TxReadShape, UtxoReadShape, BoundShape
<1>5. OpShape' /\ BeforeIsDone' /\ InclusionBackedInFlight'
  BY <1>3, <1>4, OneOperation
<1> QED
  BY <1>5 DEF IndInv, TipsLeftForMoreWork, LeftForMoreWork

\* A block at some height of a branch is on the branch, and two of the same
\* height are one.
LEMMA AtBranch ==
    ASSUME NEW b \in Block, NEW h, NEW c \in At(b, h)
    PROVE  c \in Block /\ c \in Chain[b]
  BY BlockAssumption DEF At

\* A tip that was just read is one the node has not left.
LEMMA ChainInfoKeeps ==
    ASSUME TypeOK, IndInv, NEW o \in Op, ChainInfo(o)
    PROVE  IndInv'
<1>1. op[o] \in OpState /\ op[o].stage = "info" /\ op[o].node \in Node
  BY DEF TypeOK, OpState, ChainInfo
<1>2. CASE op[o].node \in WrongNetwork
  BY <1>1, <1>2, FailKeeps DEF ChainInfo, Abort, Proceed
<1>3. CASE op[o].node \notin WrongNetwork
  <2> DEFINE b == best[op[o].node]
             r == [op[o] EXCEPT !.stage = "hash", !.read = b]
  <2>1. b \in Block
    BY <1>1 DEF TypeOK
  <2>2. /\ r \in OpState /\ r.stage = "hash" /\ r.read = b
        /\ r.node = op[o].node /\ r.tip = op[o].tip /\ r.tx = op[o].tx
        /\ r.vout = op[o].vout /\ r.replies = op[o].replies /\ r.before = op[o].before
    BY <1>1, <2>1 DEF OpState, Stage
  <2>3. op' = [op EXCEPT ![o] = r] /\ UNCHANGED <<best, tips>>
    BY <1>3 DEF ChainInfo, Proceed
  <2> HIDE DEF r
  <2>4. o \in TipReads => TipReadShape(r)
    BY <2>1, <2>2 DEF TipReadShape, LeftForMoreWork
  <2>5. o \notin TxReads
    BY <1>1, ShapeOf DEF TxReadShape
  <2>6. ASSUME o \in UtxoReads PROVE UtxoReadShape(o, r)
    <3>1. UtxoReadShape(o, op[o])
      BY <2>6, ShapeOf
    <3>2. BoundShape(r)
      BY <1>1, <2>2, <3>1 DEF UtxoReadShape, BoundShape
    <3>3. Len(r.replies) = Len(Wanted(o, r))
      BY <1>1, <2>2, <3>1 DEF UtxoReadShape, Wanted
    <3>4. r.read = r.tip => Truthful(o, r)
      BY <1>1, <2>2, <3>1 DEF UtxoReadShape, Wanted, Truthful
    <3> QED
      BY <2>2, <3>2, <3>3, <3>4 DEF UtxoReadShape
  <2>7. ASSUME NEW q \in r.before \cap TxReads, o \in UtxoReads, r.read = r.tip,
               op[q].node = r.node, op[q].tip = r.tip
        PROVE  op[q].block \in Chain[r.tip]
    <3>1. op[q].stage = "done" /\ q \in Op /\ q \in TxReads
      BY <2>2, ShapeOf DEF Done
    <3>2. best[op[q].node] = op[q].tip
      BY <2>2, <2>7
    <3> QED
      BY <2>7, <3>1, <3>2, ShapeOf DEF TxReadShape
  <2>8. OpShape' /\ BeforeIsDone' /\ InclusionBackedInFlight'
    BY <1>1, <2>2, <2>3, <2>4, <2>5, <2>6, <2>7, ShapeOf, OneOperation
  <2> QED
    BY <2>3, <2>8 DEF IndInv, TipsLeftForMoreWork, LeftForMoreWork
<1> QED
  BY <1>2, <1>3

\* A handle is given out only for a tip the node has not left.
LEMMA TipAuthenticatedKeeps ==
    ASSUME TypeOK, IndInv, NEW o \in Op, TipAuthenticated(o)
    PROVE  IndInv'
<1>1. /\ op[o] \in OpState /\ op[o].stage = "hash" /\ o \in TipReads
      /\ op[o].node \in Node
  BY DEF TypeOK, OpState, TipAuthenticated
<1>2. op[o].read \in Block /\ LeftForMoreWork(op[o].node, op[o].read)
  BY <1>1, ShapeOf DEF TipReadShape
<1> DEFINE r == [op[o] EXCEPT !.stage = "done", !.tip = op[o].read]
<1>3. r \in OpState /\ r.stage = "done" /\ r.before = op[o].before
  BY <1>1, <1>2 DEF OpState, Stage
<1>4. op' = [op EXCEPT ![o] = r] /\ best' = best
      /\ tips' = tips \cup {[node |-> op[o].node, block |-> op[o].read]}
  BY DEF TipAuthenticated
<1> HIDE DEF r
<1>5. TipReadShape(r)
  BY <1>3 DEF TipReadShape
<1>6. OpShape' /\ BeforeIsDone' /\ InclusionBackedInFlight'
  BY <1>1, <1>3, <1>4, <1>5, GroupsDisjoint, ShapeOf, OneOperation
<1>7. TipsLeftForMoreWork'
  BY <1>2, <1>4 DEF IndInv, TipsLeftForMoreWork, LeftForMoreWork
<1> QED
  BY <1>6, <1>7 DEF IndInv

\* The closing recheck: the tip reread is the bound one, so the replies were
\* its own.
LEMMA TipRecheckedKeeps ==
    ASSUME TypeOK, IndInv, NEW o \in Op, TipRechecked(o)
    PROVE  IndInv'
<1>1. op[o] \in OpState /\ op[o].stage = "hash" /\ o \in UtxoReads
  BY DEF TypeOK, OpState, TipRechecked
<1>2. CASE ~SameTip(o)
  BY <1>1, <1>2, FailKeeps DEF TipRechecked, Abort, Proceed
<1>3. CASE SameTip(o)
  <2> DEFINE r == [op[o] EXCEPT !.stage = "done"]
  <2>1. /\ r \in OpState /\ r.stage = "done" /\ r.node = op[o].node
        /\ r.tip = op[o].tip /\ r.tx = op[o].tx /\ r.vout = op[o].vout
        /\ r.replies = op[o].replies /\ r.before = op[o].before
    BY <1>1 DEF OpState, Stage
  <2>2. op' = [op EXCEPT ![o] = r] /\ UNCHANGED <<best, tips>>
    BY <1>3 DEF TipRechecked, Proceed
  <2> HIDE DEF r
  <2>3. o \notin TipReads /\ o \notin TxReads
    BY <1>1, GroupsDisjoint
  <2>4. UtxoReadShape(o, op[o]) /\ op[o].read = op[o].tip
    BY <1>1, <1>3, ShapeOf DEF SameTip
  <2>5. BoundShape(r)
    BY <1>1, <2>1, <2>4 DEF UtxoReadShape, BoundShape
  <2>6. Len(r.replies) = Len(Wanted(o, r))
    BY <1>1, <2>1, <2>4 DEF UtxoReadShape, Wanted
  <2>7. Truthful(o, r)
    BY <1>1, <2>1, <2>4 DEF UtxoReadShape, Wanted, Truthful
  <2>8. UtxoReadShape(o, r)
    BY <2>1, <2>5, <2>6, <2>7 DEF UtxoReadShape
  <2>9. ASSUME NEW q \in r.before \cap TxReads,
               op[q].node = r.node, op[q].tip = r.tip
        PROVE  op[q].block \in Chain[r.tip]
    BY <1>1, <2>1, <2>4, <2>9 DEF IndInv, InclusionBackedInFlight
  <2>10. OpShape' /\ BeforeIsDone' /\ InclusionBackedInFlight'
    BY <1>1, <2>1, <2>2, <2>3, <2>8, <2>9, ShapeOf, OneOperation
  <2> QED
    BY <2>2, <2>10 DEF IndInv, TipsLeftForMoreWork, LeftForMoreWork
<1> QED
  BY <1>2, <1>3

\* A transaction read moves on with a record r that differs in stage and block.
LEMMA TxReadMoves ==
    ASSUME TypeOK, IndInv, NEW o \in TxReads, op[o].stage # "done",
           NEW r \in OpState, op' = [op EXCEPT ![o] = r], UNCHANGED <<best, tips>>,
           TxReadShape(r), r.before = op[o].before
    PROVE  IndInv'
<1>1. o \in Op /\ o \notin TipReads /\ o \notin UtxoReads
  BY GroupsDisjoint, OpGroups
<1>2. OpShape' /\ BeforeIsDone' /\ InclusionBackedInFlight'
  BY <1>1, ShapeOf, OneOperation
<1> QED
  BY <1>2 DEF IndInv, TipsLeftForMoreWork, LeftForMoreWork

LEMMA RawTransactionKeeps ==
    ASSUME TypeOK, IndInv, NEW o \in Op, RawTransaction(o)
    PROVE  IndInv'
<1>1. op[o] \in OpState /\ op[o].stage = "raw"
  BY DEF TypeOK, RawTransaction
<1>2. o \in TxReads
  BY <1>1, ShapeOf, OpGroups DEF TipReadShape, UtxoReadShape
<1>3. CASE Abort(o)
  BY <1>1, <1>3, FailKeeps DEF Abort, Proceed
<1>4. ASSUME NEW b \in Locations(op[o].node, op[o].tx),
             Proceed(o, [op[o] EXCEPT !.stage = "header", !.block = b])
      PROVE  IndInv'
  <2> DEFINE r == [op[o] EXCEPT !.stage = "header", !.block = b]
  <2>1. b \in Block /\ op[o].tx \in Mines[b]
    BY <1>1 DEF Locations, TypeOK, OpState
  <2>2. /\ r \in OpState /\ r.stage = "header" /\ r.block = b
        /\ r.node = op[o].node /\ r.tip = op[o].tip /\ r.tx = op[o].tx
        /\ r.before = op[o].before
    BY <1>1, <2>1 DEF OpState, Stage
  <2>3. op' = [op EXCEPT ![o] = r] /\ UNCHANGED <<best, tips>>
    BY <1>4 DEF Proceed
  <2> HIDE DEF r
  <2>4. TxReadShape(op[o])
    BY <1>2, ShapeOf
  <2>5. TxReadShape(r)
    BY <1>1, <2>1, <2>2, <2>4 DEF TxReadShape, BoundShape
  <2> QED
    BY <1>1, <1>2, <2>2, <2>3, <2>5, TxReadMoves
<1> QED
  BY <1>3, <1>4 DEF RawTransaction

LEMMA BlockHeaderKeeps ==
    ASSUME TypeOK, IndInv, NEW o \in Op, BlockHeader(o)
    PROVE  IndInv'
<1>1. op[o] \in OpState /\ op[o].stage = "header"
  BY DEF TypeOK, BlockHeader
<1>2. o \in TxReads /\ TxReadShape(op[o])
  BY <1>1, ShapeOf, OpGroups DEF TipReadShape, UtxoReadShape
<1>3. CASE Abort(o)
  BY <1>1, <1>3, FailKeeps DEF Abort, Proceed
<1>4. CASE Proceed(o, [op[o] EXCEPT !.stage = "canonical"])
  <2> DEFINE r == [op[o] EXCEPT !.stage = "canonical"]
  <2>1. /\ r \in OpState /\ r.stage = "canonical" /\ r.block = op[o].block
        /\ r.node = op[o].node /\ r.tip = op[o].tip /\ r.tx = op[o].tx
        /\ r.before = op[o].before
    BY <1>1 DEF OpState, Stage
  <2>2. op' = [op EXCEPT ![o] = r] /\ UNCHANGED <<best, tips>>
    BY <1>4 DEF Proceed
  <2> HIDE DEF r
  <2>3. TxReadShape(r)
    BY <1>1, <1>2, <2>1 DEF TxReadShape, BoundShape
  <2> QED
    BY <1>1, <1>2, <2>1, <2>2, <2>3, TxReadMoves
<1> QED
  BY <1>3, <1>4 DEF BlockHeader

\* The block named is on the branch of the node's tip of that moment.
LEMMA CanonicalHashKeeps ==
    ASSUME TypeOK, IndInv, NEW o \in Op, CanonicalHash(o)
    PROVE  IndInv'
<1>1. op[o] \in OpState /\ op[o].stage = "canonical" /\ best[op[o].node] \in Block
  BY DEF TypeOK, OpState, CanonicalHash
<1>2. o \in TxReads /\ TxReadShape(op[o])
  BY <1>1, ShapeOf, OpGroups DEF TipReadShape, UtxoReadShape
<1>3. CASE Abort(o)
  BY <1>1, <1>3, FailKeeps DEF Abort, Proceed
<1>4. CASE OnActiveChain(o) /\ Proceed(o, [op[o] EXCEPT !.stage = "done"])
  <2> DEFINE r == [op[o] EXCEPT !.stage = "done"]
  <2>1. /\ r \in OpState /\ r.stage = "done" /\ r.block = op[o].block
        /\ r.node = op[o].node /\ r.tip = op[o].tip /\ r.tx = op[o].tx
        /\ r.before = op[o].before
    BY <1>1 DEF OpState, Stage
  <2>2. op' = [op EXCEPT ![o] = r] /\ UNCHANGED <<best, tips>>
    BY <1>4 DEF Proceed
  <2> HIDE DEF r
  <2>3. op[o].block \in Chain[best[op[o].node]]
    BY <1>1, <1>4, AtBranch DEF OnActiveChain
  <2>4. best[r.node] = r.tip => r.block \in Chain[r.tip]
    BY <2>1, <2>3
  <2>5. TxReadShape(r)
    BY <1>1, <1>2, <2>1, <2>4 DEF TxReadShape, BoundShape
  <2> QED
    BY <1>1, <1>2, <2>1, <2>2, <2>5, TxReadMoves
<1> QED
  BY <1>3, <1>4 DEF CanonicalHash

\* One more gettxout: its reply is true of the bound tip if the node has it.
LEMMA OutputReadKeeps ==
    ASSUME TypeOK, IndInv, NEW o \in Op, OutputRead(o)
    PROVE  IndInv'
<1>1. op[o] \in OpState /\ op[o].stage = "txout" /\ op[o].node \in Node
  BY DEF TypeOK, OpState, OutputRead
<1>2. o \in UtxoReads /\ UtxoReadShape(o, op[o]) /\ o \notin TipReads /\ o \notin TxReads
  BY <1>1, ShapeOf, OpGroups, GroupsDisjoint DEF TipReadShape, TxReadShape
<1> DEFINE old == op[o].replies
           reply == NextReply(o, op[o])
           R == Append(old, reply)
<1>3. /\ old \in Seq(Block \cup {NoBlock}) /\ reply \in Block \cup {NoBlock}
      /\ R \in Seq(Block \cup {NoBlock}) /\ Len(old) \in Nat
      /\ Len(R) = Len(old) + 1 /\ R[Len(old) + 1] = reply
      /\ \A i \in 1..Len(old) : R[i] = old[i]
  BY <1>1, NextReplyType DEF OpState
<1>4. Len(Wanted(o, op[o])) \in Nat /\ Len(old) < Len(Wanted(o, op[o]))
  BY <1>1, <1>2 DEF UtxoReadShape, Wanted
<1>5. best[op[o].node] = op[o].tip /\ best[op[o].node] \in Block =>
          (reply # NoBlock <=>
               <<op[o].tx, Wanted(o, op[o])[Len(old) + 1]>> \in Utxo(op[o].tip))
  BY BlockAssumption DEF NextReply, TxOut
<1>6. best[op[o].node] \in Block
  BY <1>1 DEF TypeOK
<1>7. best[op[o].node] = op[o].tip => Truthful(o, op[o])
  BY <1>1, <1>2 DEF UtxoReadShape
<1>8. CASE Abort(o)
  BY <1>1, <1>8, FailKeeps DEF Abort, Proceed
<1>9. ASSUME NEW r \in OpState,
             r.node = op[o].node, r.tip = op[o].tip, r.tx = op[o].tx,
             r.vout = op[o].vout, r.before = op[o].before, r.replies = R,
             \/ r.stage = "txout" /\ Len(R) < Len(Wanted(o, op[o]))
             \/ r.stage = "info" /\ ~(Len(R) < Len(Wanted(o, op[o]))),
             Proceed(o, r)
      PROVE  IndInv'
  <2>1. Wanted(o, r) = Wanted(o, op[o])
    BY <1>9 DEF Wanted
  <2>2. r.stage = "info" => Len(r.replies) = Len(Wanted(o, r))
    BY <1>3, <1>4, <1>9, <2>1
  <2>3. ASSUME best[r.node] = r.tip PROVE Truthful(o, r)
    <3> SUFFICES ASSUME NEW i \in 1..Len(R)
                 PROVE  R[i] # NoBlock <=> <<op[o].tx, Wanted(o, op[o])[i]>> \in Utxo(op[o].tip)
      BY <1>9, <2>1 DEF Truthful
    <3>1. CASE i \in 1..Len(old)
      BY <1>3, <1>7, <1>9, <2>3, <3>1 DEF Truthful
    <3>2. CASE i = Len(old) + 1
      BY <1>3, <1>5, <1>6, <1>9, <2>3, <3>2
    <3>3. i \in 1..Len(old) \/ i = Len(old) + 1
      BY <1>3
    <3> QED
      BY <3>1, <3>2, <3>3
  <2>4. BoundShape(r)
    BY <1>1, <1>2, <1>9 DEF UtxoReadShape, BoundShape
  <2>5. UtxoReadShape(o, r)
    BY <1>9, <2>1, <2>2, <2>3, <2>4 DEF UtxoReadShape
  <2>6. op' = [op EXCEPT ![o] = r] /\ UNCHANGED <<best, tips>>
    BY <1>9 DEF Proceed
  <2>7. r.stage # "done" /\ r.stage # "hash"
    BY <1>9
  <2>8. r.before \subseteq Done
    BY <1>9, ShapeOf
  <2>9. OpShape' /\ BeforeIsDone' /\ InclusionBackedInFlight'
    BY <1>1, <1>2, <2>5, <2>6, <2>7, <2>8, OneOperation
  <2> QED
    BY <2>6, <2>9 DEF IndInv, TipsLeftForMoreWork, LeftForMoreWork
<1>10. CASE ~Abort(o)
  <2> DEFINE r1 == [op[o] EXCEPT !.replies = R]
             r2 == [op[o] EXCEPT !.replies = R, !.stage = "info"]
  <2> HIDE DEF R
  <2>1. /\ r1 \in OpState /\ r1.stage = "txout"
        /\ r1.node = op[o].node /\ r1.tip = op[o].tip /\ r1.tx = op[o].tx
        /\ r1.vout = op[o].vout /\ r1.before = op[o].before /\ r1.replies = R
    BY <1>1, <1>3 DEF OpState, Stage
  <2>2. /\ r2 \in OpState /\ r2.stage = "info"
        /\ r2.node = op[o].node /\ r2.tip = op[o].tip /\ r2.tx = op[o].tx
        /\ r2.vout = op[o].vout /\ r2.before = op[o].before /\ r2.replies = R
    BY <1>1, <1>3 DEF OpState, Stage
  <2>3. \/ Len(R) < Len(Wanted(o, op[o])) /\ Proceed(o, r1)
        \/ ~(Len(R) < Len(Wanted(o, op[o]))) /\ Proceed(o, r2)
    BY <1>10 DEF OutputRead, R
  <2> HIDE DEF r1, r2
  <2> QED
    BY <1>9, <2>1, <2>2, <2>3
<1> QED
  BY <1>8, <1>10

\* An operation begins on a handle its node gave out.
LEMMA StartKeeps ==
    ASSUME TypeOK, IndInv, NEW o \in TxReads \cup UtxoReads, NEW n \in Node,
           NEW t \in tips, NEW tx \in Asked, NEW v \in Vout, Start(o, n, t, tx, v)
    PROVE  IndInv'
<1>1. o \in Op /\ op[o] \in OpState /\ op[o].stage = "idle" /\ o \notin TipReads
  BY OpGroups, GroupsDisjoint DEF TypeOK, Start, MayBegin
<1>2. t.block \in Block /\ t.node = n /\ LeftForMoreWork(n, t.block)
  BY DEF TypeOK, Tip, Start, Bound, IndInv, TipsLeftForMoreWork
<1> DEFINE s == IF o \in TxReads THEN "raw" ELSE "txout"
           r == Begun(op[o], s, n, t.block, tx, v, Done)
<1>3. s \in Stage /\ s \in {"raw", "txout"} /\ (s = "raw" <=> o \in TxReads)
  BY DEF Stage
<1> HIDE DEF s
<1>4. Done \in SUBSET Op
  BY DEF Done
<1>5. /\ r \in OpState /\ r.stage = s /\ r.node = n /\ r.tip = t.block
      /\ r.before = Done /\ r.replies = op[o].replies
  <2>1. r \in OpState
    BY <1>1, <1>2, <1>3, <1>4, BegunType
  <2>2. r.stage = s /\ r.node = n /\ r.tip = t.block /\ r.before = Done
    BY <1>1 DEF Begun, OpState
  <2>3. r.replies = op[o].replies
    BY <1>1 DEF Begun, OpState
  <2> QED
    BY <2>1, <2>2, <2>3
<1>6. op' = [op EXCEPT ![o] = r] /\ UNCHANGED <<best, tips>>
  BY DEF Start, s
<1> HIDE DEF r
<1>7. BoundShape(r)
  BY <1>2, <1>5 DEF BoundShape
<1>8. o \in TxReads => TxReadShape(r)
  BY <1>3, <1>5, <1>7 DEF TxReadShape
<1>9. ASSUME o \in UtxoReads PROVE UtxoReadShape(o, r)
  <2>1. r.replies = << >>
    BY <1>1, <1>5, <1>9, ShapeOf DEF UtxoReadShape
  <2>2. r.stage = "txout"
    BY <1>3, <1>5, <1>9, GroupsDisjoint
  <2>3. Len(r.replies) = 0 /\ 0 < Len(Wanted(o, r))
    BY <2>1 DEF Wanted
  <2>4. Truthful(o, r)
    BY <2>3 DEF Truthful
  <2> QED
    BY <2>2, <2>3, <2>4, <1>7 DEF UtxoReadShape
<1>10. OpShape' /\ BeforeIsDone' /\ InclusionBackedInFlight'
  BY <1>1, <1>3, <1>5, <1>6, <1>8, <1>9, OneOperation
<1> QED
  BY <1>6, <1>10 DEF IndInv, TipsLeftForMoreWork, LeftForMoreWork

LEMMA StartTipReadKeeps ==
    ASSUME TypeOK, IndInv, NEW o \in TipReads, NEW n \in Node, StartTipRead(o, n)
    PROVE  IndInv'
<1>1. /\ o \in Op /\ op[o] \in OpState /\ op[o].stage = "idle"
      /\ o \notin TxReads /\ o \notin UtxoReads
  BY OpGroups, GroupsDisjoint DEF TypeOK, StartTipRead, MayBegin
<1> DEFINE r == [op[o] EXCEPT !.stage = "info", !.node = n]
<1>2. "info" \in Stage
  BY DEF Stage
<1>3. r \in OpState /\ r.stage = "info" /\ r.before = op[o].before
  BY <1>1, <1>2 DEF OpState
<1>4. op' = [op EXCEPT ![o] = r] /\ UNCHANGED <<best, tips>>
  BY DEF StartTipRead
<1> HIDE DEF r
<1>5. TipReadShape(r)
  BY <1>3 DEF TipReadShape
<1>6. OpShape' /\ BeforeIsDone' /\ InclusionBackedInFlight'
  BY <1>1, <1>3, <1>4, <1>5, ShapeOf, OneOperation
<1> QED
  BY <1>4, <1>6 DEF IndInv, TipsLeftForMoreWork, LeftForMoreWork

LEMMA StepKeeps ==
    ASSUME TypeOK, IndInv, NEW o \in Op, Step(o)
    PROVE  IndInv'
<1>1. CASE RpcFails(o)
  BY <1>1, FailKeeps DEF RpcFails, Calling, Fail
<1>2. CASE TipNotCanonical(o)
  <2>1. op[o].stage # "done"
    BY <1>2 DEF TipNotCanonical
  <2> QED
    BY <1>2, <2>1, FailKeeps DEF TipNotCanonical, Abort, Proceed
<1> QED
  BY <1>1, <1>2, ChainInfoKeeps, TipAuthenticatedKeeps, TipRecheckedKeeps,
     RawTransactionKeeps, BlockHeaderKeeps, CanonicalHashKeeps, OutputReadKeeps DEF Step

LEMMA NodeStep ==
    ASSUME TypeOK, IndInv, [Next]_vars
    PROVE  IndInv'
<1>1. CASE UNCHANGED vars
  <2>1. best' = best /\ tips' = tips /\ op' = op
    BY <1>1 DEF vars
  <2>2. TipsLeftForMoreWork'
    BY <2>1 DEF IndInv, TipsLeftForMoreWork, LeftForMoreWork
  <2>3. OpShape'
    BY <2>1 DEF IndInv, OpShape, TipReadShape, TxReadShape, UtxoReadShape, BoundShape,
                LeftForMoreWork, Truthful, Wanted
  <2>4. BeforeIsDone' /\ InclusionBackedInFlight'
    BY <2>1 DEF IndInv, BeforeIsDone, Done, InclusionBackedInFlight
  <2> QED
    BY <2>2, <2>3, <2>4 DEF IndInv
<1>2. ASSUME NEW o \in TxReads \cup UtxoReads, NEW n \in Node, NEW t \in tips,
             StartWithForeignTip(o, n, t)
      PROVE  IndInv'
  <2>1. o \in Op /\ op[o].stage # "done"
    BY <1>2, OpGroups DEF StartWithForeignTip, MayBegin
  <2> QED
    BY <1>2, <2>1, FailKeeps DEF StartWithForeignTip, Fail
<1> QED
  BY <1>1, <1>2, SelectTipKeeps, StartTipReadKeeps, StartKeeps, StepKeeps
     DEF Next, Finished

\* In every reachable state a node has left a given-out tip only for more work,
\* and every operation has the shape this implies.
THEOREM NodeInvariant == Spec => [](TypeOK /\ IndInv)
<1>1. Init => IndInv
  <2> SUFFICES ASSUME Init PROVE IndInv
    OBVIOUS
  <2>1. /\ tips = {}
        /\ \A o \in Op : op[o].stage = "idle" /\ op[o].replies = << >> /\ op[o].before = {}
    BY DEF Init
  <2>2. TipsLeftForMoreWork /\ BeforeIsDone /\ InclusionBackedInFlight
    BY <2>1, OpGroups DEF TipsLeftForMoreWork, BeforeIsDone, InclusionBackedInFlight
  <2>3. OpShape
    BY <2>1, OpGroups DEF OpShape, TipReadShape, TxReadShape, UtxoReadShape, BoundShape
  <2> QED
    BY <2>2, <2>3 DEF IndInv
<1>2. TypeOK /\ IndInv /\ [Next]_vars => IndInv'
  BY NodeStep
<1> QED
  BY <1>1, <1>2, NodeTypes, PTL DEF Spec

\* For every block tree: what a completed output-state certificate says is true
\* of the confirmed UTXO set at the block it names.
THEOREM CertificatesAreSnapshots == Spec => []CertificateIsSnapshot
<1>1. IndInv => CertificateIsSnapshot
  BY DEF IndInv, OpShape, UtxoReadShape, CertificateIsSnapshot
<1> QED
  BY <1>1, NodeInvariant, PTL

\* For every block tree: an inclusion certificate is right while the node still
\* has the tip it is bound to.
THEOREM InclusionsHold == Spec => []InclusionHoldsAtUnmovedTip
<1>1. IndInv => InclusionHoldsAtUnmovedTip
  BY DEF IndInv, OpShape, TxReadShape, InclusionHoldsAtUnmovedTip
<1> QED
  BY <1>1, NodeInvariant, PTL

\* For every block tree: an output-state read begun after an inclusion and
\* completed on its tip proves the inclusion an ancestor of that tip.
THEOREM ReadsConfirmInclusions == Spec => []ReadAfterInclusionConfirmsIt
<1>1. IndInv => ReadAfterInclusionConfirmsIt
  BY DEF IndInv, InclusionBackedInFlight, ReadAfterInclusionConfirmsIt
<1> QED
  BY <1>1, NodeInvariant, PTL
=============================================================================
