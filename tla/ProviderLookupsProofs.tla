----------------------- MODULE ProviderLookupsProofs -----------------------
(***************************************************************************)
(* Proofs about ProviderLookups for every block tree, every number of      *)
(* endpoints and every set of operations: the type invariant, and what the *)
(* evidence of a finished lookup says.                                     *)
(***************************************************************************)
EXTENDS ProviderLookups, FiniteSetTheorems, TLAPS

-----------------------------------------------------------------------------
(* Types *)

\* The next request of a well-typed operation is well typed.
LEMMA RequestType ==
    ASSUME NEW r \in OpState, NEW s \in Stage
    PROVE  Request(r, s) \in OpState
<1>1. 1 \in Slot
  BY SlotAssumption DEF Slot
<1> QED
  BY <1>1 DEF Request, OpState

\* A finished operation is well typed.
LEMMA VerdictType ==
    ASSUME TypeOK, NEW o \in Op, NEW r \in OpState, NEW s \in Status
    PROVE  Verdict(o, r, s) \in OpState
<1>1. Asked(o) \in View
  BY DEF TypeOK, OpState, Asked
<1>2. << >> \in Seq(Tx) /\ "done" \in Stage
  BY DEF Stage
<1> QED
  BY <1>1, <1>2 DEF Verdict, OpState

\* What follows the end of a spend scan is well typed.
LEMMA SpendVerdictType ==
    ASSUME TypeOK, NEW o \in Op, NEW r \in OpState, NEW s \in SpendStatus
    PROVE  SpendVerdict(o, r, s) \in OpState
<1>1. s \in Status /\ "provider-ambiguous" \in Status /\ "spent" \in Status
  BY DEF Status
<1>2. "utxoSource" \in Stage
  BY DEF Stage
<1>3. /\ Verdict(o, r, s) \in OpState
      /\ Verdict(o, r, "provider-ambiguous") \in OpState
      /\ Verdict(o, r, "spent") \in OpState
      /\ Request(r, "utxoSource") \in OpState
  BY <1>1, <1>2, VerdictType, RequestType
<1>4. CASE o \notin Fundings
  BY <1>3, <1>4 DEF SpendVerdict
<1>5. CASE o \in Fundings
  BY <1>3, <1>5 DEF SpendVerdict, SpendStatus
<1> QED
  BY <1>4, <1>5

\* What the location evidence may say.
LEMMA LocationStatuses ==
    ASSUME NEW r, NEW there \in BOOLEAN, r.found \in BOOLEAN
    PROVE  /\ LocationStatus(r, there) \in
                 {"not-located", "unavailable", "located-unconfirmed", "located-confirmed"}
           /\ LocationStatus(r, there) = "located-confirmed" =>
                 there /\ r.depth # Absent /\ r.depth # 0 /\ r.block # NoBlock
  BY DEF LocationStatus

\* What follows the output evidence is well typed.
LEMMA PlacementType ==
    ASSUME TypeOK, NEW o \in Op, NEW r \in OpState, NEW there \in BOOLEAN
    PROVE  Placement(o, r, there) \in OpState
<1>1. /\ "output-missing" \in Status /\ "verified-output-exists" \in Status
      /\ "not-found" \in Status /\ "source" \in Stage
  BY DEF Status, SpendStatus, Stage
<1>2. LocationStatus(r, there) \in Status
  BY LocationStatuses DEF Status, SpendStatus, OpState
<1>3. /\ Verdict(o, r, "output-missing") \in OpState
      /\ Verdict(o, r, "verified-output-exists") \in OpState
      /\ Verdict(o, r, "not-found") \in OpState
      /\ Verdict(o, r, LocationStatus(r, there)) \in OpState
      /\ Request(r, "source") \in OpState
  BY <1>1, <1>2, VerdictType, RequestType
<1>4. CASE o \in Fundings
  BY <1>3, <1>4 DEF Placement
<1>5. CASE o \in OutputReads
  BY <1>3, <1>5, OpKinds DEF Placement
<1>6. CASE o \notin Fundings /\ o \notin OutputReads
  BY <1>3, <1>6 DEF Placement
<1> QED
  BY <1>4, <1>5, <1>6

\* What follows a request that failed everywhere is well typed.
LEMMA RaisedType ==
    ASSUME TypeOK, NEW o \in Op, NEW missing \in BOOLEAN
    PROVE  Raised(o, missing) \in OpState
<1> DEFINE r == op[o]
<1>1. r \in OpState
  BY DEF TypeOK
<1>2. /\ "transaction-missing" \in Status /\ "provider-unavailable" \in Status
      /\ "unavailable" \in Status /\ "not-found" \in SpendStatus
      /\ "unavailable" \in SpendStatus /\ "output" \in Stage
  BY DEF Status, SpendStatus, Stage
<1>3. /\ Verdict(o, r, "transaction-missing") \in OpState
      /\ Verdict(o, r, "provider-unavailable") \in OpState
      /\ Verdict(o, r, "unavailable") \in OpState
      /\ Request(r, "output") \in OpState
      /\ Placement(o, r, FALSE) \in OpState
      /\ SpendVerdict(o, r, "not-found") \in OpState
      /\ SpendVerdict(o, r, "unavailable") \in OpState
  BY <1>1, <1>2, VerdictType, RequestType, PlacementType, SpendVerdictType
<1> QED
  BY <1>3 DEF Raised

\* What follows the end of a history is well typed.
LEMMA ScannedType ==
    ASSUME TypeOK, NEW o \in Op, NEW r \in OpState
    PROVE  Scanned(o, r) \in OpState
<1>1. /\ "spent-outpoint" \in SpendStatus /\ "ambiguous" \in SpendStatus
      /\ "unspent" \in Stage
  BY DEF SpendStatus, Stage
<1>2. /\ SpendVerdict(o, r, "spent-outpoint") \in OpState
      /\ SpendVerdict(o, r, "ambiguous") \in OpState
      /\ Request(r, "unspent") \in OpState
  BY <1>1, SpendVerdictType, RequestType
<1> QED
  BY <1>2 DEF Scanned

\* One operation's record is replaced.
LEMMA SetType ==
    ASSUME TypeOK, NEW o \in Op, NEW r \in OpState, Set(o, r)
    PROVE  TypeOK'
  BY DEF TypeOK, Set

\* A transaction read from a history is a transaction.
LEMMA HistoryType ==
    ASSUME NEW w, NEW s, NEW q \in Orders(History(w, s)), w \in View
    PROVE  /\ q \in Seq(Tx)
           /\ \A i \in 1..Len(q) : q[i] \in Known(w)
<1>1. History(w, s) \subseteq Known(w) /\ Known(w) \subseteq Tx
  BY TxAssumption, BlockAssumption DEF History, Known, View, Confirmed
<1>2. IsFiniteSet(History(w, s))
  BY <1>1, FS_Subset, HistoriesAreFinite
<1>3. Cardinality(History(w, s)) \in Nat
  BY <1>2, FS_CardinalityType
<1>4. q \in [1..Cardinality(History(w, s)) -> History(w, s)]
  BY DEF Orders
<1> QED
  BY <1>1, <1>3, <1>4

\* Depth and block of an answer.
LEMMA PlacementsType ==
    ASSUME NEW w \in View, NEW t, NEW p \in Placements(w, t)
    PROVE  /\ p.depth \in Nat \cup {Absent} /\ p.block \in Block \cup {NoBlock}
           /\ p.depth # Absent /\ p.depth # 0 =>
                 /\ p.block \in Chain[w.tip] /\ t \in Mines[p.block]
                 /\ p.depth = Height[w.tip] - Height[p.block] + 1
<1>1. CASE t \in Confirmed(w.tip)
  <2>1. PICK b \in Chain[w.tip] : t \in Mines[b]
               /\ p = [depth |-> Height[w.tip] - Height[b] + 1, block |-> b]
    BY <1>1 DEF Placements
  <2>2. b \in Block /\ Height[b] <= Height[w.tip] /\ Height[b] \in Nat /\ Height[w.tip] \in Nat
    BY <2>1, BlockAssumption DEF View
  <2> QED
    BY <2>1, <2>2
<1>2. CASE t \notin Confirmed(w.tip)
  <2>1. \/ \E d \in {Absent, 0} : p = [depth |-> d, block |-> NoBlock]
        \/ \E b \in Block : p = [depth |-> 0, block |-> b]
    BY <1>2 DEF Placements
  <2> QED
    BY <2>1
<1> QED
  BY <1>1, <1>2

\* Asking the next endpoint of the list stays within it.
LEMMA NextSlotType ==
    ASSUME TypeOK, NEW o \in Op, HasNextSlot(o), NEW missing \in BOOLEAN
    PROVE  /\ [op[o] EXCEPT !.slot = NextSlot(o)] \in OpState
           /\ [op[o] EXCEPT !.slot = NextSlot(o), !.missing = @ \/ missing] \in OpState
<1>1. op[o] \in OpState
  BY DEF TypeOK
<1>2. op[o].slot + 1 \in Slot
  BY <1>1, SlotAssumption DEF HasNextSlot, Slot, OpState
<1>3. (op[o].missing \/ missing) \in BOOLEAN
  OBVIOUS
<1> QED
  BY <1>1, <1>2, <1>3 DEF NextSlot, OpState

\* Every answer and every failure leaves a well-typed operation.
LEMMA StepType ==
    ASSUME TypeOK, IndInv, NEW o \in Op, Step(o)
    PROVE  TypeOK'
<1>1. op[o] \in OpState /\ Asked(o) \in View
  BY DEF TypeOK, OpState, Asked
<1>2. Target[o][1] \in Tx
  BY TargetAssumption
<1>3. CASE \E missing \in BOOLEAN : EndpointFails(o, missing)
  <2>1. PICK missing \in BOOLEAN : EndpointFails(o, missing)
    BY <1>3
  <2>2. (op[o].missing \/ missing) \in BOOLEAN
    OBVIOUS
  <2>3. Raised(o, op[o].missing \/ missing) \in OpState
    BY <2>2, RaisedType
  <2>4. (IF HasNextSlot(o)
         THEN [op[o] EXCEPT !.slot = NextSlot(o), !.missing = @ \/ missing]
         ELSE Raised(o, op[o].missing \/ missing)) \in OpState
    BY <2>3, NextSlotType
  <2> QED
    BY <2>1, <2>4, SetType DEF EndpointFails
<1>4. CASE Unparsable(o)
  BY <1>4, RaisedType, SetType DEF Unparsable
<1>5. CASE RawTransaction(o)
  <2>1. "output-missing" \in Status /\ "output" \in Stage
    BY DEF Status, Stage
  <2>2. [Request(op[o], "output") EXCEPT !.found = TRUE] \in OpState
    BY <1>1, <2>1, RequestType DEF OpState
  <2>3. Verdict(o, op[o], "output-missing") \in OpState
    BY <1>1, <2>1, VerdictType
  <2>4. (IF o \in Fundings /\ ~HasOutput(o) THEN Verdict(o, op[o], "output-missing")
         ELSE [Request(op[o], "output") EXCEPT !.found = TRUE]) \in OpState
    BY <2>2, <2>3
  <2> QED
    BY <1>5, <2>4, SetType DEF RawTransaction
<1>6. CASE OutputEvidence(o)
  <2>1. PICK p \in Placements(Asked(o), Target[o][1]) :
               Set(o, Placement(o, [op[o] EXCEPT !.depth = p.depth, !.block = p.block],
                                HasOutput(o)))
    BY <1>6 DEF OutputEvidence
  <2>2. [op[o] EXCEPT !.depth = p.depth, !.block = p.block] \in OpState
    BY <1>1, <2>1, PlacementsType DEF OpState
  <2>3. HasOutput(o) \in BOOLEAN
    BY DEF HasOutput
  <2>4. Placement(o, [op[o] EXCEPT !.depth = p.depth, !.block = p.block], HasOutput(o))
           \in OpState
    BY <2>2, <2>3, PlacementType
  <2> QED
    BY <2>1, <2>4, SetType
<1>7. CASE Mismatch(o)
  <2>1. (IF o \in Fundings THEN "mismatch" ELSE "not-found") \in Status
    BY DEF Status, SpendStatus
  <2>2. Verdict(o, op[o], IF o \in Fundings THEN "mismatch" ELSE "not-found") \in OpState
    BY <1>1, <2>1, VerdictType
  <2> QED
    BY <1>7, <2>2, SetType DEF Mismatch
<1>8. CASE SourceOutput(o)
  <2>1. "history" \in Stage /\ "not-found" \in SpendStatus
    BY DEF Stage, SpendStatus
  <2>2. (IF HasOutput(o) THEN Request(op[o], "history")
         ELSE SpendVerdict(o, op[o], "not-found")) \in OpState
    BY <1>1, <2>1, RequestType, SpendVerdictType
  <2> QED
    BY <1>8, <2>2, SetType DEF SourceOutput
<1>9. CASE ScriptHistory(o)
  <2>1. PICK q \in Orders(History(Asked(o), TargetScript(o))) :
               Set(o, [Request(op[o], IF q = << >> THEN "unspent" ELSE "scan")
                          EXCEPT !.pending = q])
    BY <1>9 DEF ScriptHistory
  <2>2. (IF q = << >> THEN "unspent" ELSE "scan") \in Stage
    BY DEF Stage
  <2>3. Request(op[o], IF q = << >> THEN "unspent" ELSE "scan") \in OpState
    BY <1>1, <2>2, RequestType
  <2>4. q \in Seq(Tx)
    BY <1>1, HistoryType
  <2>5. [Request(op[o], IF q = << >> THEN "unspent" ELSE "scan")
            EXCEPT !.pending = q] \in OpState
    BY <2>3, <2>4 DEF OpState
  <2> QED
    BY <2>1, <2>5, SetType
<1>10. CASE HistoryTransaction(o)
  <2> DEFINE t == Head(op[o].pending)
             r == [Request(op[o], "scan") EXCEPT
                     !.pending = Tail(@),
                     !.spenders = IF SpendsTarget(o, t) THEN @ \cup {t} ELSE @]
  <2>1. "scan" \in Stage
    BY DEF Stage
  <2>2. Request(op[o], "scan") \in OpState
    BY <1>1, <2>1, RequestType
  <2>3. op[o].pending # << >>
    BY <1>10 DEF HistoryTransaction, Located, IndInv, ScanShape
  <2>4. t \in Tx /\ Tail(op[o].pending) \in Seq(Tx)
    BY <1>1, <2>3 DEF OpState
  <2>5. r \in OpState
    BY <2>2, <2>4 DEF OpState, Request
  <2>6. (IF r.pending = << >> THEN Scanned(o, r) ELSE r) \in OpState
    BY <2>5, ScannedType
  <2> QED
    BY <1>10, <2>6, SetType DEF HistoryTransaction
<1>11. CASE ScriptUnspent(o)
  <2>1. "unspent" \in SpendStatus /\ "unavailable" \in SpendStatus
    BY DEF SpendStatus
  <2>2. SpendVerdict(o, op[o], IF IsUnspent(Asked(o), Target[o])
                                THEN "unspent" ELSE "unavailable") \in OpState
    BY <1>1, <2>1, SpendVerdictType
  <2> QED
    BY <1>11, <2>2, SetType DEF ScriptUnspent
<1>12. CASE UtxoSource(o)
  <2>1. "utxoList" \in Stage
    BY DEF Stage
  <2> QED
    BY <1>1, <1>12, <2>1, RequestType, SetType DEF UtxoSource
<1>13. CASE UtxoEvidence(o)
  <2>1. (IF IsUnspent(Asked(o), Target[o]) /\ StatusAgrees(o)
         THEN "accepted" ELSE "provider-ambiguous") \in Status
    BY DEF Status
  <2>2. Verdict(o, op[o], IF IsUnspent(Asked(o), Target[o]) /\ StatusAgrees(o)
                          THEN "accepted" ELSE "provider-ambiguous") \in OpState
    BY <1>1, <2>1, VerdictType
  <2> QED
    BY <1>13, <2>2, SetType DEF UtxoEvidence
<1>14. CASE \E lost \in BOOLEAN : Broadcast(o, lost)
  <2>1. PICK lost \in BOOLEAN : Broadcast(o, lost)
    BY <1>14
  <2> DEFINE w == [Asked(o) EXCEPT !.mempool = @ \cup {Target[o][1]}]
  <2>2. w \in View
    BY <1>1, <1>2 DEF View
  <2>3. "submitted" \in Status
    BY DEF Status
  <2>4. Verdict(o, op[o], "submitted") \in OpState
    BY <1>1, <2>3, VerdictType
  <2>5. [Verdict(o, op[o], "submitted") EXCEPT !.answered = w] \in OpState
    BY <2>2, <2>4 DEF OpState
  <2>6. op' = [op EXCEPT ![o] =
                 CASE ~lost -> [Verdict(o, op[o], "submitted") EXCEPT !.answered = w]
                   [] lost /\ HasNextSlot(o) -> [op[o] EXCEPT !.slot = NextSlot(o)]
                   [] OTHER -> Raised(o, FALSE)]
    BY <2>1 DEF Broadcast, TypeOK
  <2>7. (CASE ~lost -> [Verdict(o, op[o], "submitted") EXCEPT !.answered = w]
           [] lost /\ HasNextSlot(o) -> [op[o] EXCEPT !.slot = NextSlot(o)]
           [] OTHER -> Raised(o, FALSE)) \in OpState
    BY <2>5, NextSlotType, RaisedType
  <2>8. view' = [view EXCEPT ![op[o].slot] = w]
    BY <2>1 DEF Broadcast
  <2> HIDE DEF w
  <2> QED
    BY <2>2, <2>6, <2>7, <2>8 DEF TypeOK
<1>15. CASE NoBytes(o)
  BY <1>15, RaisedType, SetType DEF NoBytes
<1> QED
  BY <1>3, <1>4, <1>5, <1>6, <1>7, <1>8, <1>9, <1>10, <1>11, <1>12, <1>13, <1>14, <1>15
     DEF Step

\* The first state is well typed.
LEMMA InitType ==
    ASSUME Init
    PROVE  TypeOK
<1>1. 1 \in Slot
  BY SlotAssumption DEF Slot
<1>2. view[1] \in View
  BY <1>1 DEF Init
<1>3. /\ "idle" \in Stage /\ "none" \in Status /\ << >> \in Seq(Tx)
  BY DEF Stage, Status
<1> QED
  BY <1>1, <1>2, <1>3 DEF Init, TypeOK, OpState

\* Every step leaves the operations and the views well typed.
LEMMA NextType ==
    ASSUME TypeOK, IndInv, [Next]_vars
    PROVE  TypeOK'
<1>1. ASSUME NEW s \in Slot, NEW w \in View, EndpointMoves(s, w) PROVE TypeOK'
  BY <1>1 DEF EndpointMoves, TypeOK
<1>2. ASSUME NEW o \in Op, Begin(o) PROVE TypeOK'
  <2>1. FirstStage(o) \in Stage /\ op[o] \in OpState
    BY DEF FirstStage, Stage, TypeOK
  <2>2. Request(op[o], FirstStage(o)) \in OpState
    BY <2>1, RequestType
  <2> QED
    BY <1>2, <2>2, SetType DEF Begin
<1>3. ASSUME NEW o \in Op, Refuse(o) PROVE TypeOK'
  <2>1. "refused" \in Status /\ "done" \in Stage /\ op[o] \in OpState
    BY DEF Status, Stage, TypeOK
  <2>2. [op[o] EXCEPT !.stage = "done", !.status = "refused"] \in OpState
    BY <2>1 DEF OpState
  <2> QED
    BY <1>3, <2>2, SetType DEF Refuse
<1>4. ASSUME UNCHANGED vars PROVE TypeOK'
  BY <1>4 DEF vars, TypeOK
<1> QED
  BY <1>1, <1>2, <1>3, <1>4, StepType DEF Next, Finished

-----------------------------------------------------------------------------
(* The invariant, one operation at a time *)

\* What IndInv says of one operation's record.
Sound(o, r) ==
    /\ ScanShape(o, r)
    /\ r.status \in {"unspent", "accepted"} => IsUnspent(r.answered, Target[o])
    /\ r.status = "spent-outpoint" =>
          \E t \in Tx : r.spenders = {t} /\ Target[o] \in Spends[t]
    /\ r.status # "ambiguous"
    /\ o \in Fundings /\ r.status = "accepted" =>
          IF r.depth \in {Absent, 0} THEN Target[o][1] \in r.answered.mempool
          ELSE Target[o][1] \in Confirmed(r.answered.tip)
    /\ o \in Locations /\ r.status = "located-confirmed" =>
          /\ r.block \in Chain[r.answered.tip]
          /\ Target[o][1] \in Mines[r.block]
          /\ r.depth = Height[r.answered.tip] - Height[r.block] + 1

\* The invariant is that of the views and that of every operation.
LEMMA IndInvByOp ==
    IndInv <=> /\ \A s \in Slot : Consistent(view[s])
               /\ \A o \in Op : Sound(o, op[o])
<1>1. Fundings \subseteq Op /\ Locations \subseteq Op
  BY DEF Op
<1> QED
  BY <1>1 DEF IndInv, Sound, UnspentAtVerdict, SpentNamesSpender, ScanIsUnambiguous,
              FundingStatusIsCurrent, LocationIsPlaced

Early == {"idle", "raw", "output", "source", "history", "broadcast"}

\* Evidence with any of these verdicts claims nothing of the chain.
Harmless == Status \ {"none", "unspent", "accepted", "spent-outpoint", "ambiguous",
                       "located-confirmed"}

\* Asking again keeps what the scan has matched.
LEMMA RequestKeeps ==
    ASSUME NEW o \in Op, NEW r \in OpState, OneSpender(o, r), r.status = "none",
           NEW s \in Stage \ {"done", "scan"}, s \in Early => r.spenders = {}
    PROVE  Sound(o, Request(r, s))
<1>1. /\ Request(r, s).stage = s /\ Request(r, s).status = r.status
      /\ Request(r, s).spenders = r.spenders /\ Request(r, s).pending = r.pending
  BY DEF Request, OpState
<1>2. OneSpender(o, Request(r, s))
  BY <1>1 DEF OneSpender
<1>3. ScanShape(o, Request(r, s))
  BY <1>1, <1>2 DEF ScanShape, Early
<1> QED
  BY <1>1, <1>3 DEF Sound

\* Finishing keeps the shape of the scan.
LEMMA VerdictShape ==
    ASSUME NEW o \in Op, NEW r \in OpState, OneSpender(o, r),
           NEW status \in Status \ {"none"}
    PROVE  ScanShape(o, Verdict(o, r, status))
<1> DEFINE v == Verdict(o, r, status)
<1>1. v.stage = "done" /\ v.status = status /\ v.pending = << >> /\ v.spenders = r.spenders
  BY DEF Verdict, OpState
<1> HIDE DEF v
<1>2. {v.pending[i] : i \in 1..Len(v.pending)} = {}
  BY <1>1
<1>3. OneSpender(o, v)
  BY <1>1, <1>2 DEF OneSpender
<1>4. ScanShape(o, v)
  BY <1>1, <1>3 DEF ScanShape
<1> QED
  BY <1>4 DEF v

\* Finishing with a verdict that claims nothing.
LEMMA VerdictKeeps ==
    ASSUME NEW o \in Op, NEW r \in OpState, OneSpender(o, r), NEW status \in Harmless
    PROVE  Sound(o, Verdict(o, r, status))
<1>1. ScanShape(o, Verdict(o, r, status))
  BY VerdictShape DEF Harmless
<1>2. Verdict(o, r, status).status = status
  BY DEF Verdict, OpState
<1> QED
  BY <1>1, <1>2 DEF Sound, Harmless

\* What a scan's result leads to, for the results that need no evidence.
LEMMA SpendVerdictKeeps ==
    ASSUME NEW o \in Op, NEW r \in OpState, OneSpender(o, r),
           NEW status \in {"not-found", "unavailable"}
    PROVE  Sound(o, SpendVerdict(o, r, status))
<1>1. status \in Harmless /\ "spent" \in Harmless
  BY DEF Harmless, Status, SpendStatus
<1>2. Sound(o, Verdict(o, r, status)) /\ Sound(o, Verdict(o, r, "spent"))
  BY <1>1, VerdictKeeps
<1> QED
  BY <1>2 DEF SpendVerdict

\* A scan that matched a transaction names it.
LEMMA SpentKeeps ==
    ASSUME NEW o \in Op, NEW r \in OpState, OneSpender(o, r), Cardinality(r.spenders) = 1
    PROVE  Sound(o, SpendVerdict(o, r, "spent-outpoint"))
<1>1. PICK t : r.spenders = {t}
  BY FS_Singleton DEF OneSpender
<1>2. t \in Tx /\ Target[o] \in Spends[t]
  BY <1>1 DEF OneSpender, OpState
<1>3. "spent" \in Harmless /\ "spent-outpoint" \in Status \ {"none"}
  BY DEF Harmless, Status, SpendStatus
<1>4. Sound(o, Verdict(o, r, "spent"))
  BY <1>3, VerdictKeeps
<1>5. ScanShape(o, Verdict(o, r, "spent-outpoint"))
  BY <1>3, VerdictShape
<1> DEFINE v == Verdict(o, r, "spent-outpoint")
<1>6. v.status = "spent-outpoint" /\ v.spenders = r.spenders
  BY DEF Verdict, OpState
<1> HIDE DEF v
<1>7. Sound(o, v)
  BY <1>1, <1>2, <1>5, <1>6 DEF Sound, v
<1> QED
  BY <1>4, <1>7 DEF SpendVerdict, v

\* The end of the history: one match at most, so the result is never ambiguous.
LEMMA ScannedKeeps ==
    ASSUME NEW o \in Op, NEW r \in OpState, OneSpender(o, r), r.status = "none"
    PROVE  Sound(o, Scanned(o, r))
<1>1. \A t, u \in r.spenders : t = u
  BY DEF OneSpender
<1>2. r.spenders = {} \/ \E t : r.spenders = {t}
  BY <1>1
<1>3. Cardinality(r.spenders) = 0 \/ Cardinality(r.spenders) = 1
  BY <1>2, FS_EmptySet, FS_Singleton
<1>4. "unspent" \in Stage \ {"done", "scan"} /\ "unspent" \notin Early
  BY DEF Stage, Early
<1>5. Sound(o, Request(r, "unspent"))
  BY <1>4, RequestKeeps
<1>6. CASE Cardinality(r.spenders) = 1
  BY <1>6, SpentKeeps DEF Scanned
<1>7. CASE Cardinality(r.spenders) = 0
  BY <1>5, <1>7 DEF Scanned
<1> QED
  BY <1>3, <1>6, <1>7

\* A listed output: unspent at the endpoint asked, or the closing look of funding.
LEMMA UnspentKeeps ==
    ASSUME NEW o \in Op, NEW r \in OpState, OneSpender(o, r), r.status = "none",
           IsUnspent(Asked(o), Target[o])
    PROVE  Sound(o, SpendVerdict(o, r, "unspent"))
<1>1. /\ "unspent" \in Status \ {"none"} /\ "utxoSource" \notin Early
      /\ "utxoSource" \in Stage \ {"done", "scan"}
  BY DEF Status, SpendStatus, Stage, Early
<1>2. ScanShape(o, Verdict(o, r, "unspent"))
  BY <1>1, VerdictShape
<1>3. Sound(o, Verdict(o, r, "unspent"))
  <2>1. /\ Verdict(o, r, "unspent").status = "unspent"
        /\ Verdict(o, r, "unspent").answered = Asked(o)
    BY DEF Verdict, OpState
  <2> QED
    BY <1>2, <2>1 DEF Sound
<1>4. Sound(o, Request(r, "utxoSource"))
  BY <1>1, RequestKeeps
<1> QED
  BY <1>3, <1>4 DEF SpendVerdict

\* The output evidence, with the depth and block of an answer of the endpoint
\* asked when it was found there.
LEMMA PlacementKeeps ==
    ASSUME NEW o \in Op, NEW r \in OpState, OneSpender(o, r), r.status = "none",
           r.spenders = {}, NEW there \in BOOLEAN,
           there /\ r.depth # Absent /\ r.depth # 0 =>
              /\ r.block \in Chain[Asked(o).tip] /\ Target[o][1] \in Mines[r.block]
              /\ r.depth = Height[Asked(o).tip] - Height[r.block] + 1
    PROVE  Sound(o, Placement(o, r, there))
<1>1. /\ "output-missing" \in Harmless /\ "verified-output-exists" \in Harmless
      /\ "not-found" \in Harmless /\ "source" \in Stage \ {"done", "scan"}
  BY DEF Harmless, Status, SpendStatus, Stage
<1>2. /\ Sound(o, Verdict(o, r, "output-missing"))
      /\ Sound(o, Verdict(o, r, "verified-output-exists"))
      /\ Sound(o, Verdict(o, r, "not-found"))
      /\ Sound(o, Request(r, "source"))
  BY <1>1, VerdictKeeps, RequestKeeps
<1> DEFINE l == LocationStatus(r, there)
<1>3. /\ l \in {"not-located", "unavailable", "located-unconfirmed", "located-confirmed"}
      /\ l = "located-confirmed" => there /\ r.depth # Absent /\ r.depth # 0
  BY LocationStatuses DEF OpState
<1> HIDE DEF l
<1>4. l \in Status \ {"none"} /\ l \notin {"unspent", "accepted", "spent-outpoint", "ambiguous"}
  BY <1>3 DEF Status, SpendStatus
<1>5. ScanShape(o, Verdict(o, r, l))
  BY <1>4, VerdictShape
<1>6. Sound(o, Verdict(o, r, l))
  <2> DEFINE v == Verdict(o, r, l)
  <2>1. v.status = l /\ v.answered = Asked(o) /\ v.depth = r.depth /\ v.block = r.block
    BY DEF Verdict, OpState
  <2>2. ScanShape(o, v)
    BY <1>5
  <2> HIDE DEF v
  <2>3. Sound(o, v)
    BY <1>3, <1>4, <2>1, <2>2 DEF Sound
  <2> QED
    BY <2>3 DEF v
<1>7. CASE o \in Fundings
  BY <1>2, <1>7 DEF Placement
<1>8. CASE o \in OutputReads
  BY <1>2, <1>8, OpKinds DEF Placement
<1>9. CASE o \notin Fundings /\ o \notin OutputReads
  BY <1>6, <1>9 DEF Placement, l
<1> QED
  BY <1>7, <1>8, <1>9

\* A request that failed at every endpoint proves nothing and claims nothing.
LEMMA RaisedKeeps ==
    ASSUME TypeOK, NEW o \in Op, Sound(o, op[o]), Asking(o), NEW missing \in BOOLEAN
    PROVE  Sound(o, Raised(o, missing))
<1> DEFINE r == op[o]
<1>1. r \in OpState /\ OneSpender(o, r) /\ r.status = "none"
  BY DEF TypeOK, Sound, ScanShape, Asking
<1>2. /\ "transaction-missing" \in Harmless /\ "provider-unavailable" \in Harmless
      /\ "unavailable" \in Harmless /\ "output" \in Stage \ {"done", "scan"}
  BY DEF Harmless, Status, SpendStatus, Stage
<1>3. /\ Sound(o, Verdict(o, r, "transaction-missing"))
      /\ Sound(o, Verdict(o, r, "provider-unavailable"))
      /\ Sound(o, Verdict(o, r, "unavailable"))
      /\ Sound(o, SpendVerdict(o, r, "not-found"))
      /\ Sound(o, SpendVerdict(o, r, "unavailable"))
  BY <1>1, <1>2, VerdictKeeps, SpendVerdictKeeps
<1>4. r.stage \in {"raw", "output"} =>
         Sound(o, Request(r, "output")) /\ Sound(o, Placement(o, r, FALSE))
  <2>1. SUFFICES ASSUME r.stage \in {"raw", "output"}
                 PROVE  Sound(o, Request(r, "output")) /\ Sound(o, Placement(o, r, FALSE))
    OBVIOUS
  <2>2. r.spenders = {}
    BY <2>1 DEF Sound, ScanShape
  <2> QED
    BY <1>1, <1>2, <2>2, RequestKeeps, PlacementKeeps
<1> QED
  BY <1>3, <1>4 DEF Raised

\* Turning to the next endpoint keeps everything else.
LEMMA NextSlotKeeps ==
    ASSUME TypeOK, NEW o \in Op, Sound(o, op[o])
    PROVE  /\ Sound(o, [op[o] EXCEPT !.slot = NextSlot(o)])
           /\ \A b \in BOOLEAN :
                 Sound(o, [op[o] EXCEPT !.slot = NextSlot(o), !.missing = b])
<1>0. SUFFICES ASSUME NEW n,
                      \/ n = [op[o] EXCEPT !.slot = NextSlot(o)]
                      \/ \E b \in BOOLEAN :
                            n = [op[o] EXCEPT !.slot = NextSlot(o), !.missing = b]
               PROVE  Sound(o, n)
  OBVIOUS
<1> DEFINE r == op[o]
<1>1. /\ n.stage = r.stage /\ n.status = r.status /\ n.spenders = r.spenders
      /\ n.pending = r.pending /\ n.answered = r.answered /\ n.depth = r.depth
      /\ n.block = r.block
  BY <1>0 DEF TypeOK, OpState
<1>2. ScanShape(o, n)
  BY <1>1 DEF Sound, ScanShape, OneSpender
<1> QED
  BY <1>1, <1>2 DEF Sound

-----------------------------------------------------------------------------
(* The invariant, one step at a time *)

\* The invariant after a step, from the views and the operations after it.
LEMMA IndInvNext ==
    ASSUME \A s \in Slot : Consistent(view'[s]), \A o \in Op : Sound(o, op'[o])
    PROVE  IndInv'
<1>1. Fundings \subseteq Op /\ Locations \subseteq Op
  BY DEF Op
<1> QED
  BY <1>1 DEF IndInv, Sound, UnspentAtVerdict, SpentNamesSpender, ScanIsUnambiguous,
              FundingStatusIsCurrent, LocationIsPlaced

\* A step of one operation that leaves the indexers alone.
LEMMA SetKeeps ==
    ASSUME TypeOK, IndInv, NEW o \in Op, NEW r, Sound(o, r), Set(o, r)
    PROVE  IndInv'
<1>1. \A s \in Slot : Consistent(view'[s])
  BY DEF IndInv, Set
<1>2. \A p \in Op : Sound(p, op[p])
  BY IndInvByOp
<1>3. ASSUME NEW p \in Op PROVE Sound(p, op'[p])
  <2>1. op'[p] = IF p = o THEN r ELSE op[p]
    BY DEF Set, TypeOK
  <2> QED
    BY <1>2, <2>1
<1> QED
  BY <1>1, <1>3, IndInvNext

\* The history of one indexer holds one spender of an outpoint at most.
LEMMA HistoryHasOneSpender ==
    ASSUME NEW w \in View, Consistent(w), NEW x,
           NEW t \in Known(w), NEW u \in Known(w), x \in Spends[t], x \in Spends[u]
    PROVE  t = u
  BY DEF Consistent

\* Every answer and every failure keeps the invariant.
LEMMA StepKeeps ==
    ASSUME TypeOK, IndInv, NEW o \in Op, Step(o)
    PROVE  IndInv'
<1> DEFINE r == op[o]
<1>1. r \in OpState /\ Asked(o) \in View /\ Consistent(Asked(o))
  BY DEF TypeOK, OpState, Asked, IndInv
<1>2. Sound(o, r)
  BY IndInvByOp
<1>3. OneSpender(o, r) /\ (Asking(o) => r.status = "none")
  BY <1>2 DEF Sound, ScanShape, Asking
<1>4. CASE \E missing \in BOOLEAN : EndpointFails(o, missing)
  <2>1. PICK missing \in BOOLEAN : EndpointFails(o, missing)
    BY <1>4
  <2>2. (op[o].missing \/ missing) \in BOOLEAN
    OBVIOUS
  <2>3. Asking(o)
    BY <2>1 DEF EndpointFails
  <2>4. /\ Sound(o, Raised(o, op[o].missing \/ missing))
        /\ Sound(o, [op[o] EXCEPT !.slot = NextSlot(o), !.missing = @ \/ missing])
    BY <1>2, <2>2, <2>3, NextSlotKeeps, RaisedKeeps
  <2>5. Sound(o, IF HasNextSlot(o)
                 THEN [op[o] EXCEPT !.slot = NextSlot(o), !.missing = @ \/ missing]
                 ELSE Raised(o, op[o].missing \/ missing))
    BY <2>4
  <2> QED
    BY <2>1, <2>5, SetKeeps DEF EndpointFails
<1>5. CASE Unparsable(o)
  BY <1>2, <1>5, RaisedKeeps, SetKeeps DEF Unparsable
<1>6. CASE RawTransaction(o)
  <2>1. r.stage = "raw" /\ r.status = "none" /\ r.spenders = {}
    BY <1>2, <1>6 DEF RawTransaction, Located, Sound, ScanShape
  <2>2. /\ "output-missing" \in Harmless /\ "output" \in Stage \ {"done", "scan"}
    BY DEF Harmless, Status, Stage
  <2>3. Sound(o, Verdict(o, r, "output-missing")) /\ Sound(o, Request(r, "output"))
    BY <1>1, <1>3, <2>1, <2>2, VerdictKeeps, RequestKeeps
  <2> DEFINE q == Request(r, "output")
             n == [q EXCEPT !.found = TRUE]
  <2>4. q \in OpState
    BY <1>1, <2>2, RequestType
  <2> HIDE DEF q
  <2>5. /\ n.stage = q.stage /\ n.status = q.status /\ n.spenders = q.spenders
        /\ n.pending = q.pending /\ n.answered = q.answered /\ n.depth = q.depth
        /\ n.block = q.block
    BY <2>4 DEF OpState
  <2> HIDE DEF n
  <2>6. Sound(o, q)
    BY <2>3 DEF q
  <2>7. ScanShape(o, n)
    BY <2>5, <2>6 DEF Sound, ScanShape, OneSpender
  <2>8. Sound(o, n)
    BY <2>5, <2>6, <2>7 DEF Sound
  <2>9. Set(o, IF o \in Fundings /\ ~HasOutput(o) THEN Verdict(o, r, "output-missing")
               ELSE n)
    BY <1>6 DEF RawTransaction, n, q
  <2> QED
    BY <2>3, <2>8, <2>9, SetKeeps
<1>7. CASE OutputEvidence(o)
  <2>1. PICK p \in Placements(Asked(o), Target[o][1]) :
               Set(o, Placement(o, [r EXCEPT !.depth = p.depth, !.block = p.block],
                                HasOutput(o)))
    BY <1>7 DEF OutputEvidence
  <2> DEFINE n == [r EXCEPT !.depth = p.depth, !.block = p.block]
  <2>2. /\ p.depth \in Nat \cup {Absent} /\ p.block \in Block \cup {NoBlock}
        /\ p.depth # Absent /\ p.depth # 0 =>
              /\ p.block \in Chain[Asked(o).tip] /\ Target[o][1] \in Mines[p.block]
              /\ p.depth = Height[Asked(o).tip] - Height[p.block] + 1
    BY <1>1, PlacementsType
  <2>3. /\ n \in OpState /\ n.depth = p.depth /\ n.block = p.block
        /\ n.stage = r.stage /\ n.status = r.status /\ n.spenders = r.spenders
        /\ n.pending = r.pending
    BY <1>1, <2>2 DEF OpState
  <2>4. Set(o, Placement(o, n, HasOutput(o)))
    BY <2>1
  <2> HIDE DEF n
  <2>5. r.stage = "output" /\ r.status = "none" /\ r.spenders = {}
    BY <1>2, <1>7 DEF OutputEvidence, Located, Sound, ScanShape
  <2>6. OneSpender(o, n)
    BY <1>3, <2>3 DEF OneSpender
  <2>7. HasOutput(o) \in BOOLEAN
    BY DEF HasOutput
  <2>8. Sound(o, Placement(o, n, HasOutput(o)))
    BY <2>2, <2>3, <2>5, <2>6, <2>7, PlacementKeeps
  <2> QED
    BY <2>4, <2>8, SetKeeps
<1>8. CASE Mismatch(o)
  <2>1. (IF o \in Fundings THEN "mismatch" ELSE "not-found") \in Harmless
    BY DEF Harmless, Status, SpendStatus
  <2>2. Sound(o, Verdict(o, r, IF o \in Fundings THEN "mismatch" ELSE "not-found"))
    BY <1>1, <1>3, <2>1, VerdictKeeps
  <2> QED
    BY <1>8, <2>2, SetKeeps DEF Mismatch
<1>9. CASE SourceOutput(o)
  <2>1. r.stage = "source" /\ r.status = "none" /\ r.spenders = {}
    BY <1>2, <1>9 DEF SourceOutput, Located, Sound, ScanShape
  <2>2. "history" \in Stage \ {"done", "scan"}
    BY DEF Stage
  <2>3. Sound(o, Request(r, "history")) /\ Sound(o, SpendVerdict(o, r, "not-found"))
    BY <1>1, <1>3, <2>1, <2>2, RequestKeeps, SpendVerdictKeeps
  <2>4. Sound(o, IF HasOutput(o) THEN Request(r, "history")
                 ELSE SpendVerdict(o, r, "not-found"))
    BY <2>3
  <2> QED
    BY <1>9, <2>4, SetKeeps DEF SourceOutput
<1>10. CASE ScriptHistory(o)
  <2>1. PICK q \in Orders(History(Asked(o), TargetScript(o))) :
               Set(o, [Request(r, IF q = << >> THEN "unspent" ELSE "scan")
                          EXCEPT !.pending = q])
    BY <1>10 DEF ScriptHistory
  <2> DEFINE n == [Request(r, IF q = << >> THEN "unspent" ELSE "scan") EXCEPT !.pending = q]
  <2>2. r.stage = "history" /\ r.status = "none" /\ r.spenders = {}
    BY <1>2, <1>10 DEF ScriptHistory, Sound, ScanShape
  <2>3. /\ n.stage = IF q = << >> THEN "unspent" ELSE "scan"
        /\ n.status = r.status /\ n.spenders = r.spenders /\ n.pending = q
    BY <1>1 DEF Request, OpState
  <2>4. Set(o, n)
    BY <2>1
  <2> HIDE DEF n
  <2>5. \A i \in 1..Len(q) : q[i] \in Known(Asked(o))
    BY <1>1, HistoryType
  <2>6. \A t \in n.spenders \cup {n.pending[i] : i \in 1..Len(n.pending)} :
           t \in Known(Asked(o))
    BY <2>2, <2>3, <2>5
  <2>7. IsFiniteSet(n.spenders)
    BY <2>2, <2>3, FS_EmptySet
  <2>8. OneSpender(o, n)
    BY <1>1, <2>2, <2>3, <2>6, <2>7, HistoryHasOneSpender DEF OneSpender
  <2>9. ScanShape(o, n)
    BY <2>2, <2>3, <2>8 DEF ScanShape
  <2>10. Sound(o, n)
    BY <2>2, <2>3, <2>9 DEF Sound
  <2> QED
    BY <2>4, <2>10, SetKeeps
<1>11. CASE HistoryTransaction(o)
  <2> DEFINE t == Head(r.pending)
             n == [Request(r, "scan") EXCEPT
                     !.pending = Tail(@),
                     !.spenders = IF SpendsTarget(o, t) THEN @ \cup {t} ELSE @]
  <2>1. r.stage = "scan" /\ r.status = "none" /\ r.pending # << >>
    BY <1>2, <1>11 DEF HistoryTransaction, Located, Sound, ScanShape
  <2>2. /\ r.pending \in Seq(Tx) /\ t = r.pending[1] /\ t \in Tx
        /\ 1 \in 1..Len(r.pending) /\ Tail(r.pending) \in Seq(Tx)
        /\ Len(Tail(r.pending)) = Len(r.pending) - 1
        /\ \A i \in 1..Len(Tail(r.pending)) :
              /\ i + 1 \in 1..Len(r.pending) /\ Tail(r.pending)[i] = r.pending[i + 1]
    BY <1>1, <2>1 DEF OpState
  <2> HIDE DEF t
  <2>3. /\ n \in OpState /\ n.stage = "scan" /\ n.status = r.status
        /\ n.pending = Tail(r.pending)
        /\ n.spenders = IF SpendsTarget(o, t) THEN r.spenders \cup {t} ELSE r.spenders
    <3>1. "scan" \in Stage
      BY DEF Stage
    <3>2. Request(r, "scan") \in OpState
      BY <1>1, <3>1, RequestType
    <3>3. /\ Request(r, "scan").stage = "scan" /\ Request(r, "scan").status = r.status
          /\ Request(r, "scan").pending = r.pending
          /\ Request(r, "scan").spenders = r.spenders
      BY <1>1 DEF Request, OpState
    <3> QED
      BY <2>2, <3>2, <3>3 DEF OpState
  <2>4. Set(o, IF n.pending = << >> THEN Scanned(o, n) ELSE n)
    BY <1>11 DEF HistoryTransaction, t
  <2> HIDE DEF n
  <2>5. {n.pending[i] : i \in 1..Len(n.pending)} \subseteq
           {r.pending[i] : i \in 1..Len(r.pending)}
    BY <2>2, <2>3
  <2>6. t \in {r.pending[i] : i \in 1..Len(r.pending)}
    BY <2>2
  <2>7. n.spenders \subseteq r.spenders \cup {r.pending[i] : i \in 1..Len(r.pending)}
    BY <2>3, <2>6
  <2>8. IsFiniteSet(n.spenders)
    <3>1. IsFiniteSet(r.spenders) BY <1>3 DEF OneSpender
    <3> QED BY <2>3, <3>1, FS_AddElement
  <2>9. \A u \in n.spenders : Target[o] \in Spends[u]
    BY <1>3, <2>3 DEF OneSpender, SpendsTarget
  <2>10. OneSpender(o, n)
    BY <1>3, <2>5, <2>7, <2>8, <2>9 DEF OneSpender
  <2>11. CASE n.pending = << >>
    <3>1. Sound(o, Scanned(o, n))
      BY <2>1, <2>3, <2>10, ScannedKeeps
    <3> QED
      BY <2>4, <2>11, <3>1, SetKeeps
  <2>12. CASE n.pending # << >>
    <3>1. ScanShape(o, n)
      BY <2>1, <2>3, <2>10, <2>12 DEF ScanShape
    <3>2. Sound(o, n)
      BY <2>1, <2>3, <3>1 DEF Sound
    <3> QED
      BY <2>4, <2>12, <3>2, SetKeeps
  <2> QED
    BY <2>11, <2>12
<1>12. CASE ScriptUnspent(o)
  <2>1. r.status = "none"
    BY <1>3, <1>12 DEF ScriptUnspent, Asking
  <2>2. CASE IsUnspent(Asked(o), Target[o])
    <3>1. Sound(o, SpendVerdict(o, r, "unspent"))
      BY <1>1, <1>3, <2>1, <2>2, UnspentKeeps
    <3> QED
      BY <1>12, <2>2, <3>1, SetKeeps DEF ScriptUnspent
  <2>3. CASE ~IsUnspent(Asked(o), Target[o])
    <3>1. Sound(o, SpendVerdict(o, r, "unavailable"))
      BY <1>1, <1>3, SpendVerdictKeeps
    <3> QED
      BY <1>12, <2>3, <3>1, SetKeeps DEF ScriptUnspent
  <2> QED
    BY <2>2, <2>3
<1>13. CASE UtxoSource(o)
  <2>1. r.status = "none"
    BY <1>3, <1>13 DEF UtxoSource, Located, Asking
  <2>2. "utxoList" \in Stage \ {"done", "scan"} /\ "utxoList" \notin Early
    BY DEF Stage, Early
  <2>3. Sound(o, Request(r, "utxoList"))
    BY <1>1, <1>3, <2>1, <2>2, RequestKeeps
  <2> QED
    BY <1>13, <2>3, SetKeeps DEF UtxoSource
<1>14. CASE UtxoEvidence(o)
  <2>1. CASE IsUnspent(Asked(o), Target[o]) /\ StatusAgrees(o)
    <3> DEFINE v == Verdict(o, r, "accepted")
    <3>1. "accepted" \in Status \ {"none"}
      BY DEF Status
    <3>2. ScanShape(o, v)
      BY <1>1, <1>3, <3>1, VerdictShape
    <3>3. v.status = "accepted" /\ v.answered = Asked(o) /\ v.depth = r.depth
      BY <1>1 DEF Verdict, OpState
    <3>4. Set(o, v)
      BY <1>14, <2>1 DEF UtxoEvidence
    <3> HIDE DEF v
    <3>5. Target[o][1] \in Confirmed(Asked(o).tip) \cup Asked(o).mempool
      BY <2>1 DEF IsUnspent, Known
    <3>6. IF v.depth \in {Absent, 0} THEN Target[o][1] \in v.answered.mempool
          ELSE Target[o][1] \in Confirmed(v.answered.tip)
      BY <2>1, <3>3, <3>5 DEF StatusAgrees
    <3>7. Sound(o, v)
      BY <2>1, <3>2, <3>3, <3>6 DEF Sound
    <3> QED
      BY <3>4, <3>7, SetKeeps
  <2>2. CASE ~(IsUnspent(Asked(o), Target[o]) /\ StatusAgrees(o))
    <3>1. "provider-ambiguous" \in Harmless
      BY DEF Harmless, Status
    <3>2. Sound(o, Verdict(o, r, "provider-ambiguous"))
      BY <1>1, <1>3, <3>1, VerdictKeeps
    <3> QED
      BY <1>14, <2>2, <3>2, SetKeeps DEF UtxoEvidence
  <2> QED
    BY <2>1, <2>2
<1>15. CASE \E lost \in BOOLEAN : Broadcast(o, lost)
  <2>1. PICK lost \in BOOLEAN : Broadcast(o, lost)
    BY <1>15
  <2> DEFINE w == [Asked(o) EXCEPT !.mempool = @ \cup {Target[o][1]}]
             v == [Verdict(o, r, "submitted") EXCEPT !.answered = w]
             n == CASE ~lost -> v
                    [] lost /\ HasNextSlot(o) -> [op[o] EXCEPT !.slot = NextSlot(o)]
                    [] OTHER -> Raised(o, FALSE)
  <2>2. Consistent(w) /\ view' = [view EXCEPT ![op[o].slot] = w]
    BY <2>1 DEF Broadcast
  <2>3. Asking(o)
    BY <2>1 DEF Broadcast, Asking
  <2>4. op' = [op EXCEPT ![o] = n]
    BY <2>1 DEF Broadcast, TypeOK
  <2>5. Sound(o, v)
    <3>1. "submitted" \in Harmless
      BY DEF Harmless, Status
    <3>2. Sound(o, Verdict(o, r, "submitted"))
      BY <1>1, <1>3, <3>1, VerdictKeeps
    <3>3. /\ v.status = "submitted" /\ v.stage = Verdict(o, r, "submitted").stage
          /\ v.pending = Verdict(o, r, "submitted").pending
          /\ v.spenders = Verdict(o, r, "submitted").spenders
          /\ Verdict(o, r, "submitted").status = "submitted"
      BY <1>1 DEF Verdict, OpState
    <3> HIDE DEF v
    <3>4. ScanShape(o, v)
      BY <3>2, <3>3 DEF Sound, ScanShape, OneSpender
    <3> QED
      BY <3>3, <3>4 DEF Sound
  <2> HIDE DEF w, v
  <2>6. Sound(o, n)
    BY <1>2, <2>3, <2>5, NextSlotKeeps, RaisedKeeps
  <2> HIDE DEF n
  <2>7. \A s \in Slot : Consistent(view'[s])
    BY <2>2 DEF IndInv, TypeOK
  <2>8. \A p \in Op : Sound(p, op'[p])
    BY <2>4, <2>6, IndInvByOp DEF TypeOK
  <2> QED
    BY <2>7, <2>8, IndInvNext
<1>16. CASE NoBytes(o)
  <2>1. Asking(o)
    BY <1>16 DEF NoBytes, Asking
  <2> QED
    BY <1>2, <1>16, <2>1, RaisedKeeps, SetKeeps DEF NoBytes
<1> QED
  BY <1>4, <1>5, <1>6, <1>7, <1>8, <1>9, <1>10, <1>11, <1>12, <1>13, <1>14, <1>15,
     <1>16 DEF Step

\* Beginning, refusing and the indexers' own moves keep the invariant.
LEMMA NextKeeps ==
    ASSUME TypeOK, IndInv, [Next]_vars
    PROVE  IndInv'
<1>1. ASSUME NEW s \in Slot, NEW w \in View, EndpointMoves(s, w) PROVE IndInv'
  <2>1. \A p \in Op : Sound(p, op'[p])
    BY <1>1, IndInvByOp DEF EndpointMoves
  <2>2. \A z \in Slot : Consistent(view'[z])
    BY <1>1 DEF EndpointMoves, IndInv, TypeOK
  <2> QED
    BY <2>1, <2>2, IndInvNext
<1>2. ASSUME NEW o \in Op, Begin(o) PROVE IndInv'
  <2>1. Sound(o, op[o]) /\ op[o] \in OpState /\ op[o].stage = "idle"
    BY <1>2, IndInvByOp DEF TypeOK, Begin, MayBegin
  <2>2. OneSpender(o, op[o]) /\ op[o].status = "none" /\ op[o].spenders = {}
    BY <2>1 DEF Sound, ScanShape
  <2>3. FirstStage(o) \in Stage \ {"done", "scan"}
    BY DEF FirstStage, Stage
  <2>4. Sound(o, Request(op[o], FirstStage(o)))
    BY <2>1, <2>2, <2>3, RequestKeeps
  <2> QED
    BY <1>2, <2>4, SetKeeps DEF Begin
<1>3. ASSUME NEW o \in Op, Refuse(o) PROVE IndInv'
  <2> DEFINE n == [op[o] EXCEPT !.stage = "done", !.status = "refused"]
  <2>1. Sound(o, op[o]) /\ op[o] \in OpState
    BY IndInvByOp DEF TypeOK
  <2>2. /\ n.stage = "done" /\ n.status = "refused" /\ n.spenders = op[o].spenders
        /\ n.pending = op[o].pending
    BY <2>1 DEF OpState
  <2>3. Set(o, n)
    BY <1>3 DEF Refuse
  <2> HIDE DEF n
  <2>4. OneSpender(o, n)
    BY <2>1, <2>2 DEF Sound, ScanShape, OneSpender
  <2>5. Sound(o, n)
    BY <2>2, <2>4 DEF Sound, ScanShape
  <2> QED
    BY <2>3, <2>5, SetKeeps
<1>4. ASSUME UNCHANGED vars PROVE IndInv'
  BY <1>4, IndInvByOp, IndInvNext DEF vars, IndInv
<1> QED
  BY <1>1, <1>2, <1>3, <1>4, StepKeeps DEF Next, Finished

\* No lookup has matched anything before it begins.
LEMMA InitKeeps ==
    ASSUME Init
    PROVE  IndInv
<1>1. ASSUME NEW o \in Op PROVE Sound(o, op[o])
  <2>1. /\ op[o].stage = "idle" /\ op[o].status = "none"
        /\ op[o].spenders = {} /\ op[o].pending = << >>
    BY DEF Init
  <2>2. {op[o].pending[i] : i \in 1..Len(op[o].pending)} = {}
    BY <2>1
  <2>3. OneSpender(o, op[o])
    BY <2>1, <2>2, FS_EmptySet DEF OneSpender
  <2> QED
    BY <2>1, <2>3 DEF Sound, ScanShape
<1> QED
  BY <1>1, IndInvByOp DEF Init

-----------------------------------------------------------------------------
(* The theorems *)

\* The strengthened invariant of every lookup, over any block tree, any list of
\* endpoints and any moves of the indexers (index.ts:724-2432).
THEOREM LookupInvariant == Spec => [](TypeOK /\ IndInv)
<1>1. Init => TypeOK /\ IndInv
  BY InitType, InitKeeps
<1>2. TypeOK /\ IndInv /\ [Next]_vars => TypeOK' /\ IndInv'
  BY NextType, NextKeeps
<1> QED
  BY <1>1, <1>2, PTL DEF Spec

\* Endpoint list, stage, verdict and evidence of every lookup keep their types:
\* the endpoint loop never runs past the configured list (index.ts:2109-2125)
\* and no path ends in a status the evidence types do not have.
THEOREM LookupTypes == Spec => []TypeOK
BY LookupInvariant, PTL

\* "unspent" evidence and an accepted funding rest on an indexer that had no
\* spend of the outpoint when it gave the last answer (index.ts:2367, 2045).
THEOREM UnspentHeld == Spec => []UnspentAtVerdict
<1>1. IndInv => UnspentAtVerdict
  BY DEF IndInv
<1> QED
  BY <1>1, LookupInvariant, PTL

\* "spent-outpoint" evidence names the one transaction that spends the outpoint
\* (index.ts:2325-2366).
THEOREM SpendersNamed == Spec => []SpentNamesSpender
<1>1. IndInv => SpentNamesSpender
  BY DEF IndInv
<1> QED
  BY <1>1, LookupInvariant, PTL

\* The ambiguous branch of the scan (index.ts:2357) is not reached while every
\* indexer's own view is consistent, however much the indexers disagree.
THEOREM ScansUnambiguous == Spec => []ScanIsUnambiguous
<1>1. IndInv => ScanIsUnambiguous
  BY DEF IndInv
<1> QED
  BY <1>1, LookupInvariant, PTL

\* An accepted funding's confirmation status is that of the last answer
\* (index.ts:2056-2066).
THEOREM FundingStatusesCurrent == Spec => []FundingStatusIsCurrent
<1>1. IndInv => FundingStatusIsCurrent
  BY DEF IndInv
<1> QED
  BY <1>1, LookupInvariant, PTL

\* A confirmed location is a block of the answering indexer's chain at the depth
\* reported (index.ts:2559-2654).
THEOREM LocationsPlaced == Spec => []LocationIsPlaced
<1>1. IndInv => LocationIsPlaced
  BY DEF IndInv
<1> QED
  BY <1>1, LookupInvariant, PTL
=============================================================================
