-------------------------- MODULE MCProtocolRuntime --------------------------
(***************************************************************************)
(* The builders, evaluators and normalisers of protocol-runtime share no   *)
(* memory: a behaviour of this model is a behaviour of one of them, chosen *)
(* at the start, and the others keep their initial state.                  *)
(***************************************************************************)
EXTENDS SealLifecycle, ModelJudgement, LaneRoots, TransitionOutput, ImportStatements, MCCovenants

VARIABLE subject   \* the component this behaviour is about

runtimeVars ==
    <<subject, lifecycleVars, judgementVars, laneVars, outputVars, importVars, covenantVars>>

Init ==
    /\ subject \in {"seals", "models", "lanes", "outputs", "imports", "covenants"}
    /\ LifecycleInit /\ JudgementInit /\ LaneInit /\ OutputInit /\ ImportInit
    /\ CovenantInit

Next ==
    \/ /\ subject = "seals" /\ LifecycleNext
       /\ UNCHANGED <<subject, judgementVars, laneVars, outputVars, importVars, covenantVars>>
    \/ /\ subject = "models" /\ JudgementNext
       /\ UNCHANGED <<subject, lifecycleVars, laneVars, outputVars, importVars, covenantVars>>
    \/ /\ subject = "lanes" /\ LaneNext
       /\ UNCHANGED <<subject, lifecycleVars, judgementVars, outputVars, importVars, covenantVars>>
    \/ /\ subject = "outputs" /\ OutputNext
       /\ UNCHANGED <<subject, lifecycleVars, judgementVars, laneVars, importVars, covenantVars>>
    \/ /\ subject = "imports" /\ ImportNext
       /\ UNCHANGED <<subject, lifecycleVars, judgementVars, laneVars, outputVars, covenantVars>>
    \/ /\ subject = "covenants" /\ CovenantNext
       /\ UNCHANGED <<subject, lifecycleVars, judgementVars, laneVars, outputVars, importVars>>

Spec == Init /\ [][Next]_runtimeVars

(***************************************************************************)
(* Seals: the same transaction id and output index on two networks, and a  *)
(* second output of the same transaction with another value.               *)
(***************************************************************************)

FundingPlace(network, vout) == [network |-> network, outpoint |-> [txid |-> "t1", vout |-> vout]]
PaidOutput(value, name) ==
    [value |-> value, locking |-> name,
     fingerprint |-> Digest("output-fingerprint", [output |-> name])]
OutputA == PaidOutput(1, "a")
OutputB == PaidOutput(2, "b")
TwinPlaces == {FundingPlace("chipnet", 0), FundingPlace("regtest", 0), FundingPlace("chipnet", 1)}
TwinOutput == [place \in TwinPlaces |-> IF place.outpoint.vout = 0 THEN OutputA ELSE OutputB]
TwinExpected == [import \in {"i1", "i2"} |-> IF import = "i1" THEN OutputA ELSE OutputB]

(***************************************************************************)
(* Models: gates right but for two at most; batches that share a           *)
(* nullifier, mint value, hold an invalid transition or nothing.           *)
(***************************************************************************)

Move(id, nullifier, input, paid, fee) ==
    [id |-> id, valid |-> TRUE, nullifiers |-> <<nullifier>>, outputs |-> <<id>>,
     input |-> input, output |-> paid, fee |-> fee]
Balanced == Move("t1", "a", 3, 2, 1)
Second == Move("t2", "b", 2, 2, 0)
OfferedBatches ==
    {<<>>, <<Balanced>>, <<Balanced, Second>>,
     <<Balanced, Move("t3", "a", 2, 2, 0)>>,
     <<Balanced, Move("t4", "c", 2, 4, 0)>>,
     <<Balanced, [Second EXCEPT !.valid = FALSE]>>}
GoodGates == GateNames \ NonClaimGates
WrongGates == {{g, h} : g, h \in GateNames} \cup {{}}
OfferedQuestions ==
    {[kind |-> "policy", relation |-> "r", gates |-> (GoodGates \ wrong) \cup (wrong \ GoodGates)] :
        wrong \in WrongGates}
    \cup {[kind |-> "conservation", relation |-> "r", counts |-> 1,
           input |-> i, output |-> o, fee |-> f] : i, o, f \in 0..2}
    \cup {[kind |-> "validity", relation |-> r, witness |-> w, public |-> TransitionBind("r1", "w1")] :
             r \in {"r1", "r2"}, w \in {"w1", "w2"}}
    \cup {[kind |-> "aggregation", relation |-> "r", transitions |-> batch,
           publicRoot |-> OutputRoot(Outputs(batch)),
           publicBind |-> BatchBind(other, OutputRoot(Outputs(other))), aggregator |-> powers] :
             batch \in OfferedBatches, other \in OfferedBatches,
             powers \in {{"assemblesTransactions"}, {"assemblesTransactions", "custody"}}}

OfferedNotes == {[asset |-> "bch", value |-> 1, owner |-> owner, nonce |-> 0] : owner \in {"a", "b"}}

(***************************************************************************)
(* Transition outputs: payloads on both sides of every push opcode, values *)
(* on both sides of every bound of the carrier accounting.                 *)
(***************************************************************************)

OneBatch ==
    {[statementBind |-> Digest("b", [x |-> 1]), seals |-> Digest("s", [x |-> 1]),
      notes |-> Digest("n", [x |-> 1])]}
EdgeBins ==
    {[profile |-> "same-tx-recovery-10x197", payload |-> length, count |-> 2, byteLength |-> 2 * length,
      root |-> "root", manifest |-> "manifest", padding |-> "none"] :
        length \in {1, 75, 76, 197, 248, 249, 255, 256}}
EdgeFunding ==
    {[override |-> value, bins |-> 1, fee |-> 10, available |-> available, minimum |-> 1] :
        value \in {0, 480, 700, 1300},
        available \in {2 * 489 + 11, 2 * 480 + 11, 2 * 1300 + 10, 3000}}

(***************************************************************************)
(* Imports: statements whose scopes, projection and memory disagree, lists *)
(* in either order, fees and chunks off by one.                            *)
(***************************************************************************)

OutpointOf(first, second) == [txid |-> <<first, second>>, vout |-> 0]
ProfileOf(name) == [profile |-> name]
Pays(value, role, profile) ==
    [value |-> value, role |-> role, profile |-> profile, length |-> 40,
     slot |-> IF role = RecoveryRole THEN [at |-> 8] ELSE None]
Projections0 ==
    {[inputs |-> <<[outpoint |-> OutpointOf(1, 2), value |-> 9, role |-> FundingRole],
                   [outpoint |-> OutpointOf(3, 4), value |-> 1, role |-> "verifier-collateral"]>>,
      outputs |-> <<Pays(4, BackingRole, ProfileOf(name)), Pays(1, RecoveryRole, None),
                    Pays(value, BackingRole, ProfileOf("p"))>>] : name \in {"p", "q"}, value \in {3, 4}}
CellsOf(projection) ==
    <<[index |-> 0, cell |-> "c0", profile |-> projection.outputs[1].profile],
      [index |-> 2, cell |-> "c2", profile |-> ProfileOf("p")]>>
SkeletonsIn(projection) == SkeletonSet(SkeletonsOf([cells |-> CellsOf(projection), projection |-> projection]))
ScopeIn(projection, nonce, vout) ==
    [network |-> "chipnet", profile |-> "privacy", outpoint |-> [OutpointOf(1, 2) EXCEPT !.vout = vout],
     txid |-> "created", skeletons |-> SkeletonsIn(projection), nonce |-> nonce]
ScopeOf(nonce, vout) ==
    [network |-> "chipnet", profile |-> "privacy", outpoint |-> [OutpointOf(1, 2) EXCEPT !.vout = vout],
     skeletons |-> "declared", nonce |-> nonce]
NotesOf(first, second, inOrder) ==
    LET notes == <<[note |-> 1, scope |-> first, packet |-> 0, hash |-> 1],
                   [note |-> 2, scope |-> second, packet |-> 1, hash |-> 2]>>
    IN  IF inOrder THEN notes ELSE <<notes[2], notes[1]>>
FundedImport(projection, scopes, commitments, inOrder) ==
    [network |-> "chipnet", profile |-> "privacy",
     funding |-> [outpoint |-> OutpointOf(1, 2), value |-> 9], open |-> "seal",
     close |-> [outpoint |-> OutpointOf(1, 2), index |-> 0, seal |-> "seal"],
     txid |-> "created", projection |-> projection, settlement |-> "settlement",
     notes |-> NotesOf(commitments[1], commitments[2], inOrder), cells |-> CellsOf(projection),
     scopes |-> <<[commitment |-> commitments[2], scope |-> scopes[2]],
                  [commitment |-> commitments[1], scope |-> scopes[1]]>>,
     table |-> "table", fee |-> 1, accounting |-> ProjectionAccounting(projection)]
Without(record, field) == [f \in DOMAIN record \ {field} |-> record[f]]
Statements0 ==
    {LET scopes == <<ScopeIn(scoped, 1, 0), ScopeIn(scoped, 2, vout)>>
         commitments == <<ScopeCommitment0(scopes[1]), ScopeCommitment0(scopes[2])>>
     IN  Without(FundedImport(projection, scopes, commitments, inOrder), "settlement") :
        projection \in Projections0, scoped \in Projections0, inOrder \in BOOLEAN, vout \in {0, 1}}
Statements1 ==
    {LET scopes == <<ScopeOf(1, 0), ScopeOf(2, vout)>>
         commitments == <<ScopeCommitment1(scopes[1]), ScopeCommitment1(scopes[2])>>
         whole == FundedImport(projection, scopes, commitments, inOrder)
     IN  Without(Without(Without(whole, "txid"), "projection"), "accounting") :
        projection \in Projections0, inOrder \in BOOLEAN, vout \in {0, 1}}
Settlements ==
    {[inputs |-> [i \in 1..SettlementInputs |->
                     [outpoint |-> OutpointOf(i, 1), value |-> 3, length |-> 54]],
      outputs |-> [i \in 1..SettlementOutputs |->
                     [value |-> IF i = 5 THEN 2 ELSE 1, length |-> LockingLength(i)]],
      fee |-> fee, postage |-> 16] : fee \in {14, 15}}
Currents ==
    {[ids |-> "ids",
      inputs |-> <<[outpoint |-> OutpointOf(1, 2), value |-> 9, role |-> FundingRole, mapped |-> [at |-> 0]],
                   [outpoint |-> OutpointOf(3, 4), value |-> 1, role |-> "verifier-collateral",
                    mapped |-> [at |-> place]],
                   [outpoint |-> OutpointOf(5, 6), value |-> 1, role |-> "note-backed-verifier",
                    mapped |-> None]>>,
      outputs |-> <<[value |-> 4, role |-> BackingRole, chunk |-> None],
                    [value |-> 1, role |-> RecoveryRole, chunk |-> [at |-> 0]],
                    [value |-> 2, role |-> RecoveryRole, chunk |-> [at |-> chunk]]>>,
      fee |-> fee, postage |-> 3] : place \in {0, 1}, chunk \in {0, 1}, fee \in {3, 4}}
ClaimBody(amount) == [amount |-> amount, expiry |-> 5, nonce |-> "nonce"]
ClaimPlans ==
    {[body |-> ClaimBody(amount), commitment |-> ClaimCommitment(ClaimBody(claimed)),
      output |-> [value |-> value, commitment |-> ClaimCommitment(ClaimBody(expected))]] :
        amount, claimed, value, expected \in 1..2}
Handed(kind, records) == {[kind |-> kind, record |-> record] : record \in records}
OfferedImports ==
    Handed("statement-v0", Statements0) \cup Handed("statement-v1", Statements1)
    \cup Handed("settlement", Settlements) \cup Handed("current", Currents)
    \cup Handed("claim", ClaimPlans)
==============================================================================
