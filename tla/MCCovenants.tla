--------------------------- MODULE MCCovenants ---------------------------
EXTENDS Covenants

(***************************************************************************)
(* Covenants: two proven settlements that share a seal, one of them with   *)
(* the verdict between the seals, and one nobody has proved, which gives   *)
(* both seals to somebody else.  Lock time and one sequence number have    *)
(* their top bit set.                                                      *)
(***************************************************************************)

Plain(owner) == [kind |-> "plain", owner |-> owner]
Carrier == [kind |-> "plain", owner |-> "anyone", commitment |-> None]
Sealed(value, key) == [value |-> value, locking |-> SealLocking(ExitKeyHash(key)), token |-> None]
Tokened(value, locking, category, capability, commitment) ==
    [value |-> value, locking |-> locking,
     token |-> [category |-> category, capability |-> capability, commitment |-> commitment]]
ChainStart ==
    (<<0, 1>> :> Tokened(3, FactoryLocking, VerifierCategory, "minting", "none"))
    @@ (<<0, 2>> :> Sealed(4, "k1"))
    @@ (<<0, 3>> :> Sealed(3, "k2"))
    @@ (<<0, 4>> :> Tokened(1, Plain("anyone"), "other", "minting", "none"))

TopBit == 15
Sat(value, locking, slot) == [value |-> value, locking |-> locking, slot |-> slot, token |-> None]
Consumed(outpoint, sequence, value) ==
    [outpoint |-> outpoint, sequence |-> sequence, value |-> value, token |-> None]
NotYet == <<0, 0>>
Designated == Consumed(NotYet, 0, 1)
Planned(inputs, designated, outputs) ==
    [version |-> 2, locktime |-> TopBit, inputs |-> inputs, designated |-> designated,
     outputs |-> outputs, fee |-> SumSats(Values(inputs)) - SumSats(Values(outputs))]
BothSeals == <<Consumed(<<0, 2>>, TopBit, 4), Designated, Consumed(<<0, 3>>, 0, 3)>>
NewSeals == <<Sat(6, SealLocking(ExitKeyHash("k3")), FALSE), Sat(1, Carrier, TRUE)>>
Between == Planned(BothSeals, 1, NewSeals)
Behind == Planned(<<Consumed(<<0, 2>>, 0, 4), Designated>>, 1, <<Sat(4, SealLocking(ExitKeyHash("k1")), FALSE)>>)
Unproven == Planned(BothSeals, 1, <<Sat(7, Plain("anyone"), FALSE)>>)
ProvenPlans == {Between, Behind}
Plans == {Between, Behind, Unproven}

At(unspent, kinds) == {o \in DOMAIN unspent : unspent[o].locking.kind \in kinds}
Input(outpoint, unlocking) == [outpoint |-> outpoint, sequence |-> 0, unlocking |-> unlocking]
Tx(inputs, outputs) == [version |-> 2, locktime |-> 0, inputs |-> inputs, outputs |-> outputs]
Paid(value, locking) == [value |-> value, locking |-> locking, token |-> None]
Verdicts(value, category) ==
    {Tokened(value, VerdictLocking, category, "immutable", ProjectionCommitment(plan)) : plan \in Plans}
Change == Paid(1, Plain("anyone"))

\* Out of the factory, with the right outputs, others, or one more.
FactoryOffers(unspent) ==
    LET first == {Tokened(1, locking, VerifierCategory, "minting", "none") :
                     locking \in {FactoryLocking, Plain("anyone")}}
        second == {Tokened(1, locking, VerifierCategory, "mutable", "none") :
                     locking \in {StageZeroLocking, Plain("anyone")}}
        third == {Change} \cup Verdicts(1, VerifierCategory)
    IN  {Tx(<<Input(o, None)>>, outputs) :
            o \in At(unspent, {"factory"}),
            outputs \in {<<a, b, c>> : a \in first, b \in second, c \in third}
                        \cup {<<a, b, Paid(0, Plain("anyone")), c>> :
                                  a \in first, b \in second, c \in third}}
\* A stage coin, or one that is nobody's, becomes a verdict.
TokenOffers(unspent) ==
    {Tx(<<Input(o, None)>>, <<out>>) :
        o \in {o \in At(unspent, {"stages", "plain"}) : unspent[o].token # None},
        out \in UNION {Verdicts(value, category) : value \in {0, 1}, category \in {VerifierCategory, "other"}}}
\* A settlement as projected, or with one thing changed; seals show any input.
Showing(tx, index) ==
    [tx EXCEPT !.inputs = [i \in DOMAIN tx.inputs |->
        IF tx.inputs[i].unlocking = None THEN tx.inputs[i]
        ELSE [tx.inputs[i] EXCEPT !.unlocking = [selector |-> AggregateSelector, index |-> index]]]]
Changed(tx) ==
    {tx, [tx EXCEPT !.locktime = 0],
     [tx EXCEPT !.inputs[1].sequence = TopBit - @],
     [tx EXCEPT !.inputs = Reverse(@)],
     [tx EXCEPT !.inputs = Append(@, Input(<<0, 4>>, None))],
     [tx EXCEPT !.inputs = SubSeq(@, 1, 2)],
     [tx EXCEPT !.outputs = Append(@, Paid(0, Plain("anyone")))],
     [tx EXCEPT !.outputs[1].locking = Plain("anyone")],
     [tx EXCEPT !.outputs[1].value = @ - 1]}
KeepingToken(tx, token) == [tx EXCEPT !.outputs[1].token = token]
SettlementOffers(unspent) ==
    LET settled(plan, verdict) ==
            LET tx == Settlement(plan, verdict)
            IN  Changed(tx) \cup {KeepingToken(tx, unspent[verdict].token)}
    IN  {Showing(tx, index) :
            index \in 0..2,
            tx \in UNION {settled(plan, o) : plan \in Plans, o \in At(unspent, {"L_verdict"})}}
ExitTx(outpoint, value, owner) ==
    Tx(<<Input(outpoint, None)>>, <<Paid(value, Plain(owner))>>)
ExitOffers(unspent, made) ==
    {[ExitTx(o, value, owner) EXCEPT !.inputs[1].unlocking =
          [selector |-> ExitSelector, key |-> signature.key, signature |-> signature]] :
        o \in At(unspent, {"seal"}), signature \in made, value \in {2, 3}, owner \in {"owner", "anyone"}}
OfferedTransactions(unspent, made) ==
    {tx \in FactoryOffers(unspent) \cup TokenOffers(unspent) \cup SettlementOffers(unspent)
            \cup ExitOffers(unspent, made) :
        \A i \in DOMAIN tx.inputs : tx.inputs[i].outpoint \in DOMAIN unspent}
OfferedExits(unspent) ==
    {[tx |-> ExitTx(o, 3, "owner"), key |-> key, hashType |-> hashType, scheme |-> scheme] :
        o \in At(unspent, {"seal"}), key \in {"k1", "k2"},
        hashType \in {"ALL", "SINGLE", "NONE"}, scheme \in {"schnorr", "ecdsa"}}
==========================================================================
