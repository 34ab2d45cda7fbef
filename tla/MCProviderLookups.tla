------------------------- MODULE MCProviderLookups -------------------------
\* Two branches, the second with more work:    g -- a1     (work 1)
\*                                              \-- b1    (work 2)
\* pay has two outputs under one script and is mined on both branches; spendA
\* and spendB conflict over the first output, other spends the second; a1 mines
\* spendA too, so the reorganisation makes it unconfirmed or lost.
EXTENDS ProviderLookups

CONSTANTS g, a1, b1, pay, spendA, spendB, other, hole, loc

TreeHeight == [b \in Block |-> IF b = g THEN 0 ELSE 1]
TreeWork == [b \in Block |-> CASE b = g -> 0 [] b = a1 -> 1 [] b = b1 -> 2]
TreeChain == [b \in Block |-> {g, b}]
TreeMines == [b \in Block |-> Tx \cap CASE b = g -> {} [] b = a1 -> {pay, spendA}
                                          [] b = b1 -> {pay, other}]

TxOutputs == [t \in Tx |-> IF t = pay THEN {0, 1} ELSE {0}]
TxSpends == [t \in Tx |-> CASE t \in {spendA, spendB} -> {<<pay, 0>>}
                            [] t = other -> {<<pay, 1>>} [] OTHER -> {}]
TxScript == [t \in Tx |-> [v \in TxOutputs[t] |-> IF t = pay THEN "cell" ELSE "change"]]

\* The first output of pay; hole asks for one it does not have, a submission is
\* of a transaction that spends it, loc locates the same one.
Targets == [o \in Op |-> CASE o \in Submissions \cup {loc} -> <<spendA, 0>>
                           [] o = hole -> <<pay, 2>> [] OTHER -> <<pay, 0>>]
=============================================================================
