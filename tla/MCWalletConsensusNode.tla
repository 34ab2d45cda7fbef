----------------------- MODULE MCWalletConsensusNode -----------------------
\* A chain with a fork of equal height and more work, and a return to the
\* first branch:   g -- a1 -- a2 -- a3
\*                        \-- b2
\* settle pays five outputs in a1; spendA spends the first in a2, spendB the
\* second in b2; ghost is never mined.
EXTENDS WalletConsensusNode

CONSTANTS g, a1, a2, a3, b2, settle, spendA, spendB, ghost, n1, n2

Parent == [b \in {a1, a2, a3, b2} |->
              CASE b = a1 -> g [] b \in {a2, b2} -> a1 [] b = a3 -> a2]

TreeHeight[b \in Block] == IF b = g THEN 0 ELSE TreeHeight[Parent[b]] + 1
TreeChain[b \in Block] == IF b = g THEN {g} ELSE {b} \cup TreeChain[Parent[b]]

TreeWork == [b \in Block |-> CASE b = g -> 0 [] b = a1 -> 1 [] b = a2 -> 2
                               [] b = b2 -> 3 [] b = a3 -> 4]

TreeMines == [b \in Block |-> CASE b = a1 -> {settle} [] b = a2 -> {spendA}
                                [] b = b2 -> {spendB} [] OTHER -> {}]

TxOutputs == [t \in Tx |-> IF t = settle THEN 0..4 ELSE {0, 1}]

TxSpends == [t \in Tx |-> CASE t = spendA -> {<<settle, 0>>}
                            [] t = spendB -> {<<settle, 1>>} [] OTHER -> {}]
=============================================================================
