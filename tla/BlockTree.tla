------------------------------ MODULE BlockTree ------------------------------
(***************************************************************************)
(* What the chain clients of this repository assume of a validating node:  *)
(* a tree of blocks, the transactions each one mines, and the confirmed    *)
(* outputs at a block.  The node itself is not part of the repository.     *)
(***************************************************************************)
EXTENDS Naturals

CONSTANTS Block,
          NoBlock,
          Height,   \* per block
          Work,     \* accumulated proof of work, per block
          Chain,    \* per block: the branch from the first block to it
          Tx,
          Mines,    \* per block: the transactions it contains
          Outputs,  \* per transaction: its output indexes
          Spends    \* per transaction: the outpoints its inputs name

ASSUME BlockAssumption ==
    /\ NoBlock \notin Block
    /\ Height \in [Block -> Nat] /\ Work \in [Block -> Nat]
    /\ Chain \in [Block -> SUBSET Block]
    /\ \A b \in Block : b \in Chain[b]
    /\ \A b \in Block : \A c, d \in Chain[b] :
          /\ Height[c] <= Height[b]
          /\ Height[c] = Height[d] => c = d

ASSUME TxAssumption ==
    /\ Mines \in [Block -> SUBSET Tx]
    /\ Outputs \in [Tx -> SUBSET Nat]
    /\ Spends \in [Tx -> SUBSET (Tx \X Nat)]

\* The transactions confirmed on the branch ending in b.
Confirmed(b) == UNION {Mines[c] : c \in Chain[b]}

Created(b) == {x \in Confirmed(b) \X UNION {Outputs[t] : t \in Confirmed(b)} :
                  x[2] \in Outputs[x[1]]}

\* The confirmed, mempool-excluded UTXO set at b.
Utxo(b) == Created(b) \ UNION {Spends[t] : t \in Confirmed(b)}

\* The block at height h of the branch ending in b: none above its tip.
At(b, h) == {c \in Chain[b] : Height[c] = h}
=============================================================================
