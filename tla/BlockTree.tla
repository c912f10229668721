----------------------------- MODULE BlockTree -----------------------------
(***************************************************************************)
(* The tree of block indexes (CBlockIndex, chain.h) that the modules about *)
(* the active chain share.  A chain is named by its last block.            *)
(***************************************************************************)
EXTENDS Integers

CONSTANTS Blocks,
          Genesis,
          Parent,        \* Parent[b], pprev of a block other than Genesis
          Height,        \* Height[b], nHeight
          ChainOf        \* ChainOf[b]: b and its ancestors

\* What every block tree satisfies.
ASSUME BlockTreeAssumption ==
  /\ Genesis \in Blocks
  /\ Parent \in [Blocks -> Blocks]
  /\ Height \in [Blocks -> Nat]
  /\ ChainOf \in [Blocks -> SUBSET Blocks]
  /\ ChainOf[Genesis] = {Genesis}
  /\ \A b \in Blocks \ {Genesis} :
       Height[b] = Height[Parent[b]] + 1 /\ ChainOf[b] = {b} \cup ChainOf[Parent[b]]
  /\ \A b \in Blocks : Genesis \in ChainOf[b]
  /\ \A b \in Blocks : \A c, d \in ChainOf[b] :
       /\ ChainOf[c] \subseteq ChainOf[b]
       /\ Height[c] <= Height[b]
       /\ Height[c] = Height[d] => c = d
=============================================================================
