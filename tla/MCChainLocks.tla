---------------------------- MODULE MCChainLocks ----------------------------
(* Instances of ChainLocks for TLC. *)
EXTENDS ChainLocks, TLC

CONSTANTS G, A1, A2, B1, B2

\* Two branches of two blocks.
ForkParent == (G :> G) @@ (A1 :> G) @@ (A2 :> A1) @@ (B1 :> G) @@ (B2 :> B1)
ForkHeight == (G :> 0) @@ (A1 :> 1) @@ (A2 :> 2) @@ (B1 :> 1) @@ (B2 :> 2)
ForkChain == (G :> {G}) @@ (A1 :> {G, A1}) @@ (A2 :> {G, A1, A2})
               @@ (B1 :> {G, B1}) @@ (B2 :> {G, B1, B2})
=============================================================================
