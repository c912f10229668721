--------------------------- MODULE MCSparkSpends ---------------------------
(* Instances of SparkSpends for TLC. *)
EXTENDS SparkSpends, TLC

CONSTANTS G, A1, A2, B1, B2, X, Y, Z, s, t

\* Two branches of two blocks.
ForkParent == (G :> G) @@ (A1 :> G) @@ (A2 :> A1) @@ (B1 :> G) @@ (B2 :> B1)
ForkHeight == (G :> 0) @@ (A1 :> 1) @@ (A2 :> 2) @@ (B1 :> 1) @@ (B2 :> 2)
ForkChain == (G :> {G}) @@ (A1 :> {G, A1}) @@ (A2 :> {G, A1, A2})
               @@ (B1 :> {G, B1}) @@ (B2 :> {G, B1, B2})

\* X spends two coins, Y and Z one of them each.
SpendTags == (X :> <<s, t>>) @@ (Y :> <<s>>) @@ (Z :> <<t>>)
SpendAnchor == (X :> G) @@ (Y :> G) @@ (Z :> A1)
SpendBodies == {<<X>>, <<Y>>, <<Z>>, <<X, Y>>, <<Y, Z>>}
=============================================================================
