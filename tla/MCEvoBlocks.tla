---------------------------- MODULE MCEvoBlocks ----------------------------
EXTENDS EvoBlocks, TLC

CONSTANTS g, a1, a2, b2, bad, alien, c1, c2, m1, m2

\* Heights 1 to 3, with quorums of heights 2 and a mining phase at height 3.
\* The quorum of a1 is mined in a2, or in b2 with another commitment.  A third
\* block, bad, contains it too but has another fault, and alien has a commitment
\* for a quorum that is not in its chain.
MCBlocks == {g, a1, a2, b2, bad, alien}
MCParent == (g :> g) @@ (a1 :> g) @@ (a2 :> a1) @@ (b2 :> a1) @@ (bad :> a1) @@ (alien :> g)
MCHeight == (g :> 1) @@ (a1 :> 2) @@ (a2 :> 3) @@ (b2 :> 3) @@ (bad :> 3) @@ (alien :> 2)
MCChainOf == (g :> {g}) @@ (a1 :> {g, a1}) @@ (a2 :> {g, a1, a2}) @@ (b2 :> {g, a1, b2})
             @@ (bad :> {g, a1, bad}) @@ (alien :> {g, alien})

MCQc == (g :> None) @@ (a1 :> None) @@ (a2 :> c1) @@ (b2 :> c2) @@ (bad :> c1) @@ (alien :> c1)
MCQcQuorum == (c1 :> a1) @@ (c2 :> a1)
MCSigners == (c1 :> 1) @@ (c2 :> 2)
MCAdded == [b \in MCBlocks |-> IF b = a1 THEN {m1} ELSE IF b = a2 THEN {m2} ELSE {}]
MCRemoved == [b \in MCBlocks |-> IF b \in {a2, bad} THEN {m1} ELSE {}]

MCKeys == {MinedKey(a1), HeightKey(2), HeightKey(3), BestKey}
          \cup {DiffKey(b) : b \in MCBlocks} \cup {SnapshotKey(b) : b \in MCBlocks}
MNs == {m1, m2}
MCValues == [qc : {c1, c2}, minedIn : MCBlocks] \cup [height : 1..3]
            \cup [added : SUBSET MNs, removed : SUBSET MNs]
            \cup [list : [mns : SUBSET MNs, nHeight : -1..3]] \cup [best : MCBlocks]
=============================================================================
