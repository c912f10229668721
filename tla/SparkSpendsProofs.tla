------------------------- MODULE SparkSpendsProofs -------------------------
(***************************************************************************)
(* Proofs about SparkSpends: the tags recorded as used follow the active   *)
(* chain, no tag is spent twice on it, and the verdict on a block depends  *)
(* on its ancestors alone.                                                 *)
(*                                                                         *)
(* NoDoubleSpend needs UsedTagsAccounted, since CheckLTag looks at the     *)
(* recorded tags and not at the chain, and UsedTagsAccounted needs         *)
(* NoDoubleSpend, since RemoveSpend must not forget a tag that an earlier  *)
(* block has spent.  The two are inductive together.                       *)
(*                                                                         *)
(* ReservationsOwned is inductive with the types, once the fold over the   *)
(* spends of a connected block is known to release what it removes.        *)
(***************************************************************************)
EXTENDS SparkSpends, FoldFacts

\* The tags of a spend, and of a block, are linking tags.
LEMMA TagsTyped ==
  ASSUME TypeOK
  PROVE  /\ \A tx \in Txs : TagsOf(tx) \subseteq LTags
         /\ \A b \in Blocks : SpendsIn(b) \subseteq Txs
         /\ \A b \in Blocks : BlockTags(b) \subseteq LTags
         /\ \A b \in Blocks : ChainTags(b) \subseteq LTags
<1>1. \A tx \in Txs : TagsOf(tx) \subseteq LTags
  BY SparkSpendsAssumption DEF TagsOf
<1>2. \A b \in Blocks : SpendsIn(b) \subseteq Txs
  BY DEF TypeOK, SpendsIn
<1>3. \A b \in Blocks : BlockTags(b) \subseteq LTags
  BY <1>1, <1>2, Zenon DEF BlockTags
<1>4. \A b \in Blocks : ChainTags(b) \subseteq LTags
  <2>1. \A b \in Blocks : \A a \in ChainOf[b] : a \in Blocks
    BY BlockTreeAssumption
  <2>2. QED
    BY <1>3, <2>1, Zenon DEF ChainTags
<1>5. QED
  BY <1>1, <1>2, <1>3, <1>4

\* A block is not among its proper ancestors, and they are the chain of its parent.
LEMMA ParentChain ==
  ASSUME NEW b \in Blocks, b # Genesis
  PROVE  /\ Parent[b] \in Blocks
         /\ ChainOf[b] = {b} \cup ChainOf[Parent[b]]
         /\ b \notin ChainOf[Parent[b]]
         /\ ChainOf[Parent[b]] \subseteq Blocks
BY BlockTreeAssumption

\* The tags of a chain are those of its last block and of the chain below it.
LEMMA ChainTagsParent ==
  ASSUME NEW b \in Blocks, b # Genesis
  PROVE  ChainTags(b) = BlockTags(b) \cup ChainTags(Parent[b])
<1>1. ChainOf[b] = {b} \cup ChainOf[Parent[b]]
  BY ParentChain
<1>2. QED
  BY <1>1 DEF ChainTags

-----------------------------------------------------------------------------
\* The types hold initially.
LEMMA InitTyped == Init => TypeOK
<1> SUFFICES ASSUME Init PROVE TypeOK
  OBVIOUS
<1>1. vtx \in [Blocks -> Seq(Txs)]
  <2>a. Bodies \subseteq Seq(Txs)
    BY SparkSpendsAssumption
  <2>b. <<>> \in Seq(Txs)
    OBVIOUS
  <2>1. \A body \in Bodies \cup {<<>>} : body \in Seq(Txs)
    BY <2>a, <2>b
  <2>2. vtx \in [Blocks -> Bodies \cup {<<>>}]
    BY DEF Init
  <2>3. QED
    BY <2>1, <2>2
<1>2. mempoolLTags \in [LTags -> Txs \cup {None}]
  BY DEF Init
<1>3. QED
  BY <1>1, <1>2, BlockTreeAssumption DEF Init, TypeOK

\* Releasing tags and reserving them for some spends keeps the map well typed.
LEMMA ReservationsTyped ==
  ASSUME NEW reserved \in [LTags -> Txs \cup {None}]
  PROVE  /\ \A tags : Released(reserved, tags) \in [LTags -> Txs \cup {None}]
         /\ \A txs \in SUBSET Txs : Reserved(reserved, txs) \in [LTags -> Txs \cup {None}]
<1>1. ASSUME NEW tags PROVE Released(reserved, tags) \in [LTags -> Txs \cup {None}]
  BY DEF Released
<1>2. ASSUME NEW txs \in SUBSET Txs
      PROVE  Reserved(reserved, txs) \in [LTags -> Txs \cup {None}]
  <2>1. ASSUME NEW tag \in LTags, \E tx \in txs : tag \in TagsOf(tx)
        PROVE  (CHOOSE tx \in txs : tag \in TagsOf(tx)) \in Txs
    BY <2>1
  <2>2. QED
    BY <2>1 DEF Reserved
<1>3. QED
  BY <1>1, <1>2

\* Every action keeps the types.
LEMMA TypeStep == TypeOK /\ [Next]_vars => TypeOK'
<1> SUFFICES ASSUME TypeOK, [Next]_vars PROVE TypeOK'
  OBVIOUS
<1> USE DEF TypeOK
<1>1. ASSUME NEW tx \in Txs, AcceptToMemoryPool(tx) PROVE TypeOK'
  <2>1. mempoolLTags' \in [LTags -> Txs \cup {None}]
    BY <1>1, ReservationsTyped DEF AcceptToMemoryPool
  <2>2. QED
    BY <1>1, <2>1 DEF AcceptToMemoryPool
<1>2. ASSUME NEW tx \in Txs, RemoveUnchecked(tx) PROVE TypeOK'
  <2>1. mempoolLTags' \in [LTags -> Txs \cup {None}]
    BY <1>2, ReservationsTyped DEF RemoveUnchecked
  <2>2. QED
    BY <1>2, <2>1 DEF RemoveUnchecked
<1>3. ASSUME NEW b \in Blocks, ConnectTip(b) PROVE TypeOK'
  <2>1. mempoolLTags' \in [LTags -> Txs \cup {None}]
    BY <1>3, ReservationsTyped DEF ConnectTip
  <2>2. mempool' \subseteq Txs
    BY <1>3 DEF ConnectTip
  <2>3. usedLTags' \subseteq LTags
    BY <1>3, TagsTyped DEF ConnectTip
  <2>4. QED
    BY <1>3, <2>1, <2>2, <2>3 DEF ConnectTip
<1>4. ASSUME NEW b \in Blocks, RefuseBlock(b) PROVE TypeOK'
  BY <1>4 DEF RefuseBlock
<1>5. ASSUME NEW b \in Blocks, RefuseBlockOverLimit(b) PROVE TypeOK'
  BY <1>5, TagsTyped DEF RefuseBlockOverLimit
<1>6. CASE DisconnectTip
  <2> DEFINE used == usedLTags \ BlockTags(tip)
             referencing == {tx \in mempool : Anchor[tx] = tip}
             left == mempool \ referencing
             reserved == Released(mempoolLTags, UNION {TagsOf(tx) : tx \in referencing})
             back == {tx \in SpendsIn(tip) \ left : Acceptable(tx, Parent[tip], used, reserved)}
             dropped == left \cap SpendsIn(tip)
  <2>1. /\ usedLTags' = used
        /\ mempool' = (left \ dropped) \cup back
        /\ mempoolLTags' = Released(Reserved(reserved, back),
                                    UNION {TagsOf(tx) : tx \in dropped})
        /\ tip' = Parent[tip]
        /\ UNCHANGED <<vtx, failed>>
    BY <1>6 DEF DisconnectTip
  <2>2. back \subseteq Txs
    BY TagsTyped
  <2>3. reserved \in [LTags -> Txs \cup {None}]
    BY ReservationsTyped
  <2>4. Reserved(reserved, back) \in [LTags -> Txs \cup {None}]
    BY <2>2, <2>3, ReservationsTyped
  <2> HIDE DEF back, reserved, dropped
  <2>5. mempoolLTags' \in [LTags -> Txs \cup {None}]
    BY <2>1, <2>4, ReservationsTyped
  <2>6. tip' \in Blocks
    BY <2>1, BlockTreeAssumption
  <2>7. QED
    BY <2>1, <2>2, <2>5, <2>6
<1>7. CASE Restart
  BY <1>7, TagsTyped DEF Restart
<1>8. CASE UNCHANGED vars
  BY <1>8 DEF vars
<1>9. QED
  BY <1>1, <1>2, <1>3, <1>4, <1>5, <1>6, <1>7, <1>8 DEF Next

\* What a block holds does not change, so neither do its tags.
LEMMA BodiesFixed ==
  ASSUME [Next]_vars
  PROVE  /\ vtx' = vtx
         /\ \A b : SpendsIn(b)' = SpendsIn(b)
         /\ \A b : BlockTags(b)' = BlockTags(b)
<1>1. vtx' = vtx
  BY DEF Next, vars, AcceptToMemoryPool, RemoveUnchecked, ConnectTip, RefuseBlock,
         RefuseBlockOverLimit, DisconnectTip, Restart
<1>2. \A b : SpendsIn(b)' = SpendsIn(b)
  BY <1>1 DEF SpendsIn
<1>3. QED
  BY <1>1, <1>2 DEF BlockTags

\* The tags of the blocks refused for a spork's limit.
LateTags == UNION {BlockTags(b) : b \in failed \cap OverLimit}

\* A connected block keeps NoDoubleSpend: CheckLTag compares its tags with the
\* recorded ones, which include those of the chain.
LEMMA ConnectKeepsNoDoubleSpend ==
  ASSUME IndInv, NEW b \in Blocks, ConnectTip(b)
  PROVE  NoDoubleSpend'
<1> USE DEF IndInv
<1>1. b # Genesis /\ Parent[b] = tip /\ tip' = b /\ vtx' = vtx
  BY DEF ConnectTip, Candidate
<1>2. ChainOf[tip'] = {b} \cup ChainOf[tip]
  BY <1>1, ParentChain
<1>3. \A c \in ChainOf[tip], i \in DOMAIN vtx[b] : \A j \in DOMAIN vtx[c] :
        TagsOf(vtx[b][i]) \cap TagsOf(vtx[c][j]) = {}
  <2> SUFFICES ASSUME NEW c \in ChainOf[tip], NEW i \in DOMAIN vtx[b], NEW j \in DOMAIN vtx[c]
               PROVE  TagsOf(vtx[b][i]) \cap TagsOf(vtx[c][j]) = {}
    OBVIOUS
  <2>1. TagsOf(vtx[b][i]) \subseteq BlockTags(b)
    BY DEF BlockTags, SpendsIn
  <2>2. TagsOf(vtx[c][j]) \subseteq BlockTags(c)
    BY DEF BlockTags, SpendsIn
  <2>3. BlockTags(c) \subseteq usedLTags
    BY DEF UsedTagsAccounted, ChainTags
  <2>4. BlockTags(b) \cap usedLTags = {}
    BY DEF ConnectTip, CheckBlockSpends
  <2>5. QED
    BY <2>1, <2>2, <2>3, <2>4
<1>4. \A i, j \in DOMAIN vtx[b] : i # j => TagsOf(vtx[b][i]) \cap TagsOf(vtx[b][j]) = {}
  BY DEF ConnectTip, CheckBlockSpends
<1>5. ASSUME NEW a \in {b} \cup ChainOf[tip], NEW c \in {b} \cup ChainOf[tip],
             NEW i \in DOMAIN vtx[a], NEW j \in DOMAIN vtx[c],
             <<a, i>> # <<c, j>>
      PROVE  TagsOf(vtx[a][i]) \cap TagsOf(vtx[c][j]) = {}
  <2>1. CASE a \in ChainOf[tip] /\ c \in ChainOf[tip]
    BY <1>5, <2>1 DEF NoDoubleSpend
  <2>2. CASE a = b /\ c \in ChainOf[tip]
    BY <1>3, <2>2
  <2>3. CASE a \in ChainOf[tip] /\ c = b
    <3>1. TagsOf(vtx[c][j]) \cap TagsOf(vtx[a][i]) = {}
      BY <1>3, <2>3
    <3> QED
      BY <3>1
  <2>4. CASE a = b /\ c = b
    <3>1. i # j
      BY <1>5, <2>4
    <3> QED
      BY <1>4, <2>4, <3>1
  <2> QED
    BY <2>1, <2>2, <2>3, <2>4
<1>6. SUFFICES ASSUME NEW a \in ChainOf[tip'], NEW c \in ChainOf[tip'],
                      NEW i \in DOMAIN vtx'[a], NEW j \in DOMAIN vtx'[c],
                      <<a, i>> # <<c, j>>
               PROVE  TagsOf(vtx'[a][i]) \cap TagsOf(vtx'[c][j]) = {}
  BY Zenon DEF NoDoubleSpend, TagsOf
<1>7. a \in {b} \cup ChainOf[tip] /\ c \in {b} \cup ChainOf[tip]
  BY <1>2, <1>6
<1>8. i \in DOMAIN vtx[a] /\ j \in DOMAIN vtx[c]
  BY <1>1, <1>6
<1>9. TagsOf(vtx[a][i]) \cap TagsOf(vtx[c][j]) = {}
  BY <1>5, <1>6, <1>7, <1>8, Zenon
<1>10. QED
  BY <1>1, <1>9

\* Disconnecting the tip forgets no tag of the blocks below it, as they share none
\* with it.
LEMMA DisconnectKeepsChainTags ==
  ASSUME IndInv, tip # Genesis
  PROVE  BlockTags(tip) \cap ChainTags(Parent[tip]) = {}
<1> USE DEF IndInv
<1>1. tip \in Blocks
  BY DEF TypeOK
<1>2. SUFFICES ASSUME NEW t, t \in BlockTags(tip), t \in ChainTags(Parent[tip])
               PROVE  FALSE
  OBVIOUS
<1>3. PICK c \in ChainOf[Parent[tip]] : t \in BlockTags(c)
  BY <1>2 DEF ChainTags
<1>4. PICK i \in DOMAIN vtx[tip] : t \in TagsOf(vtx[tip][i])
  BY <1>2 DEF BlockTags, SpendsIn
<1>5. PICK j \in DOMAIN vtx[c] : t \in TagsOf(vtx[c][j])
  BY <1>3 DEF BlockTags, SpendsIn
<1>6. c # tip /\ c \in ChainOf[tip] /\ tip \in ChainOf[tip]
  BY <1>1, ParentChain
<1>7. QED
  BY <1>4, <1>5, <1>6 DEF NoDoubleSpend

\* Every action keeps the two invariants about the recorded tags.
LEMMA TagsStep == IndInv /\ [Next]_vars => NoDoubleSpend' /\ UsedTagsAccounted'
<1> SUFFICES ASSUME IndInv, [Next]_vars PROVE NoDoubleSpend' /\ UsedTagsAccounted'
  OBVIOUS
<1> USE DEF IndInv
<1>a. /\ vtx' = vtx
      /\ \A b : BlockTags(b)' = BlockTags(b)
  BY BodiesFixed
<1>b. \A b : ChainTags(b)' = ChainTags(b)
  BY <1>a, Zenon DEF ChainTags
<1>c. tip \in Blocks
  BY DEF TypeOK
<1>d. /\ ChainTags(tip) \subseteq usedLTags
      /\ usedLTags \ ChainTags(tip) \subseteq LateTags
  BY DEF UsedTagsAccounted, LateTags
<1>e. failed \subseteq failed' => LateTags \subseteq LateTags'
  BY <1>a DEF LateTags
<1>f. ASSUME ChainTags(tip') \subseteq usedLTags',
             usedLTags' \ ChainTags(tip') \subseteq LateTags'
      PROVE  UsedTagsAccounted'
  BY <1>f, <1>b DEF UsedTagsAccounted, LateTags
<1>g. ASSUME tip' = tip PROVE NoDoubleSpend'
  BY <1>g, <1>a DEF NoDoubleSpend
<1>h. ASSUME UNCHANGED <<tip, failed, usedLTags>> PROVE UsedTagsAccounted'
  BY <1>h, <1>d, <1>e, <1>f
<1>1. ASSUME NEW tx \in Txs, AcceptToMemoryPool(tx) \/ RemoveUnchecked(tx)
      PROVE  NoDoubleSpend' /\ UsedTagsAccounted'
  BY <1>1, <1>g, <1>h DEF AcceptToMemoryPool, RemoveUnchecked
<1>2. ASSUME NEW b \in Blocks, ConnectTip(b)
      PROVE  NoDoubleSpend' /\ UsedTagsAccounted'
  <2>1. NoDoubleSpend'
    BY <1>2, ConnectKeepsNoDoubleSpend
  <2>2. /\ tip' = b
        /\ usedLTags' = usedLTags \cup BlockTags(b)
        /\ failed' = failed
        /\ b # Genesis
        /\ Parent[b] = tip
    BY <1>2 DEF ConnectTip, Candidate
  <2>3. ChainTags(b) = BlockTags(b) \cup ChainTags(tip)
    BY <2>2, ChainTagsParent
  <2>4. UsedTagsAccounted'
    BY <2>2, <2>3, <1>d, <1>e, <1>f
  <2>5. QED
    BY <2>1, <2>4
<1>3. ASSUME NEW b \in Blocks, RefuseBlock(b)
      PROVE  NoDoubleSpend' /\ UsedTagsAccounted'
  <2>1. tip' = tip /\ usedLTags' = usedLTags /\ failed \subseteq failed'
    BY <1>3 DEF RefuseBlock
  <2>2. QED
    BY <2>1, <1>d, <1>e, <1>f, <1>g
<1>4. ASSUME NEW b \in Blocks, RefuseBlockOverLimit(b)
      PROVE  NoDoubleSpend' /\ UsedTagsAccounted'
  <2>1. /\ tip' = tip
        /\ usedLTags' = usedLTags \cup BlockTags(b)
        /\ failed' = failed \cup {b}
        /\ b \in OverLimit
    BY <1>4 DEF RefuseBlockOverLimit
  <2>2. BlockTags(b) \subseteq LateTags'
    BY <2>1, <1>a DEF LateTags
  <2>3. LateTags \subseteq LateTags'
    BY <2>1, <1>e
  <2>4. QED
    BY <2>1, <2>2, <2>3, <1>d, <1>f, <1>g
<1>5. CASE DisconnectTip
  <2>1. /\ tip # Genesis
        /\ tip' = Parent[tip]
        /\ usedLTags' = usedLTags \ BlockTags(tip)
        /\ failed' = failed
    BY <1>5 DEF DisconnectTip
  <2>2. ChainTags(tip) = BlockTags(tip) \cup ChainTags(Parent[tip])
    BY <1>c, <2>1, ChainTagsParent
  <2>3. BlockTags(tip) \cap ChainTags(Parent[tip]) = {}
    BY <2>1, DisconnectKeepsChainTags
  <2>4. UsedTagsAccounted'
    BY <2>1, <2>2, <2>3, <1>d, <1>e, <1>f
  <2>5. ChainOf[tip'] \subseteq ChainOf[tip]
    BY <1>c, <2>1, ParentChain
  <2>6. NoDoubleSpend'
    BY <2>5, <1>a DEF NoDoubleSpend
  <2>7. QED
    BY <2>4, <2>6
<1>6. CASE Restart
  <2>1. tip' = tip /\ usedLTags' = ChainTags(tip) /\ failed' = failed
    BY <1>6 DEF Restart
  <2>2. QED
    BY <2>1, <1>f, <1>g
<1>7. CASE UNCHANGED vars
  BY <1>7, <1>g, <1>h DEF vars
<1>8. QED
  BY <1>1, <1>2, <1>3, <1>4, <1>5, <1>6, <1>7 DEF Next

\* A block refused now is invalid after its own ancestors: with no block refused for
\* the limit, the recorded tags are those of the chain.
LEMMA FailedStep == IndInv /\ [Next]_vars => FailedOnlyInvalid'
<1> SUFFICES ASSUME IndInv, [Next]_vars, (failed \cap OverLimit = {})',
                    NEW c \in failed'
             PROVE  (~CheckBlockSpends(c, ChainTags(Parent[c])))'
  BY DEF FailedOnlyInvalid
<1> USE DEF IndInv
<1>1. /\ vtx' = vtx
      /\ \A b : SpendsIn(b)' = SpendsIn(b)
      /\ \A b : BlockTags(b)' = BlockTags(b)
  BY BodiesFixed
<1>2. ChainTags(Parent[c])' = ChainTags(Parent[c])
  BY <1>1, Zenon DEF ChainTags
<1>3. SUFFICES ~CheckBlockSpends(c, ChainTags(Parent[c]))
  BY <1>1, <1>2 DEF CheckBlockSpends
<1>4. CASE c \in failed
  <2>1. failed \subseteq failed'
    BY DEF Next, vars, AcceptToMemoryPool, RemoveUnchecked, ConnectTip, RefuseBlock,
           RefuseBlockOverLimit, DisconnectTip, Restart
  <2>2. failed \cap OverLimit = {}
    BY <2>1
  <2>3. QED
    BY <1>4, <2>2 DEF FailedOnlyInvalid
<1>5. CASE c \notin failed
  <2>1. RefuseBlock(c) \/ RefuseBlockOverLimit(c)
    BY <1>5 DEF Next, vars, AcceptToMemoryPool, RemoveUnchecked, ConnectTip, RefuseBlock,
                RefuseBlockOverLimit, DisconnectTip, Restart
  <2>2. RefuseBlock(c)
    BY <2>1 DEF RefuseBlockOverLimit
  <2>3. failed \cap OverLimit = {} /\ Parent[c] = tip /\ ~CheckBlockSpends(c, usedLTags)
    BY <2>2 DEF RefuseBlock, Candidate
  <2>4. UNION {BlockTags(b) : b \in failed \cap OverLimit} = {}
    BY <2>3
  <2>5. usedLTags = ChainTags(tip)
    BY <2>4 DEF UsedTagsAccounted
  <2>6. QED
    BY <2>3, <2>5
<1>6. QED
  BY <1>4, <1>5

\* Every action keeps the anchors of the mempool's spends on the chain.
LEMMA AnchorsStep == IndInv /\ [Next]_vars => AnchorsOnChain'
<1> SUFFICES ASSUME IndInv, [Next]_vars, NEW tx \in mempool' PROVE Anchor[tx] \in ChainOf[tip']
  BY DEF AnchorsOnChain
<1> USE DEF IndInv
<1>1. tx \in mempool => Anchor[tx] \in ChainOf[tip]
  BY DEF AnchorsOnChain
<1>2. tip \in Blocks
  BY DEF TypeOK
<1>3. ASSUME NEW x \in Txs, AcceptToMemoryPool(x) \/ RemoveUnchecked(x)
      PROVE  Anchor[tx] \in ChainOf[tip']
  BY <1>1, <1>3 DEF AcceptToMemoryPool, RemoveUnchecked, Acceptable
<1>4. ASSUME NEW b \in Blocks, ConnectTip(b) PROVE Anchor[tx] \in ChainOf[tip']
  <2>1. b # Genesis /\ Parent[b] = tip /\ tip' = b /\ tx \in mempool
    BY <1>4 DEF ConnectTip, Candidate
  <2>2. ChainOf[b] = {b} \cup ChainOf[tip]
    BY <2>1, ParentChain
  <2>3. QED
    BY <1>1, <2>1, <2>2
<1>5. ASSUME NEW b \in Blocks, RefuseBlock(b) \/ RefuseBlockOverLimit(b)
      PROVE  Anchor[tx] \in ChainOf[tip']
  BY <1>1, <1>5 DEF RefuseBlock, RefuseBlockOverLimit
<1>6. CASE DisconnectTip
  <2>1. tip # Genesis /\ tip' = Parent[tip]
    BY <1>6 DEF DisconnectTip
  <2>2. ChainOf[tip] = {tip} \cup ChainOf[Parent[tip]]
    BY <1>2, <2>1, ParentChain
  <2>3. \/ tx \in mempool /\ Anchor[tx] # tip
        \/ Anchor[tx] \in ChainOf[Parent[tip]]
    BY <1>6 DEF DisconnectTip, Acceptable
  <2>4. QED
    BY <1>1, <2>1, <2>2, <2>3
<1>7. CASE Restart
  BY <1>7 DEF Restart
<1>8. CASE UNCHANGED vars
  BY <1>1, <1>8 DEF vars
<1>9. QED
  BY <1>3, <1>4, <1>5, <1>6, <1>7, <1>8 DEF Next

-----------------------------------------------------------------------------
(* FoldLeft over a sequence of n elements takes the last one away.           *)

\* The position FoldLeft takes away.
MaxPick(n) == [s \in SUBSET (1..n) |-> Max(s)]

\* fold is what FoldLeft computes with step, for every subset of the positions;
\* the subsets that are prefixes are what a proof looks at.
SolvesFoldLeft(fold, n, V, base, step) ==
  /\ fold \in [SUBSET (1..n) -> V]
  /\ fold[{}] = base
  /\ \A s \in SUBSET (1..n) : s # {} => fold[s] = step[Max(s)][fold[s \ {Max(s)}]]

\* FoldLeft's recursion has a solution.
LEMMA FoldLeftRecursion ==
  ASSUME NEW n \in Nat, NEW V, NEW base \in V, NEW step \in [1..n -> [V -> V]]
  PROVE  \E fold : SolvesFoldLeft(fold, n, V, base, step)
<1>1. IsFiniteSet(1..n)
  BY FS_Interval
<1>2. Picks(MaxPick(n), 1..n)
  BY MaxInterval DEF Picks, MaxPick
<1>3. PICK fold : SolvesFold(fold, 1..n, V, base, MaxPick(n), step)
  BY <1>1, <1>2, SetRecursion, Zenon
<1> QED
  BY <1>3 DEF SolvesFold, SolvesFoldLeft, MaxPick

\* The solution at the prefixes: the first element first.
LEMMA FoldLeftPrefixes ==
  ASSUME NEW n \in Nat, NEW V, NEW base, NEW step, NEW fold,
         SolvesFoldLeft(fold, n, V, base, step)
  PROVE  /\ fold[1..0] = base
         /\ \A k \in 0..n : fold[1..k] \in V
         /\ \A k \in 1..n : fold[1..k] = step[k][fold[1..(k - 1)]]
<1>1. fold[1..0] = base
  BY 1..0 = {} DEF SolvesFoldLeft
<1>2. ASSUME NEW k \in 0..n PROVE 1..k \in SUBSET (1..n)
  BY \A m \in 1..k : m \in 1..n
<1>3. ASSUME NEW k \in 0..n PROVE fold[1..k] \in V
  BY <1>2 DEF SolvesFoldLeft
<1>4. ASSUME NEW k \in 1..n PROVE fold[1..k] = step[k][fold[1..(k - 1)]]
  <2>0. k \in Nat /\ k > 0 /\ k \in 1..k
    OBVIOUS
  <2>1. 1..k \in SUBSET (1..n) /\ 1..k # {}
    BY <1>2, <2>0
  <2>2. Max(1..k) = k
    BY <2>0, MaxInterval
  <2>3. (1..k) \ {k} = 1..(k - 1)
    BY <2>0
  <2> QED
    BY <2>1, <2>2, <2>3 DEF SolvesFoldLeft
<1> QED
  BY <1>1, <1>3, <1>4

\* Functions that agree at the empty set and, with the largest position, wherever
\* they agree without it, are equal at all positions.
LEMMA FoldLeftUnique ==
  ASSUME NEW n \in Nat, NEW f, NEW g, f[{}] = g[{}],
         \A s \in SUBSET (1..n) :
           s # {} /\ f[s \ {Max(s)}] = g[s \ {Max(s)}] => f[s] = g[s]
  PROVE  f[1..n] = g[1..n]
<1>1. IsFiniteSet(1..n)
  BY FS_Interval
<1>2. Picks(MaxPick(n), 1..n)
  BY MaxInterval DEF Picks, MaxPick
<1>3. AgreeInductively(f, g, 1..n, MaxPick(n))
  BY DEF AgreeInductively, MaxPick
<1>4. \A s \in SUBSET (1..n) : f[s] = g[s]
  <2> DEFINE D == 1..n
             pick == MaxPick(n)
  <2>1. IsFiniteSet(D) /\ Picks(pick, D) /\ AgreeInductively(f, g, D, pick)
    BY <1>1, <1>2, <1>3
  <2> HIDE DEF D, pick
  <2>2. \A s \in SUBSET D : f[s] = g[s]
    BY <2>1, SetRecursionUnique
  <2> QED
    BY <2>2 DEF D
<1> QED
  BY <1>4

-----------------------------------------------------------------------------
(* The reservations of the mempool. *)

\* The conflicting spends that a connected block drives out of the mempool, and the
\* block's own, have their tags released: what the fold over the block's spends has
\* removed at each of them it has released, and it never takes a release back.
LEMMA ConnectReleases ==
  ASSUME TypeOK, NEW b \in Blocks
  PROVE  LET st == RemoveConflictingPrivacyTransactionsFromMempool(b)
         IN  /\ \A c \in st.gone : TagsOf(c) \subseteq st.released
             /\ \A i \in DOMAIN vtx[b] : TagsOf(vtx[b][i]) \subseteq st.released
<1> DEFINE txs == vtx[b]
           n == Len(txs)
           D == 1..n
           base == [gone |-> {}, released |-> {}]
           V == {st \in [gone : SUBSET Txs, released : SUBSET LTags] :
                   \A c \in st.gone : TagsOf(c) \subseteq st.released}
           step == [i \in D |-> [st \in V |-> RemoveConflicting(st, txs[i])]]
<1>1. txs \in Seq(Txs) /\ n \in Nat /\ DOMAIN txs = D /\ \A i \in D : txs[i] \in Txs
  BY DEF TypeOK
<1>2. base \in V
  OBVIOUS
<1>3. ASSUME NEW i \in D, NEW st \in V
      PROVE  /\ RemoveConflicting(st, txs[i]) \in V
             /\ TagsOf(txs[i]) \subseteq RemoveConflicting(st, txs[i]).released
             /\ st.released \subseteq RemoveConflicting(st, txs[i]).released
  <2> DEFINE tx == txs[i]
             tags == TxLTags[tx]
             hits == {k \in DOMAIN tags : tags[k] \notin st.released /\ mempoolLTags[tags[k]] # None}
             conflicting == IF hits = {}
                            THEN None
                            ELSE mempoolLTags[tags[CHOOSE k \in hits : \A l \in hits : k <= l]]
             removed == {conflicting} \cap (mempool \ (st.gone \cup {tx}))
             new == [gone |-> st.gone \cup removed,
                     released |-> st.released \cup TagsOf(tx) \cup UNION {TagsOf(c) : c \in removed}]
  <2>1. RemoveConflicting(st, tx) = new
    BY DEF RemoveConflicting
  <2>2. removed \subseteq Txs
    BY DEF TypeOK
  <2> HIDE DEF removed
  <2>3. tx \in Txs /\ TagsOf(tx) \subseteq LTags /\ \A c \in removed : TagsOf(c) \subseteq LTags
    BY <1>1, <2>2, TagsTyped
  <2> HIDE DEF tx
  <2>4. new \in [gone : SUBSET Txs, released : SUBSET LTags]
    BY <2>2, <2>3
  <2>5. ASSUME NEW c \in new.gone PROVE TagsOf(c) \subseteq new.released
    OBVIOUS
  <2>6. TagsOf(tx) \subseteq new.released /\ st.released \subseteq new.released
    OBVIOUS
  <2> HIDE DEF new
  <2> QED
    BY <2>1, <2>4, <2>5, <2>6 DEF tx
<1>4. step \in [D -> [V -> V]]
  BY <1>3
<1>6. ASSUME NEW fold, SolvesFoldLeft(fold, n, V, base, step)
      PROVE  RemoveConflictingPrivacyTransactionsFromMempool(b) = fold[D]
  <2> DEFINE It(iter) == [s \in SUBSET D |-> IF s = {} THEN base
                            ELSE RemoveConflicting(iter[s \ {Max(s)}], txs[Max(s)])]
             it == CHOOSE iter : iter = It(iter)
  <2>1. fold = It(fold)
    <3>1. ASSUME NEW s \in SUBSET D, s # {}
          PROVE  fold[s] = RemoveConflicting(fold[s \ {Max(s)}], txs[Max(s)])
      <4>1. Max(s) \in D /\ s \ {Max(s)} \in SUBSET D
        BY <1>1, <3>1, MaxInterval
      <4>2. fold[s \ {Max(s)}] \in V
        BY <1>6, <4>1 DEF SolvesFoldLeft
      <4>3. fold[s] = step[Max(s)][fold[s \ {Max(s)}]]
        BY <1>6, <3>1 DEF SolvesFoldLeft
      <4> QED
        BY <4>1, <4>2, <4>3
    <3>2. fold[{}] = base /\ fold \in [SUBSET D -> V]
      BY <1>6 DEF SolvesFoldLeft
    <3> HIDE DEF V, D, base
    <3> QED
      BY <3>1, <3>2
  <2>2. it = It(it)
    BY <2>1, Zenon
  <2>3. RemoveConflictingPrivacyTransactionsFromMempool(b) = it[D]
    BY <1>1 DEF RemoveConflictingPrivacyTransactionsFromMempool, FoldLeft, MapThenFoldSet
  <2> QED 
    <3> HIDE DEF it
    <3>1. it[{}] = fold[{}]
      BY <2>1, <2>2
    <3>2. ASSUME NEW s \in SUBSET D, s # {}, it[s \ {Max(s)}] = fold[s \ {Max(s)}]
          PROVE  it[s] = fold[s]
      <4>1. it[s] = RemoveConflicting(it[s \ {Max(s)}], txs[Max(s)])
        BY <2>2, <3>2
      <4>2. fold[s] = RemoveConflicting(fold[s \ {Max(s)}], txs[Max(s)])
        BY <2>1, <3>2
      <4> QED
        BY <3>2, <4>1, <4>2
    <3>3. it[D] = fold[D]
      <4> HIDE DEF n
      <4> QED
        BY <1>1, <3>1, <3>2, FoldLeftUnique
    <3> QED
      BY <2>3, <3>3
<1>7. PICK fold : SolvesFoldLeft(fold, n, V, base, step)
  <2> HIDE DEF n, V, base, step
  <2> QED
    BY <1>1, <1>2, <1>4, FoldLeftRecursion, Zenon
<1>8. /\ \A k \in 0..n : fold[1..k] \in V
      /\ \A k \in 1..n : fold[1..k] = step[k][fold[1..(k - 1)]]
  <2> HIDE DEF n, V, base, step
  <2> QED
    BY <1>1, <1>7, FoldLeftPrefixes
<1> DEFINE T == {k \in Nat : k <= n => \A i \in 1..k : TagsOf(txs[i]) \subseteq fold[1..k].released}
<1>9. ASSUME NEW k \in T PROVE k + 1 \in T
  <2> SUFFICES ASSUME k + 1 <= n, NEW i \in 1..(k + 1)
               PROVE  TagsOf(txs[i]) \subseteq fold[1..(k + 1)].released
    OBVIOUS
  <2>1. k \in Nat /\ k + 1 \in D /\ (k + 1) - 1 = k /\ k \in 0..n
    BY <1>1
  <2>2. fold[1..k] \in V
    BY <1>8, <2>1
  <2>3. fold[1..(k + 1)] = step[k + 1][fold[1..k]]
    BY <1>8, <2>1
  <2>4. fold[1..(k + 1)] = RemoveConflicting(fold[1..k], txs[k + 1])
    BY <2>1, <2>2, <2>3
  <2>5. /\ TagsOf(txs[k + 1]) \subseteq fold[1..(k + 1)].released
        /\ fold[1..k].released \subseteq fold[1..(k + 1)].released
    BY <1>3, <2>1, <2>2, <2>4
  <2>6. i = k + 1 \/ i \in 1..k
    BY <2>1
  <2>7. i \in 1..k => TagsOf(txs[i]) \subseteq fold[1..k].released
    BY <2>1
  <2> QED
    BY <2>5, <2>6, <2>7
<1>10. 0 \in T
  OBVIOUS
<1>11. T = Nat
  <2> HIDE DEF T
  <2>1. T \in SUBSET Nat
    BY DEF T
  <2> QED
    BY <1>9, <1>10, <2>1, NatSetInduction
<1>12. \A i \in D : TagsOf(txs[i]) \subseteq fold[D].released
  BY <1>1, <1>11
<1>13. RemoveConflictingPrivacyTransactionsFromMempool(b) = fold[D]
  BY <1>6, <1>7
<1>14. fold[D] \in V
  BY <1>1, <1>8
<1> QED
  BY <1>1, <1>12, <1>13, <1>14

\* Every action keeps each reserved tag with a spend of the mempool: whatever leaves
\* the mempool has its tags released.
LEMMA ReservationsStep == TypeOK /\ ReservationsOwned /\ [Next]_vars => ReservationsOwned'
<1> SUFFICES ASSUME TypeOK, ReservationsOwned, [Next]_vars,
                    NEW t \in LTags, mempoolLTags'[t] # None
             PROVE  mempoolLTags'[t] \in mempool' /\ t \in TagsOf(mempoolLTags'[t])
  BY DEF ReservationsOwned
<1> DEFINE owner == mempoolLTags[t]
           Kept == mempoolLTags'[t] \in mempool' /\ t \in TagsOf(mempoolLTags'[t])
<1>1. owner # None => owner \in mempool /\ t \in TagsOf(owner)
  BY DEF ReservationsOwned
<1>2. ASSUME NEW tx \in Txs, AcceptToMemoryPool(tx) PROVE Kept
  <2>1. /\ mempool' = mempool \cup {tx}
        /\ mempoolLTags' = Reserved(mempoolLTags, {tx})
    BY <1>2 DEF AcceptToMemoryPool
  <2>2. CASE t \in TagsOf(tx)
    <3>1. (CHOOSE x \in {tx} : t \in TagsOf(x)) = tx
      BY <2>2
    <3> QED
      BY <2>1, <2>2, <3>1 DEF Reserved
  <2>3. CASE t \notin TagsOf(tx)
    BY <1>1, <2>1, <2>3 DEF Reserved
  <2> QED
    BY <2>2, <2>3
<1>3. ASSUME NEW tx \in Txs, RemoveUnchecked(tx) PROVE Kept
  BY <1>1, <1>3 DEF RemoveUnchecked, Released
<1>4. ASSUME NEW b \in Blocks, ConnectTip(b) PROVE Kept
  <2> DEFINE st == RemoveConflictingPrivacyTransactionsFromMempool(b)
  <2>1. /\ mempool' = mempool \ (st.gone \cup SpendsIn(b))
        /\ mempoolLTags' = Released(mempoolLTags, st.released)
    BY <1>4 DEF ConnectTip
  <2>2. /\ \A c \in st.gone : TagsOf(c) \subseteq st.released
        /\ \A c \in SpendsIn(b) : TagsOf(c) \subseteq st.released
    BY ConnectReleases DEF SpendsIn
  <2> HIDE DEF st
  <2>3. t \notin st.released /\ mempoolLTags'[t] = owner
    BY <2>1 DEF Released
  <2> QED
    BY <1>1, <2>1, <2>2, <2>3
<1>5. ASSUME NEW b \in Blocks, RefuseBlock(b) \/ RefuseBlockOverLimit(b) PROVE Kept
  BY <1>1, <1>5 DEF RefuseBlock, RefuseBlockOverLimit
<1>6. CASE DisconnectTip
  <2> DEFINE used == usedLTags \ BlockTags(tip)
             referencing == {tx \in mempool : Anchor[tx] = tip}
             left == mempool \ referencing
             reserved == Released(mempoolLTags, UNION {TagsOf(tx) : tx \in referencing})
             back == {tx \in SpendsIn(tip) \ left : Acceptable(tx, Parent[tip], used, reserved)}
             dropped == left \cap SpendsIn(tip)
  <2>1. /\ mempool' = (left \ dropped) \cup back
        /\ mempoolLTags' = Released(Reserved(reserved, back),
                                    UNION {TagsOf(tx) : tx \in dropped})
    BY <1>6 DEF DisconnectTip
  <2>2. t \notin UNION {TagsOf(tx) : tx \in dropped} /\ mempoolLTags'[t] = Reserved(reserved, back)[t]
    BY <2>1 DEF Released
  <2>3. CASE \E tx \in back : t \in TagsOf(tx)
    <3> DEFINE x == CHOOSE tx \in back : t \in TagsOf(tx)
    <3> HIDE DEF back
    <3>1. x \in back /\ t \in TagsOf(x)
      BY <2>3
    <3>2. Reserved(reserved, back)[t] = x
      BY <2>3 DEF Reserved
    <3> QED
      BY <2>1, <2>2, <3>1, <3>2
  <2>4. CASE ~ \E tx \in back : t \in TagsOf(tx)
    <3>1. Reserved(reserved, back)[t] = reserved[t]
      BY <2>4 DEF Reserved
    <3>2. t \notin UNION {TagsOf(tx) : tx \in referencing} /\ reserved[t] = owner
      BY <2>2, <3>1 DEF Released
    <3>3. owner \in left /\ t \in TagsOf(owner)
      BY <1>1, <2>2, <3>1, <3>2
    <3>4. owner \notin dropped
      BY <2>2, <3>3
    <3> QED
      BY <2>1, <2>2, <3>1, <3>2, <3>3, <3>4
  <2> QED
    BY <2>3, <2>4
<1>7. CASE Restart
  BY <1>7 DEF Restart
<1>8. CASE UNCHANGED vars
  BY <1>1, <1>8 DEF vars
<1>9. QED
  BY <1>2, <1>3, <1>4, <1>5, <1>6, <1>7, <1>8 DEF Next

-----------------------------------------------------------------------------
\* The variables stay in their types, for every block tree and every set of spends.
THEOREM TypeCorrect == Spec => []TypeOK
<1>1. Init => TypeOK
  BY InitTyped
<1>2. TypeOK /\ [Next]_vars => TypeOK'
  BY TypeStep
<1>3. QED
  BY <1>1, <1>2, PTL DEF Spec

\* The invariants hold initially, on the chain that is the empty genesis block.
LEMMA IndInit == Init => IndInv
<1> SUFFICES ASSUME Init PROVE IndInv
  OBVIOUS
<1>1. TypeOK
  BY InitTyped
<1>2. vtx[Genesis] = <<>> /\ ChainOf[tip] = {Genesis}
  BY BlockTreeAssumption DEF Init
<1>3. BlockTags(Genesis) = {}
  BY <1>2 DEF BlockTags, SpendsIn
<1>4. ChainTags(tip) = {}
  BY <1>2, <1>3 DEF ChainTags
<1>5. NoDoubleSpend
  BY <1>2 DEF NoDoubleSpend
<1>6. UsedTagsAccounted
  BY <1>4 DEF UsedTagsAccounted, Init
<1>7. QED
  BY <1>1, <1>5, <1>6 DEF IndInv, FailedOnlyInvalid, AnchorsOnChain, Init

\* The inductive invariant holds in every reachable state.
THEOREM Invariance == Spec => []IndInv
<1>1. Init => IndInv
  BY IndInit
<1>2. IndInv /\ [Next]_vars => IndInv'
  <2> SUFFICES ASSUME IndInv, [Next]_vars PROVE IndInv'
    OBVIOUS
  <2>1. TypeOK'
    BY TypeStep DEF IndInv
  <2>2. QED
    BY <2>1, TagsStep, FailedStep, AnchorsStep DEF IndInv
<1>3. QED
  BY <1>1, <1>2, PTL DEF Spec

\* No linking tag is spent twice on the active chain: CheckLTag on connecting,
\* AddSpend and RemoveSpend keep it through reorganisations, refusals and restarts.
THEOREM NoDoubleSpendHolds == Spec => []NoDoubleSpend
<1>1. IndInv => NoDoubleSpend
  BY DEF IndInv
<1>2. QED
  BY <1>1, Invariance, PTL

\* usedLTags holds every tag of the active chain, and more only after a block was
\* refused by IsBlockAllowed.
THEOREM UsedTagsAccountedHolds == Spec => []UsedTagsAccounted
<1>1. IndInv => UsedTagsAccounted
  BY DEF IndInv
<1>2. QED
  BY <1>1, Invariance, PTL

\* Without such a refusal InvalidBlockFound marks only blocks that are invalid after
\* their own ancestors.
THEOREM FailedOnlyInvalidHolds == Spec => []FailedOnlyInvalid
<1>1. IndInv => FailedOnlyInvalid
  BY DEF IndInv
<1>2. QED
  BY <1>1, Invariance, PTL

\* RemoveSpendReferencingBlock keeps every spend of the mempool anchored on the
\* active chain.
THEOREM AnchorsOnChainHolds == Spec => []AnchorsOnChain
<1>1. IndInv => AnchorsOnChain
  BY DEF IndInv
<1>2. QED
  BY <1>1, Invariance, PTL

\* No spend is refused on account of a transaction that has left the mempool:
\* RemoveConflictingPrivacyTransactionsFromMempool, removeUnchecked and
\* RemoveSpendFromMempool release what they remove.
THEOREM ReservationsOwnedHolds == Spec => []ReservationsOwned
<1>1. Init => ReservationsOwned
  BY DEF Init, ReservationsOwned
<1>2. TypeOK /\ ReservationsOwned /\ [Next]_vars => ReservationsOwned'
  BY ReservationsStep
<1>3. QED
  BY <1>1, <1>2, TypeCorrect, PTL DEF Spec
=============================================================================
