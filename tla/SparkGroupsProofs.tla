-------------------------- MODULE SparkGroupsProofs --------------------------
(***************************************************************************)
(* Proofs about the coin groups of SparkGroups, for every bound on coins   *)
(* and heights.                                                            *)
(*                                                                         *)
(* The inductive invariant says that the chain has a trace: the states     *)
(* that AddBlock computes one after the other from Reset, of which the     *)
(* node's state is the last.  Along the trace                              *)
(*   - every block stores the group ConnectBlockSpark takes in the state   *)
(*     before it: the latest one or the next (StoredIn);                   *)
(*   - every state is sound: groups are numbered in the order of their     *)
(*     blocks and without a gap, each ends with its last minting block and *)
(*     counts the coins of its set, carried ones included (Sound).         *)
(* ConnectBlockSpark adds a state to the trace, as the group it grows or   *)
(* makes is the one AddBlock would.  RemoveBlock takes the last one away:  *)
(* the walk for an edged block finds coins of the previous group exactly   *)
(* when the block is the first of its group, or an assert fails.  A        *)
(* restart computes the last state again.                                  *)
(***************************************************************************)
EXTENDS SparkGroups, FoldFacts

-----------------------------------------------------------------------------
(* The chain as the walks see it. *)

Group == [first : 0..MaxHeight, last : 0..MaxHeight, nCoins : Nat]

\* States of CSparkState whose groups end at height n at the latest.
StatesUpTo(n) ==
  {st \in [groups : [GroupIds -> Group], latest : 0..MaxHeight,
           used : SUBSET (1..MaxHeight), meta : SUBSET GroupIds] :
     \A g \in GroupIds : st.groups[g].last <= n}

\* What CoinsBetween sums, and what GroupCountsItsCoins does.
GroupCoins(ch, g) == [i \in DOMAIN ch |-> CountCoinInBlock(ch, i, g)]
Coins(ch) == [i \in DOMAIN ch |-> ch[i].coins]

\* The members of a block index.
LEMMA BlocksTyped ==
  ASSUME NEW ch \in Seq(BlockIndex), NEW i \in 1..Len(ch)
  PROVE  /\ ch[i] \in BlockIndex
         /\ ch[i].coins \in Nat /\ ch[i].coins \in MintCounts
         /\ ch[i].group \in Nat /\ ch[i].group <= MaxHeight
         /\ ch[i].spend \in Nat /\ ch[i].spend <= MaxHeight
         /\ \A g : CountCoinInBlock(ch, i, g) \in Nat
<1>1. ch[i] \in BlockIndex
  OBVIOUS
<1>2. ch[i].coins \in MintCounts /\ ch[i].group \in 0..MaxHeight /\ ch[i].spend \in 0..MaxHeight
  BY <1>1, Zenon DEF BlockIndex
<1>3. ch[i].coins \in Nat
  <2>1. MaxCoinInGroup \in Nat /\ \A c \in MintCounts : c \in 0..MaxCoinInGroup
    BY SparkGroupsAssumption, Zenon
  <2> QED
    BY <1>2, <2>1
<1> QED
  BY <1>1, <1>2, <1>3, SparkGroupsAssumption DEF CountCoinInBlock

\* The function that CoinsBetween sums, on the blocks of the chain.
LEMMA CountsTyped ==
  ASSUME NEW ch \in Seq(BlockIndex), NEW g, NEW S \in SUBSET (1..Len(ch))
  PROVE  /\ IsFiniteSet(S)
         /\ NatValued(GroupCoins(ch, g), S)
         /\ NatValued(Coins(ch), S)
<1>1. IsFiniteSet(S)
  <2>1. IsFiniteSet(1..Len(ch))
    BY Len(ch) \in Nat, FS_Interval
  <2> QED
    BY <2>1, FS_Subset, Zenon
<1>2. DOMAIN ch = 1..Len(ch)
  OBVIOUS
<1> QED
  BY <1>1, <1>2, BlocksTyped, Zenon DEF NatValued, GroupCoins, Coins

\* The coins of a group between two blocks of the chain are counted.
LEMMA CoinsBetweenTyped ==
  ASSUME NEW ch \in Seq(BlockIndex), NEW g, NEW lo \in Nat, NEW hi \in 0..Len(ch)
  PROVE  CoinsBetween(ch, g, lo, hi) \in Nat
<1> DEFINE S == {i \in lo..hi : i > 0}
           f == GroupCoins(ch, g)
<1>1. S \in SUBSET (1..Len(ch))
  OBVIOUS
<1>2. IsFiniteSet(S) /\ NatValued(f, S)
  BY <1>1, CountsTyped, Zenon
<1> HIDE DEF S, f
<1>3. SumFunctionOnSet(f, S) \in Nat
  BY <1>2, SumTakesEach, Zenon
<1> QED
  BY <1>3, Zenon DEF CoinsBetween, GroupCoins, S, f

\* CountLastNCoins ends at a block that mints coins of the group, if there is one.
LEMMA CountLastTyped ==
  ASSUME NEW ch \in Seq(BlockIndex), NEW groups \in [GroupIds -> Group],
         NEW g \in GroupIds, groups[g].last <= Len(ch), NEW required
  PROVE  LET count == CountLastNCoins(groups, ch, g, required)
             minting == MintingBlocks(ch, g, groups[g].last)
         IN  /\ count.coins \in Nat
             /\ count.first \in 0..groups[g].last
             /\ minting # {} => count.first \in minting
             /\ count.coins = CoinsBetween(ch, g, count.first, groups[g].last)
<1> DEFINE last == groups[g].last
           minting == MintingBlocks(ch, g, last)
           enough == {h \in minting : CoinsBetween(ch, g, h, last) >= required}
           first == IF minting = {} THEN 0 ELSE IF enough # {} THEN Max(enough) ELSE Min(minting)
           count == CountLastNCoins(groups, ch, g, required)
<1>1. last \in Nat /\ last <= Len(ch) /\ last \in 0..Len(ch)
  BY SparkGroupsAssumption DEF Group
<1>2. count = [coins |-> CoinsBetween(ch, g, first, last), first |-> first]
  BY Zenon DEF CountLastNCoins
<1>3. minting \in SUBSET (1..last) /\ enough \in SUBSET (1..last) /\ enough \subseteq minting
  BY Zenon DEF MintingBlocks
<1> HIDE DEF minting, enough, last
<1>4. enough # {} => Max(enough) \in enough
  BY <1>1, <1>3, MaxInterval, Zenon
<1>5. minting # {} => Min(minting) \in minting
  BY <1>1, <1>3, MinMember
<1>6. first \in 0..last /\ (minting # {} => first \in minting)
  <2>1. minting = {} => first = 0
    BY Zenon
  <2>2. minting # {} => first \in minting
    BY <1>3, <1>4, <1>5, Zenon
  <2>3. \A m \in minting : m \in 0..last
    BY <1>1, <1>3
  <2> QED
    BY <1>1, <2>1, <2>2, <2>3
<1> HIDE DEF first, count
<1>7. CoinsBetween(ch, g, first, last) \in Nat
  BY <1>1, <1>6, CoinsBetweenTyped
<1> QED
  BY <1>2, <1>6, <1>7 DEF count, minting, last

-----------------------------------------------------------------------------
(* One block: AddBlock, member by member. *)

\* Every block that mints coins has a group.
Grouped(ch) == \A i \in 1..Len(ch) : ch[i].coins # 0 => ch[i].group \in GroupIds

\* The group of block h after AddBlock.
GroupAfter(ch, st, h) ==
  LET g == ch[h].group
  IN  IF st.groups[g].first = 0
      THEN NewGroup(st.groups, ch, g, h, ch[h].coins)
      ELSE GrownGroup(st.groups[g], h, ch[h].coins)

\* AddBlock, member by member, for a block without coins.
LEMMA AddBlockEmpty ==
  ASSUME NEW ch, NEW h, ch[h].coins = 0, NEW n, NEW st \in StatesUpTo(n)
  PROVE  AddBlock(ch, st, h) =
           [groups |-> st.groups, latest |-> st.latest,
            used |-> AddSpend(st.used, st.meta, h, ch[h].spend), meta |-> st.meta]
BY DEF AddBlock, StatesUpTo

\* And for one that mints.
LEMMA AddBlockMinting ==
  ASSUME NEW ch, NEW h, ch[h].coins # 0, NEW n, NEW st \in StatesUpTo(n),
         NEW g, g = ch[h].group
  PROVE  AddBlock(ch, st, h) =
           [groups |-> [st.groups EXCEPT ![g] = GroupAfter(ch, st, h)], latest |-> g,
            used |-> AddSpend(st.used, st.meta \cup {g}, h, ch[h].spend),
            meta |-> st.meta \cup {g}]
<1> DEFINE group == GroupAfter(ch, st, h)
           minted == [groups |-> [st.groups EXCEPT ![g] = group], latest |-> g,
                      used |-> st.used, meta |-> st.meta \cup {g}]
<1>1. AddBlock(ch, st, h) =
        [minted EXCEPT !.used = AddSpend(minted.used, minted.meta, h, ch[h].spend)]
  BY Zenon DEF AddBlock, GroupAfter
<1> HIDE DEF group
<1> QED
  BY <1>1, Zenon DEF group

\* What GroupAfter returns, for a new group and for one that exists.
LEMMA GroupAfterTyped ==
  ASSUME NEW ch \in Seq(BlockIndex), Len(ch) <= MaxHeight,
         NEW h \in 1..Len(ch), ch[h].group \in GroupIds, NEW st \in StatesUpTo(Len(ch))
  PROVE  GroupAfter(ch, st, h) \in Group /\ GroupAfter(ch, st, h).last = h
<1> DEFINE g == ch[h].group
           groups == st.groups
<1>1. groups \in [GroupIds -> Group] /\ groups[g] \in Group
  BY Zenon DEF StatesUpTo
<1>2. h \in 0..MaxHeight /\ ch[h].coins \in Nat /\ MaxHeight \in Nat
  BY BlocksTyped, SparkGroupsAssumption
<1>3. GrownGroup(groups[g], h, ch[h].coins) \in Group
  <2>1. PICK r, c : r = groups[g] /\ c = ch[h].coins
    BY Zenon
  <2>2. r \in Group /\ c \in Nat /\ h \in 0..MaxHeight
    BY <1>1, <1>2, <2>1, Zenon
  <2>3. GrownGroup(r, h, c) \in Group
    BY <2>2 DEF GrownGroup, Group
  <2> QED
    BY <2>1, <2>3, Zenon
<1>4. CASE g > 1
  <2> DEFINE carried == CountLastNCoins(groups, ch, g - 1, StartGroupSize)
  <2>1. g - 1 \in GroupIds
    BY <1>2, <1>4 DEF GroupIds
  <2>2. groups[g - 1] \in Group /\ groups[g - 1].last <= Len(ch) /\ groups[g - 1].last \in 0..MaxHeight
    BY <1>1, <2>1, Zenon DEF StatesUpTo, Group
  <2>3. carried.coins \in Nat /\ carried.first \in 0..groups[g - 1].last
    BY <1>1, <2>1, <2>2, CountLastTyped, Zenon
  <2>4. carried.first \in 0..MaxHeight
    BY <1>2, <2>2, <2>3
  <2>5. NewGroup(groups, ch, g, h, ch[h].coins) =
          [first |-> IF carried.first # 0 THEN carried.first ELSE h,
           last |-> h, nCoins |-> carried.coins + ch[h].coins]
    BY <1>4, Zenon DEF NewGroup
  <2> HIDE DEF carried
  <2>6. NewGroup(groups, ch, g, h, ch[h].coins) \in Group
    BY <1>2, <2>3, <2>4, <2>5 DEF Group
  <2> QED
    BY <1>3, <2>5, <2>6 DEF GroupAfter, GrownGroup
<1>5. CASE ~(g > 1)
  <2>1. NewGroup(groups, ch, g, h, ch[h].coins) = [first |-> h, last |-> h, nCoins |-> 0 + ch[h].coins]
    BY <1>5, Zenon DEF NewGroup
  <2>2. NewGroup(groups, ch, g, h, ch[h].coins) \in Group
    BY <1>2, <2>1 DEF Group
  <2> QED
    BY <1>3, <2>1, <2>2 DEF GroupAfter, GrownGroup
<1> QED
  BY <1>4, <1>5, Zenon

\* AddBlock leads from a state of the node to one.
LEMMA AddBlockTyped ==
  ASSUME NEW ch \in Seq(BlockIndex), Len(ch) <= MaxHeight, Grouped(ch),
         NEW n \in 0..Len(ch), NEW h \in 1..n, NEW st \in StatesUpTo(n)
  PROVE  AddBlock(ch, st, h) \in StatesUpTo(n)
<1> DEFINE g == ch[h].group
           after == AddBlock(ch, st, h)
<1>1. h \in 1..Len(ch) /\ h \in 1..MaxHeight /\ h <= n
  BY SparkGroupsAssumption
<1>2. /\ st.groups \in [GroupIds -> Group] /\ st.latest \in 0..MaxHeight
      /\ st.used \in SUBSET (1..MaxHeight) /\ st.meta \in SUBSET GroupIds
      /\ \A e \in GroupIds : st.groups[e].last <= n
  BY Zenon DEF StatesUpTo
<1>3. \A meta, spend : AddSpend(st.used, meta, h, spend) \in SUBSET (1..MaxHeight)
  BY <1>1, <1>2, Zenon DEF AddSpend
<1>4. CASE ch[h].coins = 0
  <2>1. after = [groups |-> st.groups, latest |-> st.latest,
                 used |-> AddSpend(st.used, st.meta, h, ch[h].spend), meta |-> st.meta]
    BY <1>4, AddBlockEmpty
  <2> HIDE DEF after
  <2> QED
    BY <1>2, <1>3, <2>1 DEF StatesUpTo, after
<1>5. CASE ch[h].coins # 0
  <2>1. g \in GroupIds /\ g \in 0..MaxHeight
    BY <1>1, <1>5, SparkGroupsAssumption DEF Grouped, GroupIds
  <2>2. st \in StatesUpTo(Len(ch))
    <3>1. \A e \in GroupIds : st.groups[e].last <= Len(ch)
      BY <1>2, SparkGroupsAssumption DEF Group
    <3> QED
      BY <3>1, Zenon DEF StatesUpTo
  <2>3. GroupAfter(ch, st, h) \in Group /\ GroupAfter(ch, st, h).last = h
    BY <1>1, <2>1, <2>2, GroupAfterTyped, Zenon
  <2> DEFINE groups == [st.groups EXCEPT ![g] = GroupAfter(ch, st, h)]
  <2>4. groups \in [GroupIds -> Group] /\ \A e \in GroupIds : groups[e].last <= n
    BY <1>1, <1>2, <2>1, <2>3, Zenon
  <2>5. after = [groups |-> groups, latest |-> g,
                 used |-> AddSpend(st.used, st.meta \cup {g}, h, ch[h].spend),
                 meta |-> st.meta \cup {g}]
    BY <1>5, AddBlockMinting, Zenon
  <2> HIDE DEF groups, after
  <2> QED
    BY <1>2, <1>3, <2>1, <2>4, <2>5 DEF StatesUpTo, after
<1> QED
  BY <1>4, <1>5, Zenon

-----------------------------------------------------------------------------
(* The rebuilt state is the last of a trace. *)

\* st[k] is the state after the blocks up to height k, for k up to n.
IsTrace(ch, n, st) == st[0] = Reset /\ \A k \in 1..n : st[k] = AddBlock(ch, st[k - 1], k)

\* BuildSparkStateFromIndex ends in the last state of the trace.
LEMMA RebuiltIsTrace ==
  ASSUME NEW ch, Len(ch) \in Nat, NEW st, IsTrace(ch, Len(ch), st)
  PROVE  BuildSparkStateFromIndex(ch) = st[Len(ch)]
<1> DEFINE n == Len(ch)
           It(f) == [h \in 0..n |-> IF h = 0 THEN Reset ELSE AddBlock(ch, f[h - 1], h)]
           it == CHOOSE f : f = It(f)
           trace == [h \in 0..n |-> st[h]]
<1>1. BuildSparkStateFromIndex(ch) = it[n]
  BY Zenon DEF BuildSparkStateFromIndex
<1>2. trace = It(trace)
  <2>1. ASSUME NEW h \in 0..n
        PROVE  st[h] = IF h = 0 THEN Reset ELSE AddBlock(ch, trace[h - 1], h)
    <3>1. CASE h = 0
      BY <3>1, Zenon DEF IsTrace
    <3>2. CASE h # 0
      <4>1. h \in 1..n /\ h - 1 \in 0..n
        BY <3>2
      <4>2. st[h] = AddBlock(ch, st[h - 1], h) /\ trace[h - 1] = st[h - 1]
        BY <4>1, Zenon DEF IsTrace
      <4> HIDE DEF trace
      <4> QED
        BY <3>2, <4>2, Zenon
    <3> QED
      BY <3>1, <3>2, Zenon
  <2> QED
    BY <2>1, Zenon
<1>3. it = It(it)
  BY <1>2, Zenon
<1> HIDE DEF it
<1>4. /\ it[0] = Reset
      /\ \A h \in 1..n : it[h] = AddBlock(ch, it[h - 1], h)
  BY <1>3
<1> DEFINE T == {k \in Nat : k <= n => it[k] = st[k]}
<1>5. 0 \in T
  BY <1>4, Zenon DEF IsTrace
<1>6. ASSUME NEW k \in T PROVE k + 1 \in T
  <2> SUFFICES ASSUME k + 1 <= n PROVE it[k + 1] = st[k + 1]
    OBVIOUS
  <2>1. k + 1 \in 1..n /\ (k + 1) - 1 = k /\ it[k] = st[k]
    OBVIOUS
  <2>2. it[k + 1] = AddBlock(ch, st[k], k + 1) /\ st[k + 1] = AddBlock(ch, st[k], k + 1)
    BY <1>4, <2>1, Zenon DEF IsTrace
  <2> QED
    BY <2>2, Zenon
<1>7. T = Nat
  <2>1. T \in SUBSET Nat
    BY Zenon
  <2> HIDE DEF T
  <2> QED
    BY <1>5, <1>6, <2>1, NatSetInduction, Zenon
<1> QED
  BY <1>1, <1>7

-----------------------------------------------------------------------------
(* The walks depend on the blocks they walk. *)

\* The chains have the same blocks up to height n.
SameUpTo(n, ch, new) ==
  n <= Len(ch) /\ n <= Len(new) /\ \A i \in 1..n : new[i] = ch[i]

\* What a walk over blocks up to height n counts depends on these blocks alone.
LEMMA CoinsSame ==
  ASSUME NEW ch \in Seq(BlockIndex), NEW new \in Seq(BlockIndex), NEW n \in Nat,
         SameUpTo(n, ch, new), NEW S \in SUBSET (1..n), NEW g
  PROVE  /\ SumFunctionOnSet(GroupCoins(ch, g), S) = SumFunctionOnSet(GroupCoins(new, g), S)
         /\ SumFunctionOnSet(Coins(ch), S) = SumFunctionOnSet(Coins(new), S)
<1>1. S \in SUBSET (1..Len(ch)) /\ DOMAIN ch = 1..Len(ch) /\ DOMAIN new = 1..Len(new)
  BY DEF SameUpTo
<1>2. IsFiniteSet(S) /\ NatValued(GroupCoins(ch, g), S) /\ NatValued(Coins(ch), S)
  BY <1>1, CountsTyped, Zenon
<1>3. ASSUME NEW x \in S PROVE x \in DOMAIN ch /\ x \in DOMAIN new /\ new[x] = ch[x]
  <2>1. x \in 1..n /\ n <= Len(ch) /\ n <= Len(new) /\ Len(ch) \in Nat /\ Len(new) \in Nat
    BY DEF SameUpTo
  <2>2. x \in 1..Len(ch) /\ x \in 1..Len(new)
    BY <2>1
  <2> QED
    BY <1>1, <2>1, <2>2, Zenon DEF SameUpTo
<1>4. \A x \in S : GroupCoins(ch, g)[x] = GroupCoins(new, g)[x] /\ Coins(ch)[x] = Coins(new)[x]
  BY <1>3, Zenon DEF CountCoinInBlock, GroupCoins, Coins
<1> QED
  BY <1>2, <1>4, SumSame, Zenon

\* So does CountLastNCoins for a group that ends there.
LEMMA CountLastSame ==
  ASSUME NEW ch \in Seq(BlockIndex), NEW new \in Seq(BlockIndex), NEW n \in Nat,
         SameUpTo(n, ch, new), NEW groups, NEW g, groups[g].last \in 0..n, NEW required
  PROVE  CountLastNCoins(groups, ch, g, required) = CountLastNCoins(groups, new, g, required)
<1> DEFINE last == groups[g].last
           minting == MintingBlocks(ch, g, last)
           enough == {h \in minting : CoinsBetween(ch, g, h, last) >= required}
           first == IF minting = {} THEN 0 ELSE IF enough # {} THEN Max(enough) ELSE Min(minting)
           minting2 == MintingBlocks(new, g, last)
           enough2 == {h \in minting2 : CoinsBetween(new, g, h, last) >= required}
           first2 == IF minting2 = {} THEN 0 ELSE IF enough2 # {} THEN Max(enough2) ELSE Min(minting2)
<1>1. \A i \in 1..last : new[i] = ch[i]
  BY DEF SameUpTo
<1>2. minting2 = minting /\ minting \in SUBSET (1..last) /\ minting \in SUBSET Nat
  BY <1>1 DEF MintingBlocks, CountCoinInBlock
<1>3. ASSUME NEW lo PROVE CoinsBetween(ch, g, lo, last) = CoinsBetween(new, g, lo, last)
  <2> DEFINE S == {i \in lo..last : i > 0}
  <2>1. S \in SUBSET (1..n)
    OBVIOUS
  <2> HIDE DEF S, last
  <2>2. SumFunctionOnSet(GroupCoins(ch, g), S) = SumFunctionOnSet(GroupCoins(new, g), S)
    BY <2>1, CoinsSame
  <2> QED
    BY <2>2, Zenon DEF CoinsBetween, GroupCoins, S
<1> HIDE DEF minting, minting2, last
<1>4. enough2 = enough
  BY <1>2, <1>3
<1> HIDE DEF enough, enough2
<1>5. first2 = first
  BY <1>2, <1>4, Zenon
<1> HIDE DEF first, first2
<1>6. [coins |-> CoinsBetween(ch, g, first, last), first |-> first] =
      [coins |-> CoinsBetween(new, g, first2, last), first |-> first2]
  BY <1>3, <1>5, Zenon
<1> QED
  BY <1>6, Zenon DEF CountLastNCoins, first, first2, enough, enough2, minting, minting2, last

\* And AddBlock of one of these blocks.
LEMMA AddBlockSame ==
  ASSUME NEW ch \in Seq(BlockIndex), NEW new \in Seq(BlockIndex), NEW n \in Nat,
         SameUpTo(n, ch, new), NEW h \in 1..n, NEW st \in StatesUpTo(n)
  PROVE  AddBlock(new, st, h) = AddBlock(ch, st, h)
<1> DEFINE g == ch[h].group
<1>1. new[h] = ch[h] /\ h \in 1..Len(ch)
  BY DEF SameUpTo
<1>2. g \in Nat /\ g <= MaxHeight /\ MaxHeight \in Nat
  BY <1>1, BlocksTyped, SparkGroupsAssumption, Zenon
<1>3. NewGroup(st.groups, new, g, h, ch[h].coins) = NewGroup(st.groups, ch, g, h, ch[h].coins)
  <2>1. CASE g > 1
    <3>1. g - 1 \in GroupIds
      BY <1>2, <2>1 DEF GroupIds
    <3>2. st.groups[g - 1].last \in 0..n
      BY <3>1, <1>2 DEF StatesUpTo, Group
    <3>3. CountLastNCoins(st.groups, ch, g - 1, StartGroupSize) =
            CountLastNCoins(st.groups, new, g - 1, StartGroupSize)
      BY <3>2, CountLastSame
    <3> QED
      BY <3>3, Zenon DEF NewGroup
  <2>2. CASE ~(g > 1)
    BY <2>2, Zenon DEF NewGroup
  <2> QED
    BY <2>1, <2>2, Zenon
<1> QED
  BY <1>1, <1>3, Zenon DEF AddBlock

-----------------------------------------------------------------------------
(* Sound states and the groups a block makes. *)

\* What ConnectBlockSpark stores in a block index, before which the state was st.
StoredIn(b, st) ==
  /\ b.coins = 0 => b.group = 0
  /\ b.coins # 0 => b.group # 0 /\ b.group \in {st.latest, st.latest + 1}
  /\ b.spend # 0 => b.spend \in 1..st.latest

\* CoverSet of a group that starts at first.
Cover(ch, g, first, h) ==
  {i \in first..h : ch[i].coins > 0 /\ ch[i].group \in {g, g - 1}}

\* Group g ends with its last minting block and counts the coins of its set.
GroupSound(ch, k, g, group) ==
  /\ group \in Group
  /\ group.last \in 1..k
  /\ group.first \in 1..group.last
  /\ ch[group.last].coins > 0 /\ ch[group.last].group = g
  /\ \A i \in 1..k : i > group.last => ch[i].group # g
  /\ group.nCoins > 0
  /\ group.nCoins = SumFunctionOnSet(Coins(ch), Cover(ch, g, group.first, group.last))

\* A state after the blocks up to height k: the groups are numbered in the order of
\* their blocks, without a gap.
Sound(ch, k, st) ==
  /\ st.latest <= k
  /\ st.meta = 1..st.latest
  /\ st.used = {i \in 1..k : ch[i].spend # 0}
  /\ \A g \in GroupIds : g > st.latest => st.groups[g] = NoGroup
  /\ \A g \in 1..st.latest : GroupSound(ch, k, g, st.groups[g])
  /\ \A i \in 1..k : ch[i].coins # 0 => ch[i].group \in 1..st.latest
  /\ \A i, j \in 1..k : i < j /\ ch[i].coins # 0 /\ ch[j].coins # 0 => ch[i].group <= ch[j].group

\* A block more of the latest group: nothing of that group or the one before lies
\* between its last block and the new one.
LEMMA GrownSound ==
  ASSUME NEW ch \in Seq(BlockIndex), Len(ch) <= MaxHeight, NEW k \in Nat, k + 1 <= Len(ch),
         NEW st \in StatesUpTo(k), Sound(ch, k, st),
         NEW g \in 1..st.latest, g = st.latest, ch[k + 1].group = g, ch[k + 1].coins # 0
  PROVE  LET group == GrownGroup(st.groups[g], k + 1, ch[k + 1].coins)
         IN  GroupSound(ch, k + 1, g, group) /\ group.first = st.groups[g].first
<1> DEFINE old == st.groups[g]
           h == k + 1
           coins == ch[h].coins
           group == GrownGroup(old, h, coins)
           was == Cover(ch, g, old.first, old.last)
           now == Cover(ch, g, old.first, h)
<1>1. GroupSound(ch, k, g, old)
  BY Zenon DEF Sound
<1>2. /\ h \in 1..Len(ch) /\ h \in 0..MaxHeight /\ coins \in Nat /\ coins > 0 /\ h \in Nat
      /\ g \in Nat
  BY BlocksTyped, SparkGroupsAssumption
<1>3. old \in Group /\ old.first \in 1..old.last /\ old.last \in 1..k /\ old.nCoins > 0 /\ old.nCoins \in Nat
  BY <1>1, Zenon DEF GroupSound, Group
<1>4. group = [first |-> old.first, last |-> h, nCoins |-> old.nCoins + coins]
  BY <1>3 DEF GrownGroup
<1>5. ASSUME NEW i \in 1..k, i > old.last, ch[i].coins > 0 PROVE ch[i].group \notin {g, g - 1}
  <2>1. ch[i].group # g
    BY <1>1, <1>5, Zenon DEF GroupSound
  <2>2. ch[old.last].group = g /\ ch[old.last].coins > 0
    BY <1>1, Zenon DEF GroupSound
  <2>3. i \in 1..Len(ch) /\ old.last \in 1..Len(ch)
    BY <1>3
  <2>4. ch[i].coins # 0 /\ ch[old.last].coins # 0 /\ ch[i].group \in Nat
    <3>1. ch[i].group \in Nat
      BY <2>3, BlocksTyped, Zenon
    <3> QED
      BY <1>5, <2>2, <3>1
  <2>5. g <= ch[i].group
    BY <1>3, <1>5, <2>2, <2>4, Zenon DEF Sound
  <2> QED
    BY <1>2, <2>1, <2>4, <2>5
<1>6. now = was \cup {h} /\ h \notin was
  <2>1. h \in now /\ h \notin was
    BY <1>2, <1>3 DEF Cover
  <2>2. was \subseteq now
    BY <1>2, <1>3 DEF Cover
  <2>3. ASSUME NEW i \in now, i # h PROVE i \in was
    <3>1. i \in old.first..k /\ ch[i].coins > 0 /\ ch[i].group \in {g, g - 1}
      BY <1>3, <2>3 DEF Cover
    <3>2. i \in 1..k
      BY <1>3, <3>1
    <3>3. ~(i > old.last)
      BY <1>5, <3>1, <3>2, Zenon
    <3> QED
      BY <1>3, <3>1, <3>3 DEF Cover
  <2> QED
    BY <2>1, <2>2, <2>3, Zenon
<1>7. now \in SUBSET (1..Len(ch))
  BY <1>2, <1>3 DEF Cover
<1> HIDE DEF now, was, group, old, coins
<1>8. IsFiniteSet(now) /\ NatValued(Coins(ch), now)
  BY <1>7, CountsTyped, Zenon
<1>9. SumFunctionOnSet(Coins(ch), now) = Coins(ch)[h] + SumFunctionOnSet(Coins(ch), now \ {h})
  BY <1>6, <1>8, SumTakesEach
<1>10. now \ {h} = was /\ Coins(ch)[h] = coins
  BY <1>2, <1>6 DEF Coins, coins
<1>11. SumFunctionOnSet(Coins(ch), was) = old.nCoins
  BY <1>1, Zenon DEF GroupSound, was
<1>12. group.nCoins = SumFunctionOnSet(Coins(ch), now)
  <2>1. SumFunctionOnSet(Coins(ch), now) = coins + old.nCoins
    BY <1>9, <1>10, <1>11, Zenon
  <2>2. group.nCoins = old.nCoins + coins
    BY <1>4, Zenon
  <2>3. coins + old.nCoins = old.nCoins + coins
    BY <1>2, <1>3
  <2> QED
    BY <2>1, <2>2, <2>3, Zenon
<1>13. \A i \in 1..h : i > h => ch[i].group # g
  BY <1>2
<1>14. old.first \in 0..MaxHeight /\ old.first \in 1..h /\ h \in 1..h
  BY <1>2, <1>3 DEF Group
<1>15. old.nCoins + coins \in Nat /\ old.nCoins + coins > 0
  BY <1>2, <1>3
<1>16. group \in Group /\ group.first \in 1..h /\ group.nCoins > 0
  BY <1>2, <1>4, <1>14, <1>15, Zenon DEF Group
<1>17. GroupSound(ch, h, g, group)
  BY <1>2, <1>4, <1>12, <1>13, <1>14, <1>16, Zenon DEF GroupSound, now, coins
<1> QED
  BY <1>4, <1>17 DEF group, old, coins

\* CountLastNCoins for the latest group counts the coins of that group from the block
\* it stops at.
LEMMA CarriedOver ==
  ASSUME NEW ch \in Seq(BlockIndex), NEW k \in Nat, k <= Len(ch),
         NEW st \in StatesUpTo(k), Sound(ch, k, st),
         NEW e \in 1..st.latest, e \in GroupIds
  PROVE  LET count == CountLastNCoins(st.groups, ch, e, StartGroupSize)
         IN  /\ count.first \in 1..st.groups[e].last
             /\ count.coins \in Nat
             /\ count.coins = SumFunctionOnSet(Coins(ch),
                                {i \in count.first..k : ch[i].coins > 0 /\ ch[i].group = e})
<1> DEFINE count == CountLastNCoins(st.groups, ch, e, StartGroupSize)
           first == count.first
           last == st.groups[e].last
           minting == MintingBlocks(ch, e, last)
           D == {i \in first..last : i > 0}
           S == {i \in first..k : ch[i].coins > 0 /\ ch[i].group = e}
<1>1. GroupSound(ch, k, e, st.groups[e])
  BY Zenon DEF Sound
<1>2. last \in 1..k /\ ch[last].coins > 0 /\ ch[last].group = e
  BY <1>1, Zenon DEF GroupSound
<1>3. last \in minting
  BY <1>2 DEF MintingBlocks, CountCoinInBlock
<1>4. st.groups \in [GroupIds -> Group] /\ last <= Len(ch)
  BY <1>2 DEF StatesUpTo
<1>5. /\ count.coins \in Nat
      /\ first \in 0..last
      /\ minting # {} => first \in minting
      /\ count.coins = CoinsBetween(ch, e, first, last)
  BY <1>4, CountLastTyped, Zenon
<1>6. first \in 1..last
  BY <1>3, <1>5, Zenon DEF MintingBlocks
<1> HIDE DEF count, first, minting
<1>7. S \in SUBSET D /\ D \in SUBSET (1..Len(ch)) /\ S \in SUBSET (1..Len(ch))
  <2>1. D \in SUBSET (1..Len(ch))
    BY <1>2, <1>4, <1>6
  <2>2. ASSUME NEW i \in S PROVE i \in D
    <3>1. i \in 1..k /\ ~(i > last)
      BY <1>1, <1>6 DEF GroupSound
    <3> QED
      BY <1>2, <1>6, <3>1
  <2> QED
    BY <2>1, <2>2, Zenon
<1>8. ASSUME NEW i \in D PROVE /\ i \in S => GroupCoins(ch, e)[i] = Coins(ch)[i]
                               /\ i \notin S => GroupCoins(ch, e)[i] = 0
  <2>1. i \in DOMAIN ch /\ i \in first..k /\ ch[i].coins \in Nat
    BY <1>2, <1>6, <1>7, BlocksTyped
  <2> QED
    BY <2>1 DEF GroupCoins, Coins, CountCoinInBlock
<1>9. /\ IsFiniteSet(D) /\ NatValued(GroupCoins(ch, e), D)
      /\ IsFiniteSet(S) /\ NatValued(GroupCoins(ch, e), S)
  BY <1>7, CountsTyped, Zenon
<1>10. count.coins = SumFunctionOnSet(GroupCoins(ch, e), D)
  BY <1>5, Zenon DEF CoinsBetween, GroupCoins
<1> HIDE DEF D, S
<1>11. SumFunctionOnSet(GroupCoins(ch, e), D) = SumFunctionOnSet(GroupCoins(ch, e), S)
  BY <1>7, <1>8, <1>9, SumZeros, Zenon
<1>12. SumFunctionOnSet(GroupCoins(ch, e), S) = SumFunctionOnSet(Coins(ch), S)
  BY <1>7, <1>8, <1>9, SumSame, Zenon
<1>13. count.coins = SumFunctionOnSet(Coins(ch), S)
  BY <1>10, <1>11, <1>12, Zenon
<1> QED
  BY <1>5, <1>6, <1>13, Zenon DEF S, count, first

\* A new group, which the coins counted by CountLastNCoins start.
LEMMA NewSound ==
  ASSUME NEW ch \in Seq(BlockIndex), Len(ch) <= MaxHeight, NEW k \in Nat, k + 1 <= Len(ch),
         NEW st \in StatesUpTo(k), Sound(ch, k, st),
         NEW g \in GroupIds, g = st.latest + 1, ch[k + 1].group = g, ch[k + 1].coins # 0
  PROVE  GroupSound(ch, k + 1, g, NewGroup(st.groups, ch, g, k + 1, ch[k + 1].coins))
<1> DEFINE h == k + 1
           coins == ch[h].coins
           group == NewGroup(st.groups, ch, g, h, coins)
           now == Cover(ch, g, group.first, h)
<1>1. /\ h \in 1..Len(ch) /\ h \in 0..MaxHeight /\ coins \in Nat /\ coins > 0 /\ h \in Nat
      /\ g \in Nat /\ g > 0 /\ st.latest \in Nat
  BY BlocksTyped, SparkGroupsAssumption DEF GroupIds, StatesUpTo
<1>2. ASSUME NEW i \in 1..k, ch[i].coins > 0 PROVE ch[i].group # g
  <2>1. ch[i].coins # 0
    BY <1>2
  <2>2. ch[i].group \in 1..st.latest
    BY <2>1, Zenon DEF Sound
  <2> QED
    BY <1>1, <2>2
<1>3. CASE g = 1
  <2>1. group = [first |-> h, last |-> h, nCoins |-> 0 + coins]
    BY <1>3 DEF NewGroup
  <2>2. now = {h}
    BY <1>1, <2>1 DEF Cover
  <2> HIDE DEF now, group, coins
  <2>3. IsFiniteSet(now) /\ NatValued(Coins(ch), now)
    BY <1>1, <2>2, CountsTyped, Zenon
  <2>4. SumFunctionOnSet(Coins(ch), now) = Coins(ch)[h] + SumFunctionOnSet(Coins(ch), now \ {h})
    BY <2>2, <2>3, SumTakesEach, Zenon
  <2>5. SumFunctionOnSet(Coins(ch), now \ {h}) = 0
    BY <2>2, <2>3, SumTakesEach, now \ {h} = {}, Zenon
  <2>6. Coins(ch)[h] = coins
    BY <1>1 DEF Coins, coins
  <2>7. SumFunctionOnSet(Coins(ch), now) = coins + 0
    BY <2>4, <2>5, <2>6, Zenon
  <2>8. group.nCoins = SumFunctionOnSet(Coins(ch), now)
    BY <1>1, <2>1, <2>7
  <2>9. group \in Group
    BY <1>1, <2>1 DEF Group
  <2>10. GroupSound(ch, h, g, group)
    BY <1>1, <2>1, <2>8, <2>9 DEF GroupSound, now, coins
  <2> QED
    BY <2>10, Zenon DEF group, coins
<1>4. CASE g # 1
  <2> DEFINE e == g - 1
             count == CountLastNCoins(st.groups, ch, e, StartGroupSize)
             S == {i \in count.first..k : ch[i].coins > 0 /\ ch[i].group = e}
  <2>1. e \in 1..st.latest /\ e \in GroupIds /\ g > 1 /\ k <= Len(ch)
    BY <1>1, <1>4, SparkGroupsAssumption DEF GroupIds
  <2>2. /\ count.first \in 1..st.groups[e].last
        /\ count.coins \in Nat
        /\ count.coins = SumFunctionOnSet(Coins(ch), S)
    BY <2>1, CarriedOver, Zenon
  <2>3. st.groups[e].last \in 1..k
    BY <2>1, Zenon DEF Sound, GroupSound
  <2>4. count.first \in 1..k
    BY <2>2, <2>3
  <2>5. group = [first |-> count.first, last |-> h, nCoins |-> count.coins + coins]
    BY <2>1, <2>4 DEF NewGroup
  <2> HIDE DEF count, group
  <2>6. now = S \cup {h} /\ h \notin S
    <3>1. h \in now /\ h \notin S
      BY <1>1, <2>4, <2>5 DEF Cover
    <3>2. ASSUME NEW i \in S PROVE i \in now
      BY <1>1, <2>4, <2>5 DEF Cover
    <3>3. ASSUME NEW i \in now, i # h PROVE i \in S
      <4>1. i \in count.first..k /\ ch[i].coins > 0 /\ ch[i].group \in {g, e}
        BY <1>1, <2>4, <2>5, <3>3 DEF Cover
      <4>2. i \in 1..k
        BY <2>4, <4>1
      <4> QED
        BY <1>2, <4>1, <4>2, Zenon
    <3> QED
      BY <3>1, <3>2, <3>3, Zenon
  <2>7. now \in SUBSET (1..Len(ch))
    BY <1>1, <2>4, <2>5 DEF Cover
  <2> HIDE DEF now, S, coins
  <2>8. IsFiniteSet(now) /\ NatValued(Coins(ch), now)
    BY <2>7, CountsTyped, Zenon
  <2>9. SumFunctionOnSet(Coins(ch), now) = Coins(ch)[h] + SumFunctionOnSet(Coins(ch), now \ {h})
    BY <2>6, <2>8, SumTakesEach
  <2>10. now \ {h} = S /\ Coins(ch)[h] = coins
    BY <1>1, <2>6 DEF Coins, coins
  <2>11. SumFunctionOnSet(Coins(ch), now) = coins + count.coins
    BY <2>2, <2>9, <2>10, Zenon
  <2>12. coins + count.coins = count.coins + coins /\ count.coins + coins \in Nat /\ count.coins + coins > 0
    BY <1>1, <2>2
  <2>13. group.nCoins = SumFunctionOnSet(Coins(ch), now) /\ group.nCoins > 0
    BY <2>5, <2>11, <2>12, Zenon
  <2>14. count.first \in 0..MaxHeight /\ count.first \in 1..h
    BY <1>1, <2>4, SparkGroupsAssumption
  <2>15. group \in Group
    BY <1>1, <2>5, <2>12, <2>14, Zenon DEF Group
  <2>16. GroupSound(ch, h, g, group)
    BY <1>1, <2>5, <2>13, <2>14, <2>15 DEF GroupSound, now, coins
  <2> QED
    BY <2>16, Zenon DEF group, coins
<1> QED
  BY <1>3, <1>4, Zenon

\* GroupSound depends on the blocks up to height k alone.
LEMMA GroupSoundSame ==
  ASSUME NEW ch \in Seq(BlockIndex), NEW new \in Seq(BlockIndex), NEW n \in Nat,
         SameUpTo(n, ch, new), NEW k \in 0..n, NEW g, NEW group, GroupSound(ch, k, g, group)
  PROVE  GroupSound(new, k, g, group)
<1> DEFINE S == Cover(ch, g, group.first, group.last)
<1>1. group.last \in 1..k /\ group.first \in 1..group.last
  BY Zenon DEF GroupSound
<1>2. \A i \in 1..k : new[i] = ch[i]
  BY DEF SameUpTo
<1>3. Cover(new, g, group.first, group.last) = S /\ S \in SUBSET (1..n)
  BY <1>1, <1>2 DEF Cover
<1> HIDE DEF S
<1>4. SumFunctionOnSet(Coins(ch), S) = SumFunctionOnSet(Coins(new), S)
  BY <1>3, CoinsSame, Zenon
<1> QED
  BY <1>1, <1>2, <1>3, <1>4, Zenon DEF GroupSound, S

\* So does Sound.
LEMMA SoundSame ==
  ASSUME NEW ch \in Seq(BlockIndex), NEW new \in Seq(BlockIndex), NEW n \in Nat,
         SameUpTo(n, ch, new), NEW k \in 0..n, NEW st, Sound(ch, k, st)
  PROVE  Sound(new, k, st)
<1>1. \A i \in 1..k : new[i] = ch[i]
  BY DEF SameUpTo
<1>2. \A g \in 1..st.latest : GroupSound(new, k, g, st.groups[g])
  BY GroupSoundSame, Zenon DEF Sound
<1>3. {i \in 1..k : new[i].spend # 0} = {i \in 1..k : ch[i].spend # 0}
  BY <1>1, Zenon
<1> QED
  BY <1>1, <1>2, <1>3, Zenon DEF Sound

\* A group whose number is not the new block's is as sound as before.
LEMMA OtherGroupSound ==
  ASSUME NEW ch, NEW k \in Nat, NEW e, NEW group, GroupSound(ch, k, e, group),
         ch[k + 1].group # e
  PROVE  GroupSound(ch, k + 1, e, group)
<1>1. group.last \in 1..(k + 1)
  BY DEF GroupSound
<1>2. ASSUME NEW i \in 1..(k + 1), i > group.last PROVE ch[i].group # e
  <2>1. i = k + 1 \/ i \in 1..k
    OBVIOUS
  <2> QED
    BY <1>2, <2>1, Zenon DEF GroupSound
<1> QED
  BY <1>1, <1>2, Zenon DEF GroupSound

\* The spends recorded after a block, whose spend is of a group that exists.
LEMMA SpendAdded ==
  ASSUME NEW ch \in Seq(BlockIndex), NEW k \in Nat, k + 1 <= Len(ch),
         NEW used, used = {i \in 1..k : ch[i].spend # 0},
         NEW meta, 0 \notin meta, ch[k + 1].spend # 0 => ch[k + 1].spend \in meta
  PROVE  AddSpend(used, meta, k + 1, ch[k + 1].spend) = {i \in 1..(k + 1) : ch[i].spend # 0}
<1>1. 1..(k + 1) = (1..k) \cup {k + 1}
  OBVIOUS
<1> QED
  BY <1>1, Zenon DEF AddSpend

\* The first block of a group of the latest number is the one of a group that exists.
LEMMA FirstOf ==
  ASSUME NEW ch, NEW k \in Nat, NEW st \in StatesUpTo(k), Sound(ch, k, st), NEW g \in GroupIds
  PROVE  /\ g <= st.latest => /\ st.groups[g].first # 0 /\ st.groups[g] # NoGroup
                              /\ st.groups[g].nCoins # 0 /\ st.groups[g].nCoins \in Nat
         /\ g > st.latest => st.groups[g].first = 0 /\ st.groups[g] = NoGroup
<1>1. g \in Nat /\ g > 0 /\ st.latest \in Nat
  BY SparkGroupsAssumption DEF GroupIds, StatesUpTo
<1>2. CASE g <= st.latest
  <2>1. GroupSound(ch, k, g, st.groups[g])
    BY <1>1, <1>2 DEF Sound
  <2>2. st.groups[g].first \in 1..st.groups[g].last /\ st.groups[g].last \in 1..k
    BY <2>1, Zenon DEF GroupSound
  <2>3. st.groups[g].first # 0
    BY <2>2
  <2>4. st.groups[g].nCoins # 0 /\ st.groups[g].nCoins \in Nat
    BY <2>1 DEF GroupSound, Group
  <2> QED
    BY <1>1, <1>2, <2>3, <2>4 DEF NoGroup
<1>3. CASE g > st.latest
  BY <1>1, <1>3 DEF Sound, NoGroup
<1> QED
  BY <1>1, <1>2, <1>3, Zenon

\* GroupAfter for block k + 1 is sound; it is group g, the latest one grown or a new one.
RightGroup(ch, k, st, g) ==
  /\ g \in GroupIds
  /\ GroupSound(ch, k + 1, g, GroupAfter(ch, st, k + 1))
  /\ g = st.latest => /\ g \in 1..st.latest
                      /\ GroupAfter(ch, st, k + 1) =
                           GrownGroup(st.groups[g], k + 1, ch[k + 1].coins)
                      /\ GroupAfter(ch, st, k + 1).first = st.groups[g].first
  /\ g = st.latest + 1 => GroupAfter(ch, st, k + 1) =
                            NewGroup(st.groups, ch, g, k + 1, ch[k + 1].coins)

\* GroupAfter is what keeps the group of the new block sound.
LEMMA GroupAfterSound ==
  ASSUME NEW ch \in Seq(BlockIndex), Len(ch) <= MaxHeight, NEW k \in Nat, k + 1 <= Len(ch),
         NEW st \in StatesUpTo(k), Sound(ch, k, st), StoredIn(ch[k + 1], st),
         ch[k + 1].coins # 0, NEW g, g = ch[k + 1].group
  PROVE  RightGroup(ch, k, st, g)
<1>1. k + 1 \in 1..Len(ch) /\ st.latest \in Nat /\ MaxHeight \in Nat /\ st.latest <= k
  BY SparkGroupsAssumption DEF StatesUpTo, Sound
<1>2. g \in {st.latest, st.latest + 1} /\ g # 0
  BY Zenon DEF StoredIn
<1>3. g \in GroupIds /\ g \in Nat
  BY <1>1, <1>2 DEF GroupIds
<1>4. CASE g = st.latest
  <2>0. g <= st.latest /\ g \in 1..st.latest
    BY <1>1, <1>2, <1>4
  <2>1. st.groups[g].first # 0 /\ g \in 1..st.latest
    BY <1>3, <2>0, FirstOf, Zenon
  <2>2. GroupAfter(ch, st, k + 1) = GrownGroup(st.groups[g], k + 1, ch[k + 1].coins)
    BY <2>1, Zenon DEF GroupAfter
  <2>3. LET group == GrownGroup(st.groups[g], k + 1, ch[k + 1].coins)
        IN  GroupSound(ch, k + 1, g, group) /\ group.first = st.groups[g].first
    BY <1>4, <2>1, GrownSound, Zenon
  <2> QED
    BY <1>1, <1>3, <1>4, <2>1, <2>2, <2>3 DEF RightGroup
<1>5. CASE g = st.latest + 1
  <2>1. st.groups[g].first = 0
    BY <1>1, <1>3, <1>5, FirstOf, g > st.latest, Zenon
  <2>2. GroupAfter(ch, st, k + 1) = NewGroup(st.groups, ch, g, k + 1, ch[k + 1].coins)
    BY <2>1, Zenon DEF GroupAfter
  <2>3. GroupSound(ch, k + 1, g, NewGroup(st.groups, ch, g, k + 1, ch[k + 1].coins))
    BY <1>3, <1>5, NewSound, Zenon
  <2> QED
    BY <1>1, <1>3, <1>5, <2>2, <2>3 DEF RightGroup
<1> QED
  BY <1>2, <1>4, <1>5, Zenon

\* AddBlock of a block that ConnectBlockSpark has stored keeps the state sound.
LEMMA AddBlockSound ==
  ASSUME NEW ch \in Seq(BlockIndex), Len(ch) <= MaxHeight, NEW k \in Nat, k + 1 <= Len(ch),
         NEW st \in StatesUpTo(k), Sound(ch, k, st), StoredIn(ch[k + 1], st)
  PROVE  Sound(ch, k + 1, AddBlock(ch, st, k + 1))
<1> DEFINE h == k + 1
           g == ch[h].group
           after == AddBlock(ch, st, h)
<1>1. /\ st.latest \in Nat /\ st.latest <= k /\ st.meta = 1..st.latest /\ 0 \notin st.meta
      /\ st.used = {i \in 1..k : ch[i].spend # 0}
      /\ ch[h].spend # 0 => ch[h].spend \in st.meta
  BY DEF StatesUpTo, Sound, StoredIn
<1>2. 1..h = (1..k) \cup {h} /\ h \notin 1..k /\ \A i \in 1..k : i < h
  OBVIOUS
<1>3. CASE ch[h].coins = 0
  <2>1. after = [groups |-> st.groups, latest |-> st.latest,
                 used |-> AddSpend(st.used, st.meta, h, ch[h].spend), meta |-> st.meta]
    BY <1>3, AddBlockEmpty
  <2>2. AddSpend(st.used, st.meta, h, ch[h].spend) = {i \in 1..h : ch[i].spend # 0}
    BY <1>1, SpendAdded, Zenon
  <2>3. g = 0
    BY <1>3, Zenon DEF StoredIn
  <2>4. ASSUME NEW e \in 1..st.latest PROVE GroupSound(ch, h, e, st.groups[e])
    <3>1. GroupSound(ch, k, e, st.groups[e]) /\ g # e
      BY <1>1, <2>3, Zenon DEF Sound
    <3> QED
      BY <3>1, OtherGroupSound, Zenon
  <2>5. ASSUME NEW i \in 1..h, ch[i].coins # 0 PROVE i \in 1..k
    BY <1>2, <1>3, <2>5, Zenon
  <2> HIDE DEF after
  <2>6. /\ \A i \in 1..h : ch[i].coins # 0 => ch[i].group \in 1..st.latest
        /\ \A i, j \in 1..h : i < j /\ ch[i].coins # 0 /\ ch[j].coins # 0 => ch[i].group <= ch[j].group
    BY <2>5, Zenon DEF Sound
  <2>7. st.latest <= h
    BY <1>1
  <2>8. \A e \in GroupIds : e > st.latest => st.groups[e] = NoGroup
    BY Zenon DEF Sound
  <2>9. /\ after.groups = st.groups /\ after.latest = st.latest /\ after.meta = 1..st.latest
        /\ after.used = {i \in 1..h : ch[i].spend # 0}
    BY <1>1, <2>1, <2>2, Zenon
  <2>10. Sound(ch, h, after)
    BY <2>4, <2>6, <2>7, <2>8, <2>9, Zenon DEF Sound
  <2> QED
    BY <2>10, Zenon DEF after
<1>4. CASE ch[h].coins # 0
  <2> DEFINE group == GroupAfter(ch, st, h)
             groups == [st.groups EXCEPT ![g] = group]
  <2>1. after = [groups |-> groups, latest |-> g,
                 used |-> AddSpend(st.used, st.meta \cup {g}, h, ch[h].spend),
                 meta |-> st.meta \cup {g}]
    BY <1>4, AddBlockMinting, Zenon
  <2>2. g \in GroupIds /\ GroupSound(ch, h, g, group)
    BY <1>4, GroupAfterSound, Zenon DEF RightGroup
  <2>3. g \in {st.latest, st.latest + 1} /\ g # 0 /\ g \in Nat
    BY <1>1, <1>4 DEF StoredIn
  <2>4. st.meta \cup {g} = 1..g /\ 0 \notin st.meta \cup {g}
    BY <1>1, <2>3
  <2> HIDE DEF group, after
  <2>5. AddSpend(st.used, st.meta \cup {g}, h, ch[h].spend) = {i \in 1..h : ch[i].spend # 0}
    BY <1>1, <2>4, SpendAdded, Zenon
  <2>6. st.groups \in [GroupIds -> Group]
    BY Zenon DEF StatesUpTo
  <2>7. ASSUME NEW e \in GroupIds, e > g PROVE groups[e] = NoGroup
    <3>1. groups[e] = st.groups[e] /\ e > st.latest
      BY <1>1, <2>3, <2>6, <2>7, SparkGroupsAssumption DEF GroupIds
    <3> QED
      BY <3>1, Zenon DEF Sound
  <2>8. ASSUME NEW e \in 1..g PROVE GroupSound(ch, h, e, groups[e])
    <3>1. CASE e = g
      <4>1. groups[e] = group
        BY <2>2, <2>6, <3>1, Zenon
      <4> QED
        BY <2>2, <3>1, <4>1, Zenon
    <3>2. CASE e # g
      <4>1. e \in 1..st.latest
        BY <1>1, <2>3, <3>2
      <4>2. groups[e] = st.groups[e]
        BY <2>2, <2>3, <2>6, <3>2, SparkGroupsAssumption DEF GroupIds
      <4>3. GroupSound(ch, k, e, st.groups[e])
        BY <4>1, Zenon DEF Sound
      <4> QED
        BY <3>2, <4>2, <4>3, OtherGroupSound, Zenon
    <3> QED
      BY <3>1, <3>2, Zenon
  <2> HIDE DEF groups
  <2>9. ASSUME NEW i \in 1..k, ch[i].coins # 0 PROVE ch[i].group \in 1..st.latest /\ ch[i].group \in 1..g
    <3>1. ch[i].group \in 1..st.latest
      BY <2>9, Zenon DEF Sound
    <3> QED
      BY <1>1, <2>3, <3>1
  <2>10. \A i \in 1..h : ch[i].coins # 0 => ch[i].group \in 1..g
    BY <1>2, <2>3, <2>9
  <2>11. ASSUME NEW i \in 1..h, NEW j \in 1..h, i < j, ch[i].coins # 0, ch[j].coins # 0
         PROVE  ch[i].group <= ch[j].group
    <3>1. i \in 1..k
      BY <2>11
    <3>2. CASE j = h
      BY <2>3, <2>9, <2>11, <3>1, <3>2
    <3>3. CASE j # h
      BY <1>2, <2>11, <3>1, <3>3, Zenon DEF Sound
    <3> QED
      BY <3>2, <3>3, Zenon
  <2>12. g <= h
    BY <1>1, <2>3
  <2>13. /\ after.groups = groups /\ after.latest = g /\ after.meta = 1..g
         /\ after.used = {i \in 1..h : ch[i].spend # 0}
    BY <2>1, <2>4, <2>5, Zenon
  <2>14. Sound(ch, h, after)
    BY <2>7, <2>8, <2>10, <2>11, <2>12, <2>13, Zenon DEF Sound
  <2> QED
    BY <2>14, Zenon DEF after
<1> QED
  BY <1>3, <1>4, Zenon

-----------------------------------------------------------------------------
(* Traces grow and shrink with the chain. *)

\* st is the trace of chain ch: ConnectBlockSpark stored in each block what the state
\* before it called for, and each state is sound.
Traced(ch, st) ==
  /\ IsTrace(ch, Len(ch), st)
  /\ \A k \in 0..Len(ch) : st[k] \in StatesUpTo(k) /\ Sound(ch, k, st[k])
  /\ \A k \in 1..Len(ch) : StoredIn(ch[k], st[k - 1])

\* Later heights allow more states.
LEMMA StatesGrow ==
  ASSUME NEW m \in Nat, NEW n \in Nat, m <= n, NEW st \in StatesUpTo(m)
  PROVE  st \in StatesUpTo(n)
<1>1. ASSUME NEW g \in GroupIds PROVE st.groups[g].last <= n
  BY SparkGroupsAssumption DEF StatesUpTo, Group
<1> QED
  BY <1>1, Zenon DEF StatesUpTo

\* The blocks of a traced chain that mint have groups.
LEMMA TracedGrouped ==
  ASSUME NEW ch \in Seq(BlockIndex), NEW st, Traced(ch, st)
  PROVE  Grouped(ch)
<1>1. Len(ch) \in 0..Len(ch)
  OBVIOUS
<1>2. Sound(ch, Len(ch), st[Len(ch)]) /\ st[Len(ch)].latest \in 0..MaxHeight
  BY <1>1, Zenon DEF Traced, StatesUpTo
<1>3. ASSUME NEW i \in 1..Len(ch), ch[i].coins # 0 PROVE ch[i].group \in 1..MaxHeight
  <2>1. ch[i].group \in 1..st[Len(ch)].latest
    BY <1>2, <1>3, Zenon DEF Sound
  <2> QED
    BY <1>2, <2>1, SparkGroupsAssumption
<1> QED
  BY <1>3, Zenon DEF Grouped, GroupIds

\* Chain new is ch with block b, and the trace st of ch goes on to one of new.
Prolonged(ch, st, b, new) ==
  /\ new \in Seq(BlockIndex) /\ Len(new) = Len(ch) + 1
  /\ SameUpTo(Len(ch), ch, new) /\ new[Len(new)] = b
  /\ \E st2 : /\ Traced(new, st2)
              /\ st2[Len(new)] = AddBlock(new, st[Len(ch)], Len(new))

\* A block that ConnectBlockSpark may store prolongs the trace.
LEMMA TracedAppend ==
  ASSUME NEW ch \in Seq(BlockIndex), Len(ch) < MaxHeight, NEW st, Traced(ch, st),
         NEW b \in BlockIndex, StoredIn(b, st[Len(ch)]), NEW new, new = Append(ch, b)
  PROVE  Prolonged(ch, st, b, new)
<1> DEFINE n == Len(ch)
           h == n + 1
           st2 == [k \in 0..h |-> IF k = h THEN AddBlock(new, st[n], h) ELSE st[k]]
<1>1. new \in Seq(BlockIndex) /\ Len(new) = h /\ new[h] = b /\ n \in Nat /\ h <= MaxHeight
  BY SparkGroupsAssumption
<1>2. SameUpTo(n, ch, new)
  BY <1>1 DEF SameUpTo
<1>3. st[n] \in StatesUpTo(n) /\ Sound(ch, n, st[n])
  BY <1>1 DEF Traced
<1>4. Sound(new, n, st[n])
  <2>1. n \in 0..n
    BY <1>1
  <2> QED
    BY <1>1, <1>2, <1>3, <2>1, SoundSame, Zenon
<1>5. Sound(new, h, AddBlock(new, st[n], h))
  <2>1. Len(new) <= MaxHeight /\ n + 1 <= Len(new) /\ new[n + 1] = b
    BY <1>1
  <2> QED
    BY <1>1, <1>3, <1>4, <2>1, AddBlockSound, Zenon
<1>6. Grouped(new)
  <2>1. Grouped(ch)
    BY TracedGrouped, Zenon
  <2>2. b.coins # 0 => b.group \in GroupIds
    <3>1. st[n].latest \in Nat /\ st[n].latest <= n
      BY <1>3 DEF StatesUpTo, Sound
    <3> QED
      BY <1>1, <3>1, SparkGroupsAssumption DEF StoredIn, GroupIds
  <2>3. ASSUME NEW i \in 1..h PROVE new[i].coins # 0 => new[i].group \in GroupIds
    <3>1. CASE i = h
      BY <1>1, <2>2, <3>1, Zenon
    <3>2. CASE i # h
      <4>1. i \in 1..n /\ new[i] = ch[i]
        BY <1>1, <1>2, <3>2 DEF SameUpTo
      <4> QED
        BY <2>1, <4>1, Zenon DEF Grouped
    <3> QED
      BY <3>1, <3>2, Zenon
  <2> QED
    BY <1>1, <2>3, Zenon DEF Grouped
<1>7. AddBlock(new, st[n], h) \in StatesUpTo(h)
  <2>1. st[n] \in StatesUpTo(h)
    BY <1>1, <1>3, StatesGrow
  <2>2. Len(new) <= MaxHeight /\ h \in 0..Len(new) /\ h \in 1..h
    BY <1>1
  <2> QED
    BY <1>1, <1>6, <2>1, <2>2, AddBlockTyped, Zenon
<1>8. st2[h] = AddBlock(new, st[n], h) /\ \A k \in 0..n : st2[k] = st[k]
  BY <1>1
<1> HIDE DEF st2
<1>9. IsTrace(new, h, st2)
  <2>1. st2[0] = Reset
    BY <1>1, <1>8 DEF Traced, IsTrace
  <2>2. ASSUME NEW k \in 1..h PROVE st2[k] = AddBlock(new, st2[k - 1], k)
    <3>1. CASE k = h
      <4>1. h - 1 = n /\ n \in 0..n
        BY <1>1
      <4> QED
        BY <1>8, <3>1, <4>1, Zenon
    <3>2. CASE k # h
      <4>1. k \in 1..n /\ k - 1 \in 0..n /\ k \in 0..n /\ k - 1 \in Nat /\ k - 1 <= n
        BY <1>1, <3>2
      <4>2. st[k] = AddBlock(ch, st[k - 1], k)
        BY <4>1, Zenon DEF Traced, IsTrace
      <4>3. st[k - 1] \in StatesUpTo(n)
        BY <1>1, <4>1, StatesGrow DEF Traced
      <4>4. AddBlock(new, st[k - 1], k) = AddBlock(ch, st[k - 1], k)
        BY <1>1, <1>2, <4>1, <4>3, AddBlockSame, Zenon
      <4> QED
        BY <1>8, <4>1, <4>2, <4>4, Zenon
    <3> QED
      BY <3>1, <3>2, Zenon
  <2> QED
    BY <2>1, <2>2, Zenon DEF IsTrace
<1>10. ASSUME NEW k \in 0..h PROVE st2[k] \in StatesUpTo(k) /\ Sound(new, k, st2[k])
  <2>1. CASE k = h
    BY <1>5, <1>7, <1>8, <2>1, Zenon
  <2>2. CASE k # h
    <3>1. k \in 0..n
      BY <1>1, <2>2
    <3>2. st[k] \in StatesUpTo(k) /\ Sound(ch, k, st[k])
      BY <3>1, Zenon DEF Traced
    <3>3. Sound(new, k, st[k])
      BY <1>1, <1>2, <3>1, <3>2, SoundSame, Zenon
    <3> QED
      BY <1>8, <3>1, <3>2, <3>3, Zenon
  <2> QED
    BY <2>1, <2>2, Zenon
<1>11. ASSUME NEW k \in 1..h PROVE StoredIn(new[k], st2[k - 1])
  <2>1. CASE k = h
    <3>1. h - 1 = n /\ n \in 0..n
      BY <1>1
    <3> QED
      BY <1>1, <1>8, <2>1, <3>1, Zenon
  <2>2. CASE k # h
    <3>1. k \in 1..n /\ k - 1 \in 0..n
      BY <1>1, <2>2
    <3>2. new[k] = ch[k] /\ st2[k - 1] = st[k - 1] /\ StoredIn(ch[k], st[k - 1])
      BY <1>2, <1>8, <3>1, Zenon DEF SameUpTo, Traced
    <3> QED
      BY <3>2, Zenon
  <2> QED
    BY <2>1, <2>2, Zenon
<1>12. Traced(new, st2)
  BY <1>1, <1>9, <1>10, <1>11, Zenon DEF Traced
<1> QED
  BY <1>1, <1>2, <1>8, <1>12, Zenon DEF Prolonged

\* The chain without its last block.
Front(ch) == SubSeq(ch, 1, Len(ch) - 1)

\* Without its last block a traced chain is traced.
LEMMA TracedFront ==
  ASSUME NEW ch \in Seq(BlockIndex), Len(ch) > 0, NEW st, Traced(ch, st)
  PROVE  /\ Front(ch) \in Seq(BlockIndex) /\ Len(Front(ch)) = Len(ch) - 1
         /\ Traced(Front(ch), st)
<1> DEFINE n == Len(ch) - 1
           new == Front(ch)
<1>1. new \in Seq(BlockIndex) /\ Len(new) = n /\ n \in Nat /\ \A i \in 1..n : new[i] = ch[i]
  <2>0. n \in Nat
    OBVIOUS
  <2>1. new = SubSeq(ch, 1, n) /\ n \in Nat /\ Len(ch) \in Nat
    BY DEF Front
  <2> HIDE DEF new
  <2>2. ch \in [1..Len(ch) -> BlockIndex]
    OBVIOUS
  <2>3. new = [i \in 1..n |-> ch[i]]
    BY <2>1, <2>2
  <2>4. \A i \in 1..n : ch[i] \in BlockIndex
    BY <2>1, <2>2
  <2>5. new \in Seq(BlockIndex)
    <3>1. new \in [1..n -> BlockIndex]
      BY <2>3, <2>4, Zenon
    <3> QED
      BY <2>1, <3>1
  <2>6. Len(new) = n
    <3>1. DOMAIN new = 1..n
      BY <2>3, Zenon
    <3>2. DOMAIN new = 1..Len(new) /\ Len(new) \in Nat
      BY <2>5
    <3> HIDE DEF n
    <3>3. n # 0 => n \in 1..n
      BY <2>0
    <3>4. Len(new) # 0 => Len(new) \in 1..Len(new)
      BY <3>2
    <3> QED
      BY <2>0, <3>1, <3>2, <3>3, <3>4
  <2> QED
    BY <2>1, <2>3, <2>5, <2>6, Zenon
<1>2. SameUpTo(n, ch, new)
  BY <1>1 DEF SameUpTo
<1> HIDE DEF new
<1>3. ASSUME NEW k \in 0..n
      PROVE  st[k] \in StatesUpTo(k) /\ st[k] \in StatesUpTo(n) /\ Sound(new, k, st[k])
  <2>1. k \in 0..Len(ch) /\ k \in Nat /\ k <= n
    BY <1>1
  <2>2. st[k] \in StatesUpTo(k) /\ Sound(ch, k, st[k])
    BY <2>1, Zenon DEF Traced
  <2>3. st[k] \in StatesUpTo(n)
    BY <1>1, <2>1, <2>2, StatesGrow, Zenon
  <2> QED
    BY <1>1, <1>2, <2>2, <2>3, SoundSame, Zenon
<1>4. ASSUME NEW k \in 1..n PROVE st[k] = AddBlock(new, st[k - 1], k) /\ StoredIn(new[k], st[k - 1])
  <2>1. k \in 1..Len(ch) /\ k - 1 \in 0..n
    BY <1>1
  <2>2. st[k] = AddBlock(ch, st[k - 1], k) /\ StoredIn(ch[k], st[k - 1])
    BY <2>1, Zenon DEF Traced, IsTrace
  <2>3. st[k - 1] \in StatesUpTo(n)
    BY <1>3, <2>1, Zenon
  <2>4. AddBlock(new, st[k - 1], k) = AddBlock(ch, st[k - 1], k)
    BY <1>1, <1>2, <2>3, AddBlockSame, Zenon
  <2> QED
    BY <1>1, <2>2, <2>4, Zenon
<1>5. st[0] = Reset
  BY Zenon DEF Traced, IsTrace
<1>6. Traced(new, st)
  BY <1>1, <1>3, <1>4, <1>5, Zenon DEF Traced, IsTrace
<1> QED
  BY <1>1, <1>6, Zenon DEF new

-----------------------------------------------------------------------------
(* The inductive invariant. *)

\* The state follows the trace st of the chain; mintMetaInfo may keep more.
Follows(st) ==
  LET s == st[Len(chain)]
  IN  /\ Traced(chain, st)
      /\ coinGroups = s.groups /\ latestCoinId = s.latest /\ usedLTags = s.used
      /\ s.meta \subseteq mintMetaInfo

IndInv == TypeOK /\ \E st : Follows(st)

\* The state before the first block.
LEMMA ResetTraced ==
  \E st : Traced(<<>>, st) /\ st[0] = Reset
<1> DEFINE st == [k \in {0} |-> Reset]
<1>1. Reset \in StatesUpTo(0)
  BY SparkGroupsAssumption DEF Reset, StatesUpTo, Group, NoGroup, GroupIds
<1>2. Sound(<<>>, 0, Reset)
  BY DEF Reset, Sound
<1>3. st[0] = Reset
  BY Zenon
<1> HIDE DEF st
<1>4. Traced(<<>>, st)
  <2>1. Len(<<>>) = 0 /\ 0..0 = {0} /\ 1..0 = {}
    OBVIOUS
  <2> QED
    BY <1>1, <1>2, <1>3, <2>1, Zenon DEF Traced, IsTrace
<1> QED
  BY <1>3, <1>4, Zenon

\* A node starts without blocks, in the state Reset leaves.
LEMMA IndInit == Init => IndInv
<1> SUFFICES ASSUME Init PROVE IndInv
  BY Zenon
<1>1. PICK st : Traced(<<>>, st) /\ st[0] = Reset
  BY ResetTraced, Zenon
<1>2. Follows(st)
  BY <1>1, Zenon DEF Init, Follows
<1>3. TypeOK
  <2>1. chain = <<>> /\ <<>> \in Seq(BlockIndex) /\ Len(<<>>) = 0 /\ MaxHeight \in Nat
    BY SparkGroupsAssumption DEF Init
  <2>2. Reset.groups \in [GroupIds -> Group]
    BY SparkGroupsAssumption DEF Reset, NoGroup, Group
  <2>3. Reset.latest = 0 /\ Reset.used = {} /\ Reset.meta = {}
    BY Zenon DEF Reset
  <2>4. aborted \in BOOLEAN
    BY Zenon DEF Init
  <2>5. Len(chain) <= MaxHeight /\ chain \in Seq(BlockIndex)
    BY <2>1
  <2> QED
    BY <2>1, <2>2, <2>3, <2>4, <2>5 DEF Init, TypeOK, Group
<1> QED
  BY <1>2, <1>3, Zenon DEF IndInv

\* A rebuilt state is the last one of the trace.
LEMMA FollowsRebuilt ==
  ASSUME NEW ch \in Seq(BlockIndex), Len(ch) <= MaxHeight, NEW st, Traced(ch, st)
  PROVE  BuildSparkStateFromIndex(ch) = st[Len(ch)] /\ st[Len(ch)] \in StatesUpTo(Len(ch))
<1>1. Len(ch) \in 0..Len(ch) /\ Len(ch) \in Nat
  OBVIOUS
<1> QED
  BY <1>1, RebuiltIsTrace, Zenon DEF Traced

\* Restart computes the last state of the trace, and drops the keys of erased groups.
LEMMA RestartStep == IndInv /\ Restart => IndInv'
<1> SUFFICES ASSUME IndInv, Restart PROVE IndInv'
  BY Zenon
<1>1. TypeOK
  BY Zenon DEF IndInv
<1>2. PICK st : Follows(st)
  BY Zenon DEF IndInv
<1> DEFINE s == st[Len(chain)]
<1>3. BuildSparkStateFromIndex(chain) = s /\ s \in StatesUpTo(Len(chain))
  BY <1>1, <1>2, FollowsRebuilt, Zenon DEF TypeOK, Follows
<1>4. /\ coinGroups' = s.groups /\ latestCoinId' = s.latest /\ usedLTags' = s.used
      /\ mintMetaInfo' = s.meta /\ aborted' = FALSE /\ chain' = chain
  BY <1>3, Zenon DEF Restart
<1>5. TypeOK'
  BY <1>1, <1>3, <1>4, Zenon DEF TypeOK, StatesUpTo, Group
<1>6. Follows(st)'
  BY <1>2, <1>4, Zenon DEF Follows
<1> QED
  BY <1>5, <1>6, Zenon DEF IndInv

\* Group id is the latest one or the first, when the coins fit into it, or else the next.
TakesGroup(st, fits, id) ==
  /\ id \in GroupIds /\ id # 0
  /\ fits => \/ st.latest # 0 /\ id = st.latest
             \/ st.latest = 0 /\ id = 1 /\ st.groups[1] = NoGroup
  /\ ~fits => st.latest # 0 /\ id = st.latest + 1

\* Which group ConnectBlockSpark takes, in terms of the state before the block: the
\* coins fit into group 1 when there is no group yet.
LEMMA ConnectGroup ==
  ASSUME NEW coins \in MintCounts, NEW ch, NEW k \in Nat, k < MaxHeight,
         NEW st \in StatesUpTo(k), Sound(ch, k, st),
         NEW cur, cur = Max({1, st.latest}), NEW fits \in BOOLEAN,
         fits = (st.groups[cur].nCoins + coins <= MaxCoinInGroup),
         NEW id, id = IF fits THEN cur ELSE cur + 1
  PROVE  TakesGroup(st, fits, id)
<1>1. st.latest \in Nat /\ st.latest <= k /\ MaxHeight \in Nat
  BY SparkGroupsAssumption DEF StatesUpTo, Sound
<1>2. st.latest = 0 => cur = 1
  <2>1. ASSUME st.latest = 0 PROVE cur = 1
    <3> DEFINE T == {1, st.latest}
    <3>1. 1 \in T /\ T \subseteq Int /\ \A y \in T : 1 >= y
      BY <2>1
    <3> HIDE DEF T
    <3>2. Max(T) = 1
      BY <3>1, MaxIs, Zenon
    <3> QED
      BY <3>2, Zenon DEF T
  <2> QED
    BY <2>1, Zenon
<1>3. st.latest # 0 => cur = st.latest
  <2>1. ASSUME st.latest # 0 PROVE cur = st.latest
    <3> DEFINE T == {1, st.latest}
    <3>1. st.latest \in T /\ T \subseteq Int /\ \A y \in T : st.latest >= y
      BY <1>1, <2>1
    <3> HIDE DEF T
    <3>2. Max(T) = st.latest
      BY <3>1, MaxIs, Zenon
    <3> QED
      BY <3>2, Zenon DEF T
  <2> QED
    BY <2>1, Zenon
<1>4. CASE st.latest = 0
  <2>1. 1 \in GroupIds
    BY <1>1, SparkGroupsAssumption DEF GroupIds
  <2>2. st.groups[1] = NoGroup
    BY <1>4, <2>1 DEF Sound
  <2>3. coins \in 0..MaxCoinInGroup
    BY SparkGroupsAssumption, Zenon
  <2>4. fits
    <3>1. st.groups[cur].nCoins = 0
      BY <1>2, <1>4, <2>2 DEF NoGroup
    <3>2. 0 + coins <= MaxCoinInGroup
      BY <2>3, SparkGroupsAssumption
    <3> QED
      BY <3>1, <3>2, Zenon
  <2> QED
    BY <1>2, <1>4, <2>1, <2>2, <2>4 DEF TakesGroup
<1>5. CASE st.latest # 0
  BY <1>1, <1>3, <1>5 DEF GroupIds, TakesGroup
<1> QED
  BY <1>4, <1>5, Zenon

-----------------------------------------------------------------------------
(* Connecting a block. *)

\* A spend of a group that exists is recorded, however many keys mintMetaInfo has.
LEMMA SameSpend ==
  ASSUME NEW used, NEW h, NEW spend, NEW few, NEW many, few \subseteq many, 0 \notin many,
         spend # 0 => spend \in few
  PROVE  AddSpend(used, many, h, spend) = AddSpend(used, few, h, spend)
BY Zenon DEF AddSpend

\* ConnectBlockSpark does to the state what AddBlock will do for the block it stores.
LEMMA ConnectStep ==
  ASSUME IndInv, NEW coins \in MintCounts, NEW spend \in 0..MaxHeight,
         ConnectBlockSpark(coins, spend)
  PROVE  IndInv'
<1> DEFINE n == Len(chain)
           h == n + 1
           cur == Max({1, latestCoinId})
           fits == coinGroups[cur].nCoins + coins <= MaxCoinInGroup
           id == IF fits THEN cur ELSE cur + 1
           b == [coins |-> coins, group |-> IF coins = 0 THEN 0 ELSE id, spend |-> spend]
           group == IF fits THEN GrownGroup(coinGroups[id], h, coins)
                            ELSE NewGroup(coinGroups, chain, id, h, coins)
<1>1. TypeOK
  BY Zenon DEF IndInv
<1>2. PICK st : Follows(st)
  BY Zenon DEF IndInv
<1> DEFINE s == st[n]
<1>3. /\ n < MaxHeight /\ (spend # 0 => coinGroups[spend] # NoGroup)
      /\ usedLTags' = AddSpend(usedLTags, mintMetaInfo, h, spend)
      /\ chain' = Append(chain, b) /\ aborted' = aborted
  BY Zenon DEF ConnectBlockSpark
<1>4. ASSUME coins = 0
      PROVE  coinGroups' = coinGroups /\ latestCoinId' = latestCoinId /\ mintMetaInfo' = mintMetaInfo
  BY <1>4, Zenon DEF ConnectBlockSpark
<1>5. ASSUME coins # 0
      PROVE  /\ latestCoinId' = id /\ mintMetaInfo' = mintMetaInfo \cup {id}
             /\ coinGroups' = [coinGroups EXCEPT ![id] = group]
  BY <1>5, Zenon DEF ConnectBlockSpark
<1>6. /\ Traced(chain, st) /\ coinGroups = s.groups /\ latestCoinId = s.latest
      /\ usedLTags = s.used /\ s.meta \subseteq mintMetaInfo
  BY <1>2, Zenon DEF Follows
<1>7. /\ n \in Nat /\ n \in 0..n /\ MaxHeight \in Nat /\ chain \in Seq(BlockIndex)
      /\ mintMetaInfo \subseteq GroupIds /\ 0 \notin mintMetaInfo /\ coins \in Nat
      /\ aborted \in BOOLEAN
  <2>1. n \in Nat /\ n \in 0..n
    BY <1>1 DEF TypeOK
  <2>2. coins \in Nat
    BY SparkGroupsAssumption
  <2> QED
    BY <1>1, <2>1, <2>2, SparkGroupsAssumption DEF TypeOK, GroupIds
<1>8. s \in StatesUpTo(n) /\ Sound(chain, n, s)
  BY <1>6, <1>7, Zenon DEF Traced
<1>9. s.latest \in Nat /\ s.groups \in [GroupIds -> Group] /\ s.meta = 1..s.latest
  BY <1>7, <1>8 DEF StatesUpTo, Sound
<1>10. fits \in BOOLEAN
  OBVIOUS
<1> HIDE DEF cur
<1>11. /\ id \in GroupIds /\ id # 0
       /\ fits => \/ s.latest # 0 /\ id = s.latest
                  \/ s.latest = 0 /\ id = 1 /\ s.groups[1] = NoGroup
       /\ ~fits => s.latest # 0 /\ id = s.latest + 1
  <2>1. cur = Max({1, s.latest}) /\ fits = (s.groups[cur].nCoins + coins <= MaxCoinInGroup)
    BY <1>6, Zenon DEF cur
  <2>2. id = IF fits THEN cur ELSE cur + 1
    BY Zenon
  <2> HIDE DEF fits, s, id
  <2>3. TakesGroup(s, fits, id)
    BY <1>3, <1>7, <1>8, <1>10, <2>1, <2>2, ConnectGroup, Zenon
  <2> QED
    BY <2>3, Zenon DEF TakesGroup
<1> HIDE DEF fits, id
<1>12. b \in BlockIndex
  BY <1>7, <1>11 DEF BlockIndex, GroupIds
<1>13. spend # 0 => spend \in 1..s.latest
  <2>1. ASSUME spend # 0, spend > s.latest PROVE FALSE
    <3>1. spend \in GroupIds
      BY <1>7, <2>1 DEF GroupIds
    <3>2. coinGroups[spend] = NoGroup
      BY <1>6, <1>8, <2>1, <3>1, Zenon DEF Sound
    <3> QED
      BY <1>3, <2>1, <3>2, Zenon
  <2> QED
    BY <1>9, <2>1
<1>14. StoredIn(b, s)
  BY <1>9, <1>11, <1>13 DEF StoredIn
<1>15. b.coins = coins /\ b.spend = spend /\ (coins # 0 => b.group = id)
  BY Zenon
<1> HIDE DEF b, s
<1>16. /\ chain' \in Seq(BlockIndex) /\ Len(chain') = h
       /\ SameUpTo(n, chain, chain') /\ chain'[h] = b
       /\ \E st2 : Traced(chain', st2) /\ st2[h] = AddBlock(chain', s, h)
  <2>1. Len(chain) < MaxHeight /\ chain' = Append(chain, b) /\ StoredIn(b, st[Len(chain)])
    BY <1>3, <1>14, Zenon DEF s
  <2>2. Prolonged(chain, st, b, chain')
    BY <1>6, <1>7, <1>12, <2>1, TracedAppend, Zenon
  <2> QED
    BY <2>2, Zenon DEF Prolonged, s
<1>17. PICK st2 : Traced(chain', st2) /\ st2[h] = AddBlock(chain', s, h)
  BY <1>16, Zenon
<1> DEFINE s2 == AddBlock(chain', s, h)
<1>18. /\ coinGroups' = s2.groups /\ latestCoinId' = s2.latest /\ usedLTags' = s2.used
       /\ s2.meta \subseteq mintMetaInfo'
  <2>1. CASE coins = 0
    <3>1. s2 = [groups |-> s.groups, latest |-> s.latest,
                used |-> AddSpend(s.used, s.meta, h, spend), meta |-> s.meta]
      <4>1. chain'[h].coins = 0 /\ chain'[h].spend = spend
        BY <1>15, <1>16, <2>1, Zenon
      <4> QED
        BY <1>8, <4>1, AddBlockEmpty
    <3>2. AddSpend(s.used, mintMetaInfo, h, spend) = AddSpend(s.used, s.meta, h, spend)
      BY <1>6, <1>7, <1>9, <1>13, SameSpend
    <3> HIDE DEF s2
    <3> QED
      BY <1>3, <1>4, <1>6, <2>1, <3>1, <3>2, Zenon
  <2>2. CASE coins # 0
    <3> DEFINE after == GroupAfter(chain', s, h)
    <3>1. s2 = [groups |-> [s.groups EXCEPT ![id] = after], latest |-> id,
                used |-> AddSpend(s.used, s.meta \cup {id}, h, spend), meta |-> s.meta \cup {id}]
      <4>1. chain'[h].coins # 0 /\ id = chain'[h].group /\ chain'[h].spend = spend
        BY <1>15, <1>16, <2>2, Zenon
      <4> QED
        BY <1>8, <4>1, AddBlockMinting, Zenon
    <3>2. AddSpend(s.used, mintMetaInfo, h, spend) = AddSpend(s.used, s.meta \cup {id}, h, spend)
      <4>1. AddSpend(s.used, mintMetaInfo, h, spend) = AddSpend(s.used, s.meta, h, spend)
        BY <1>6, <1>7, <1>9, <1>13, SameSpend
      <4>2. s.meta \subseteq s.meta \cup {id} /\ 0 \notin s.meta \cup {id}
        BY <1>6, <1>7, <1>11, Zenon
      <4>3. AddSpend(s.used, s.meta \cup {id}, h, spend) = AddSpend(s.used, s.meta, h, spend)
        BY <1>9, <1>13, <4>2, SameSpend
      <4> QED
        BY <4>1, <4>3, Zenon
    <3>3. after = group
      <4>1. /\ Len(chain') <= MaxHeight /\ n + 1 <= Len(chain') /\ chain'[n + 1].coins # 0
            /\ id = chain'[n + 1].group /\ chain'[n + 1] = b /\ chain'[n + 1].coins = coins
        BY <1>3, <1>7, <1>15, <1>16, <2>2
      <4>2. Sound(chain', n, s)
        BY <1>7, <1>8, <1>16, SoundSame, Zenon
      <4>3. StoredIn(chain'[n + 1], s)
        BY <1>14, <4>1, Zenon
      <4>4. /\ id = s.latest => after = GrownGroup(s.groups[id], n + 1, chain'[n + 1].coins)
            /\ id = s.latest + 1 =>
                 after = NewGroup(s.groups, chain', id, n + 1, chain'[n + 1].coins)
        <5>1. RightGroup(chain', n, s, id)
          BY <1>7, <1>8, <1>16, <4>1, <4>2, <4>3, GroupAfterSound, Zenon
        <5> QED
          BY <5>1, Zenon DEF RightGroup
      <4> HIDE DEF after
      <4>5. CASE fits /\ s.latest # 0
        BY <1>6, <1>11, <4>1, <4>4, <4>5, Zenon
      <4>6. CASE fits /\ s.latest = 0
        <5>1. id = 1 /\ s.latest + 1 = 1 /\ s.groups[1] = NoGroup
          BY <1>11, <4>6
        <5>2. after = NewGroup(s.groups, chain', 1, h, coins)
          BY <4>1, <4>4, <5>1, Zenon
        <5>3. GrownGroup(NoGroup, h, coins) = NewGroup(s.groups, chain', 1, h, coins)
          BY <1>7 DEF GrownGroup, NewGroup, NoGroup
        <5> QED
          BY <1>6, <4>6, <5>1, <5>2, <5>3, Zenon
      <4>7. CASE ~fits
        <5>1. id = s.latest + 1 /\ s.latest # 0 /\ id - 1 \in GroupIds /\ id > 1
          BY <1>7, <1>9, <1>11, <4>7 DEF GroupIds
        <5>2. s.groups[id - 1].last \in 0..n
          BY <1>7, <1>8, <5>1 DEF StatesUpTo, Group
        <5>3. CountLastNCoins(s.groups, chain, id - 1, StartGroupSize) =
                CountLastNCoins(s.groups, chain', id - 1, StartGroupSize)
          <6>1. PICK groups, new, j : groups = s.groups /\ new = chain' /\ j = id - 1
            BY Zenon
          <6>2. PICK m \in Nat : m = n
            BY <1>7, Zenon
          <6>3. /\ groups[j].last \in 0..m /\ SameUpTo(m, chain, new)
                /\ chain \in Seq(BlockIndex) /\ new \in Seq(BlockIndex)
            BY <1>7, <1>16, <5>2, <6>1, <6>2, Zenon
          <6> HIDE DEF n
          <6>4. CountLastNCoins(groups, chain, j, StartGroupSize) =
                  CountLastNCoins(groups, new, j, StartGroupSize)
            BY <6>3, CountLastSame
          <6> QED
            BY <6>1, <6>4, Zenon
        <5>4. NewGroup(s.groups, chain, id, h, coins) = NewGroup(s.groups, chain', id, h, coins)
          BY <5>1, <5>3, Zenon DEF NewGroup
        <5> QED
          BY <1>6, <4>1, <4>4, <4>7, <5>1, <5>4, Zenon
      <4> QED
        BY <4>5, <4>6, <4>7, Zenon
    <3> HIDE DEF s2, after, group
    <3> QED
      BY <1>3, <1>5, <1>6, <2>2, <3>1, <3>2, <3>3, Zenon
  <2> QED
    BY <2>1, <2>2, Zenon
<1>19. Follows(st2)'
  BY <1>16, <1>17, <1>18, Zenon DEF Follows
<1>20. TypeOK'
  <2>1. h \in 0..h /\ h <= MaxHeight
    BY <1>3, <1>7
  <2>2. s2 \in StatesUpTo(h)
    BY <1>16, <1>17, <2>1, Zenon DEF Traced
  <2>3. mintMetaInfo' \subseteq GroupIds
    BY <1>4, <1>5, <1>7, <1>11, Zenon
  <2> HIDE DEF s2
  <2> QED
    BY <1>3, <1>7, <1>16, <1>18, <2>1, <2>2, <2>3, Zenon DEF TypeOK, StatesUpTo, Group
<1> QED
  BY <1>19, <1>20, Zenon DEF IndInv

-----------------------------------------------------------------------------
(* Disconnecting the tip. *)

\* The last block of the latest group is the last one that mints, of this group or
\* the one before: what the walks of RemoveBlock find.
LEMMA LastMinting ==
  ASSUME NEW ch \in Seq(BlockIndex), NEW k \in Nat, k <= Len(ch),
         NEW st \in StatesUpTo(k), Sound(ch, k, st), NEW g \in 1..st.latest, g = st.latest
  PROVE  /\ Max(MintingBlocks(ch, g, k)) = st.groups[g].last
         /\ MintingBlocks(ch, g, k) # {}
         /\ PrevGroupCount(ch, g, k + 1) = 0
<1> DEFINE last == st.groups[g].last
           own == MintingBlocks(ch, g, k)
           prev == own \cup MintingBlocks(ch, g - 1, k)
<1>1. /\ last \in 1..k /\ ch[last].coins > 0 /\ ch[last].group = g
      /\ \A i \in 1..k : i > last => ch[i].group # g
  BY Zenon DEF Sound, GroupSound
<1>2. g \in Nat /\ g # g - 1 /\ g > 0
  BY DEF StatesUpTo
<1>3. last \in own
  BY <1>1, Zenon DEF MintingBlocks, CountCoinInBlock
<1>4. ASSUME NEW i \in prev PROVE last >= i
  <2>1. i \in 1..k /\ ch[i].group \in {g, g - 1} /\ ch[i].coins # 0
    BY DEF MintingBlocks, CountCoinInBlock
  <2>2. ASSUME i > last PROVE FALSE
    <3>1. ch[i].group = g - 1
      BY <1>1, <2>1, <2>2, Zenon
    <3>2. last < i /\ ch[last].coins # 0
      BY <1>1, <2>1, <2>2
    <3>3. ch[last].group <= ch[i].group
      BY <1>1, <2>1, <3>2, Zenon DEF Sound
    <3> QED
      BY <1>1, <1>2, <3>1, <3>3
  <2> QED
    BY <1>1, <2>1, <2>2
<1>5. own \subseteq Int /\ prev \subseteq Int
  BY DEF MintingBlocks
<1>6. Max(own) = last /\ Max(prev) = last
  <2> HIDE DEF last
  <2>1. \A i \in own : last >= i
    BY <1>4, Zenon
  <2>2. \A i \in prev : last >= i
    BY <1>4, Zenon
  <2>3. last \in prev
    BY <1>3, Zenon
  <2> HIDE DEF own, prev
  <2> QED
    BY <1>3, <1>5, <2>1, <2>2, <2>3, MaxIs, Zenon
<1>7. PrevGroupCount(ch, g, k + 1) = 0
  <2>1. (k + 1) - 1 = k
    OBVIOUS
  <2>2. PrevGroupCount(ch, g, k + 1) = IF prev = {} THEN 0 ELSE CountCoinInBlock(ch, Max(prev), g - 1)
    BY <2>1, Zenon DEF PrevGroupCount
  <2> QED
    BY <1>1, <1>2, <1>6, <2>2, Zenon DEF CountCoinInBlock
<1> QED
  BY <1>3, <1>6, <1>7, Zenon

\* Without its block, a group's last coin count and block are the ones before it.
LEMMA ShrinkGrown ==
  ASSUME NEW old \in Group, old.nCoins # 0, NEW h \in Nat, NEW coins \in Nat,
         NEW grown, grown = GrownGroup(old, h, coins)
  PROVE  /\ grown.nCoins - coins = old.nCoins
         /\ grown \in [first : {old.first}, last : Nat, nCoins : Nat]
<1>1. old.nCoins \in Nat
  BY Zenon DEF Group
<1> QED
  BY <1>1 DEF GrownGroup

\* RemoveBlock takes the state back to the one before the block, or stops the node.
LEMMA RemoveStep == IndInv /\ RemoveBlock => IndInv'
<1> SUFFICES ASSUME IndInv, RemoveBlock PROVE IndInv'
  BY Zenon
<1> DEFINE n == Len(chain)
           k == n - 1
           g == chain[n].group
           coins == chain[n].coins
           known == g # 0 /\ coinGroups[g] # NoGroup
           left == coinGroups[g].nCoins - coins
           erase == IF g > 1 THEN IsEdgedBlock(chain, g, n, left) ELSE left = 0
           fails == known /\ RollbackFails(coinGroups, chain, g, n, left, erase)
<1>1. TypeOK
  BY Zenon DEF IndInv
<1>2. PICK st : Follows(st)
  BY Zenon DEF IndInv
<1> DEFINE s == st[k]
           s2 == st[n]
<1>3. chain # <<>> /\ mintMetaInfo' = mintMetaInfo
  BY Zenon DEF RemoveBlock
<1>4. CASE fails
  <2>1. aborted' = TRUE /\ UNCHANGED <<chain, coinGroups, latestCoinId, usedLTags>>
    BY <1>4, Zenon DEF RemoveBlock
  <2>2. TypeOK' /\ Follows(st)'
    BY <1>1, <1>2, <1>3, <2>1, Zenon DEF TypeOK, Follows
  <2> QED
    BY <2>2, Zenon DEF IndInv
<1>5. CASE ~fails
  <2>1. /\ chain' = Front(chain) /\ usedLTags' = usedLTags \ {n} /\ aborted' = aborted
        /\ ~known => coinGroups' = coinGroups /\ latestCoinId' = latestCoinId
        /\ known /\ erase => /\ coinGroups' = [coinGroups EXCEPT ![g] = NoGroup]
                             /\ latestCoinId' = latestCoinId - 1
        /\ known /\ ~erase => /\ coinGroups' = [coinGroups EXCEPT
                                                  ![g].last = Max(MintingBlocks(chain, g, n - 1)),
                                                  ![g].nCoins = left]
                              /\ latestCoinId' = latestCoinId
    BY <1>5, Zenon DEF RemoveBlock, Front
  <2>2. /\ chain \in Seq(BlockIndex) /\ n \in Nat /\ n > 0 /\ n <= MaxHeight /\ MaxHeight \in Nat
        /\ k \in Nat /\ k + 1 = n /\ n - 1 = k /\ k <= n /\ k \in 0..n /\ n \in 0..n /\ n \in 1..n
    BY <1>1, <1>3, SparkGroupsAssumption DEF TypeOK
  <2>3. /\ Traced(chain, st) /\ coinGroups = s2.groups /\ latestCoinId = s2.latest
        /\ usedLTags = s2.used /\ s2.meta \subseteq mintMetaInfo
    BY <1>2, Zenon DEF Follows
  <2>4. /\ s \in StatesUpTo(k) /\ Sound(chain, k, s) /\ Sound(chain, n, s2) /\ s2 \in StatesUpTo(n)
        /\ StoredIn(chain[n], s) /\ s2 = AddBlock(chain, s, n)
    BY <2>2, <2>3, Zenon DEF Traced, IsTrace
  <2>5. /\ s.latest \in Nat /\ s.groups \in [GroupIds -> Group] /\ s.meta = 1..s.latest
        /\ s.used = {i \in 1..k : chain[i].spend # 0}
        /\ s2.used = {i \in 1..n : chain[i].spend # 0}
    <3> HIDE DEF s, s2
    <3>1. s.latest \in Nat /\ s.groups \in [GroupIds -> Group]
      BY <2>2, <2>4 DEF StatesUpTo
    <3>2. s.meta = 1..s.latest /\ s.used = {i \in 1..k : chain[i].spend # 0}
      BY <2>4, Zenon DEF Sound
    <3>3. s2.used = {i \in 1..n : chain[i].spend # 0}
      BY <2>4, Zenon DEF Sound
    <3> QED
      BY <3>1, <3>2, <3>3, Zenon
  <2>6. coins \in Nat /\ g \in Nat
    BY <2>2, BlocksTyped, Zenon
  <2> HIDE DEF s, s2
  <2>7. /\ coinGroups' = s.groups /\ latestCoinId' = s.latest /\ s.meta \subseteq s2.meta
    <3>1. CASE coins = 0
      <4>1. s2 = [groups |-> s.groups, latest |-> s.latest,
                  used |-> AddSpend(s.used, s.meta, n, chain[n].spend), meta |-> s.meta]
        BY <2>4, <3>1, AddBlockEmpty
      <4>2. g = 0
        BY <2>4, <3>1, Zenon DEF StoredIn
      <4> QED
        BY <2>1, <2>3, <4>1, <4>2, Zenon
    <3>2. CASE coins # 0
      <4> DEFINE after == GroupAfter(chain, s, n)
      <4>1. s2 = [groups |-> [s.groups EXCEPT ![g] = after], latest |-> g,
                  used |-> AddSpend(s.used, s.meta \cup {g}, n, chain[n].spend),
                  meta |-> s.meta \cup {g}]
        BY <2>4, <3>2, AddBlockMinting, Zenon
      <4>2. g # 0 /\ g \in {s.latest, s.latest + 1}
        BY <2>4, <3>2, Zenon DEF StoredIn
      <4>3. /\ Len(chain) <= MaxHeight /\ k + 1 <= Len(chain) /\ StoredIn(chain[k + 1], s)
            /\ chain[k + 1].coins # 0 /\ g = chain[k + 1].group
        BY <2>2, <2>4, <3>2
      <4>4. /\ g \in GroupIds
            /\ g = s.latest => /\ g \in 1..s.latest
                               /\ after = GrownGroup(s.groups[g], n, coins)
        <5>1. RightGroup(chain, k, s, g)
          BY <2>2, <2>4, <4>3, GroupAfterSound, Zenon
        <5> QED
          BY <2>2, <5>1, Zenon DEF RightGroup
      <4>5. coinGroups = [s.groups EXCEPT ![g] = after] /\ coinGroups[g] = after
            /\ latestCoinId = g /\ s.meta \subseteq s2.meta
        BY <2>3, <2>5, <4>1, <4>4, Zenon
      <4>6. coinGroups[g] # NoGroup
        <5>1. g <= s2.latest
          BY <2>6, <4>1
        <5> QED
          BY <2>2, <2>3, <2>4, <4>4, <5>1, FirstOf, Zenon
      <4>7. known
        BY <4>2, <4>6, Zenon
      <4> HIDE DEF after
      <4>8. CASE g = s.latest
        <5> DEFINE old == s.groups[g]
        <5>1. g \in 1..s.latest /\ after = GrownGroup(old, n, coins) /\ old \in Group
          BY <2>5, <4>4, <4>8, Zenon
        <5>2. old.nCoins # 0 /\ old.nCoins \in Nat /\ g <= s.latest
          <6>1. g <= s.latest
            BY <2>5, <5>1
          <6> QED
            BY <2>2, <2>4, <4>4, <6>1, FirstOf, Zenon
        <5>3. left = old.nCoins /\ after \in [first : {old.first}, last : Nat, nCoins : Nat]
          <6> HIDE DEF old, coins
          <6>1. after.nCoins - coins = old.nCoins
            BY <2>2, <2>6, <5>1, <5>2, ShrinkGrown, Zenon
          <6>2. after \in [first : {old.first}, last : Nat, nCoins : Nat]
            BY <2>2, <2>6, <5>1, <5>2, ShrinkGrown, Zenon
          <6> QED
            BY <4>5, <6>1, <6>2, Zenon
        <5>4. Max(MintingBlocks(chain, g, k)) = old.last /\ PrevGroupCount(chain, g, k + 1) = 0
          BY <2>2, <2>4, <4>8, <5>1, LastMinting, Zenon
        <5>5. ~erase
          <6>1. CASE g > 1
            <7>1. \A x : ~IsEdgedBlock(chain, g, k + 1, x)
              BY <5>4 DEF IsEdgedBlock
            <7>2. n = k + 1
              BY <2>2, Zenon
            <7>3. ~IsEdgedBlock(chain, g, n, left)
              BY <7>1, <7>2, Zenon
            <7> QED
              BY <6>1, <7>3, Zenon
          <6>2. CASE ~(g > 1)
            BY <5>2, <5>3, <6>2, Zenon
          <6> QED
            BY <6>1, <6>2, Zenon
        <5> HIDE DEF erase, left, known
        <5>6. coinGroups' = [coinGroups EXCEPT ![g].last = old.last, ![g].nCoins = old.nCoins]
              /\ latestCoinId' = latestCoinId
          BY <2>1, <2>2, <4>7, <5>3, <5>4, <5>5, Zenon
        <5>7. coinGroups' = [s.groups EXCEPT ![g] = old]
          <6>1. coinGroups' = [coinGroups EXCEPT ![g] =
                   [[coinGroups[g] EXCEPT !.last = old.last] EXCEPT !.nCoins = old.nCoins]]
            BY <2>5, <4>4, <4>5, <5>6, Zenon
          <6>2. [[after EXCEPT !.last = old.last] EXCEPT !.nCoins = old.nCoins] = old
            BY <5>1, <5>3, Zenon DEF Group
          <6> HIDE DEF old
          <6> QED
            BY <2>5, <4>4, <4>5, <6>1, <6>2, Zenon
        <5>8. coinGroups' = s.groups
          BY <2>5, <4>4, <5>7, Zenon
        <5> QED
          BY <4>5, <4>8, <5>6, <5>8, Zenon
      <4>9. CASE g = s.latest + 1
        <5>1. MintingBlocks(chain, g, n - 1) = {}
          <6>1. ASSUME NEW i \in MintingBlocks(chain, g, n - 1) PROVE FALSE
            <7>1. i \in 1..k /\ chain[i].coins # 0 /\ chain[i].group = g
              BY <2>2 DEF MintingBlocks, CountCoinInBlock
            <7>2. g \in 1..s.latest
              BY <2>4, <7>1, Zenon DEF Sound
            <7> QED
              BY <2>5, <4>9, <7>2
          <6> QED
            BY <6>1, Zenon
        <5>2. erase
          <6> HIDE DEF erase, left
          <6> QED
            BY <1>5, <4>7, <5>1, Zenon DEF RollbackFails
        <5>3. s.groups[g] = NoGroup
          <6>1. g > s.latest
            BY <2>5, <4>9
          <6>2. \A e \in GroupIds : e > s.latest => s.groups[e] = NoGroup
            BY <2>4, Zenon DEF Sound
          <6> QED
            BY <4>4, <6>1, <6>2, Zenon
        <5> HIDE DEF erase, known
        <5>4. coinGroups' = [coinGroups EXCEPT ![g] = NoGroup] /\ latestCoinId' = latestCoinId - 1
          BY <2>1, <4>7, <5>2, Zenon
        <5>5. coinGroups' = s.groups
          BY <2>5, <4>4, <4>5, <5>3, <5>4, Zenon
        <5> QED
          BY <2>5, <4>5, <4>9, <5>4, <5>5
      <4> QED
        BY <4>2, <4>8, <4>9, Zenon
    <3> QED
      BY <3>1, <3>2, Zenon
  <2>8. usedLTags' = s.used
    BY <2>1, <2>2, <2>3, <2>5
  <2>9. chain' \in Seq(BlockIndex) /\ Len(chain') = k /\ Traced(chain', st)
    BY <2>1, <2>2, <2>3, TracedFront, Zenon
  <2>10. Follows(st)'
    BY <1>3, <2>3, <2>7, <2>8, <2>9, Zenon DEF Follows, s
  <2>11. TypeOK'
    BY <1>1, <1>3, <2>1, <2>2, <2>4, <2>7, <2>8, <2>9 DEF TypeOK, StatesUpTo, Group
  <2> QED
    BY <2>10, <2>11, Zenon DEF IndInv
<1> QED
  BY <1>4, <1>5, Zenon

-----------------------------------------------------------------------------
(* Theorems. *)

\* Every state of the node has a trace of its chain behind it: ConnectBlockSpark,
\* RemoveBlock and a start from the block index keep IndInv.
THEOREM Invariance == Spec => []IndInv
<1>1. ASSUME IndInv, [Next]_vars PROVE IndInv'
  <2>1. CASE Next
    <3>1. ASSUME NEW coins \in MintCounts, NEW spend \in 0..MaxHeight,
                 ConnectBlockSpark(coins, spend)
          PROVE  IndInv'
      BY <1>1, <3>1, ConnectStep, Zenon
    <3> QED
      BY <1>1, <2>1, <3>1, RemoveStep, RestartStep, Zenon DEF Next
  <2>2. CASE UNCHANGED vars
    BY <1>1, <2>2, Zenon DEF IndInv, Follows, TypeOK, vars
  <2> QED
    BY <1>1, <2>1, <2>2, Zenon
<1> QED
  BY <1>1, IndInit, PTL DEF Spec

\* The members of CSparkState have their types.
THEOREM TypeCorrect == Spec => []TypeOK
<1>1. IndInv => TypeOK
  BY Zenon DEF IndInv
<1> QED
  BY <1>1, Invariance, PTL

\* The last state of the trace is what BuildSparkStateFromIndex computes.
LEMMA IndSame == IndInv => SameAsRebuilt
<1> SUFFICES ASSUME IndInv PROVE SameAsRebuilt
  BY Zenon
<1>1. PICK st : Follows(st)
  BY Zenon DEF IndInv
<1>2. BuildSparkStateFromIndex(chain) = st[Len(chain)]
  BY <1>1, FollowsRebuilt, Zenon DEF IndInv, TypeOK, Follows
<1> QED
  BY <1>1, <1>2, Zenon DEF Follows, SameAsRebuilt

\* However blocks came and went, the groups, the latest id and the recorded spends
\* are those BuildSparkStateFromIndex computes from the block index.
THEOREM SameAsRebuiltHolds == Spec => []SameAsRebuilt
BY Invariance, IndSame, PTL

\* The state is sound for the chain.
LEMMA IndSound ==
  ASSUME IndInv
  PROVE  \E s \in StatesUpTo(Len(chain)) :
           /\ Sound(chain, Len(chain), s)
           /\ coinGroups = s.groups /\ latestCoinId = s.latest /\ usedLTags = s.used
<1>1. PICK st : Follows(st)
  BY Zenon DEF IndInv
<1>2. Len(chain) \in 0..Len(chain)
  BY DEF IndInv, TypeOK
<1> QED
  BY <1>1, <1>2, Zenon DEF Follows, Traced

\* nCoins of a group is the number of coins in its set, the ones carried over from
\* the previous group by CountLastNCoins included.
THEOREM GroupCountsItsCoinsHolds == Spec => []GroupCountsItsCoins
<1>1. IndInv => GroupCountsItsCoins
  <2> SUFFICES ASSUME IndInv, NEW g \in GroupIds, coinGroups[g] # NoGroup
               PROVE  coinGroups[g].nCoins =
                        SumFunctionOnSet([h \in DOMAIN chain |-> chain[h].coins],
                                         CoverSet(coinGroups, chain, g, coinGroups[g].last))
    BY Zenon DEF GroupCountsItsCoins
  <2>1. PICK s \in StatesUpTo(Len(chain)) :
          Sound(chain, Len(chain), s) /\ coinGroups = s.groups
    BY IndSound, Zenon
  <2>2. s.latest \in Nat /\ g \in Nat /\ g > 0
    BY SparkGroupsAssumption DEF StatesUpTo, GroupIds
  <2>3. g \in 1..s.latest
    BY <2>1, <2>2 DEF Sound
  <2>4. GroupSound(chain, Len(chain), g, coinGroups[g])
    BY <2>1, <2>3, Zenon DEF Sound
  <2>5. CoverSet(coinGroups, chain, g, coinGroups[g].last) =
          Cover(chain, g, coinGroups[g].first, coinGroups[g].last)
    BY Zenon DEF CoverSet, Cover
  <2> QED
    BY <2>4, <2>5, Zenon DEF GroupSound, Coins
<1> QED
  BY <1>1, Invariance, PTL

\* AddSpend and RemoveBlock keep exactly the spends of the blocks on the chain.
THEOREM SpendsRecordedHolds == Spec => []SpendsRecorded
<1>1. IndInv => SpendsRecorded
  <2> SUFFICES ASSUME IndInv PROVE SpendsRecorded
    BY Zenon
  <2> QED
    BY IndSound, Zenon DEF Sound, SpendsRecorded
<1> QED
  BY <1>1, Invariance, PTL

\* A group that exists before a block and after it starts at the same block.
LEMMA FirstKept ==
  ASSUME NEW ch \in Seq(BlockIndex), Len(ch) <= MaxHeight, NEW k \in Nat, k + 1 <= Len(ch),
         NEW st \in StatesUpTo(k), Sound(ch, k, st), StoredIn(ch[k + 1], st),
         NEW g \in GroupIds, st.groups[g] # NoGroup
  PROVE  AddBlock(ch, st, k + 1).groups[g].first = st.groups[g].first
<1>1. st.groups \in [GroupIds -> Group] /\ st.latest \in Nat /\ g \in Nat
  BY SparkGroupsAssumption DEF StatesUpTo, GroupIds
<1>2. g <= st.latest
  BY <1>1 DEF Sound
<1>3. CASE ch[k + 1].coins = 0
  BY <1>3, AddBlockEmpty
<1>4. CASE ch[k + 1].coins # 0
  <2> DEFINE new == ch[k + 1].group
             after == GroupAfter(ch, st, k + 1)
  <2>1. AddBlock(ch, st, k + 1) =
          [groups |-> [st.groups EXCEPT ![new] = after], latest |-> new,
           used |-> AddSpend(st.used, st.meta \cup {new}, k + 1, ch[k + 1].spend),
           meta |-> st.meta \cup {new}]
    BY <1>4, AddBlockMinting, Zenon
  <2>2. new = g => after.first = st.groups[g].first
    <3>1. new \in {st.latest, st.latest + 1}
      BY <1>4, Zenon DEF StoredIn
    <3>2. new = st.latest => after.first = st.groups[new].first
      BY <1>4, GroupAfterSound, Zenon DEF RightGroup
    <3> HIDE DEF new, after
    <3>3. new = g => new = st.latest
      BY <1>1, <1>2, <3>1
    <3> QED
      BY <3>2, <3>3, Zenon
  <2> HIDE DEF new, after
  <2>3. AddBlock(ch, st, k + 1).groups = [st.groups EXCEPT ![new] = after]
    <3>1. PICK groups, used, meta :
            /\ groups = [st.groups EXCEPT ![new] = after] /\ meta = st.meta \cup {new}
            /\ used = AddSpend(st.used, st.meta \cup {new}, k + 1, ch[k + 1].spend)
      BY Zenon
    <3>2. AddBlock(ch, st, k + 1) = [groups |-> groups, latest |-> new, used |-> used, meta |-> meta]
      BY <2>1, <3>1, Zenon
    <3>3. AddBlock(ch, st, k + 1).groups = groups
      BY <3>2
    <3> QED
      BY <3>1, <3>3, Zenon
  <2>4. CASE new = g
    BY <1>1, <2>2, <2>3, <2>4, Zenon
  <2>5. CASE new # g
    BY <1>1, <2>3, <2>5, Zenon
  <2> QED
    BY <2>4, <2>5, Zenon
<1> QED
  BY <1>3, <1>4, Zenon

\* Taking the last block away leaves the sets at the blocks before it.
LEMMA FrontCover ==
  ASSUME NEW ch \in Seq(BlockIndex), Len(ch) <= MaxHeight, Len(ch) > 0,
         NEW long, long = BuildSparkStateFromIndex(ch).groups,
         NEW short, short = BuildSparkStateFromIndex(Front(ch)).groups,
         NEW st, Traced(ch, st),
         NEW g \in GroupIds, long[g] # NoGroup, short[g] # NoGroup, NEW h \in 1..Len(Front(ch))
  PROVE  CoverSet(long, ch, g, h) = CoverSet(short, Front(ch), g, h)
<1> DEFINE n == Len(ch)
           k == n - 1
<1>1. /\ n \in Nat /\ k \in Nat /\ k + 1 = n /\ k \in 0..n /\ k <= MaxHeight /\ n \in 1..n
      /\ MaxHeight \in Nat
  BY SparkGroupsAssumption
<1>2. Front(ch) \in Seq(BlockIndex) /\ Len(Front(ch)) = k /\ Traced(Front(ch), st)
  BY TracedFront, Zenon
<1>3. long = st[n].groups /\ short = st[k].groups
  BY <1>1, <1>2, FollowsRebuilt, Zenon
<1>4. /\ st[k] \in StatesUpTo(k) /\ Sound(ch, k, st[k]) /\ StoredIn(ch[k + 1], st[k])
      /\ st[n] = AddBlock(ch, st[k], k + 1) /\ k + 1 <= Len(ch)
  BY <1>1 DEF Traced, IsTrace
<1>5. long[g].first = short[g].first
  <2>1. st[k].groups[g] # NoGroup
    BY <1>3, Zenon
  <2>2. AddBlock(ch, st[k], k + 1).groups[g].first = st[k].groups[g].first
    BY <1>1, <1>4, <2>1, FirstKept, Zenon
  <2> QED
    BY <1>3, <1>4, <2>2, Zenon
<1>6. short[g].first \in Nat /\ short[g].first # 0
  <2>1. g <= st[k].latest
    <3>1. st[k].latest \in Nat /\ g \in Nat
      <4>1. g \in Nat
        BY SparkGroupsAssumption DEF GroupIds
      <4>2. st[k].latest \in 0..MaxHeight
        BY <1>4, Zenon DEF StatesUpTo
      <4> QED
        BY <4>1, <4>2
    <3>2. \A e \in GroupIds : e > st[k].latest => st[k].groups[e] = NoGroup
      BY <1>4, Zenon DEF Sound
    <3> QED
      BY <1>3, <3>1, <3>2
  <2>2. short[g] \in Group
    BY <1>3, <1>4, Zenon DEF StatesUpTo
  <2> QED
    <3>1. st[k].groups[g].first # 0
      BY <1>1, <1>4, <2>1, FirstOf, Zenon
    <3>2. MaxHeight \in Nat
      BY SparkGroupsAssumption, Zenon
    <3> QED
      BY <1>3, <2>2, <3>1, <3>2 DEF Group
<1>7. \A i \in 1..k : Front(ch)[i] = ch[i]
  BY <1>1 DEF Front
<1>8. \A i \in short[g].first..h : Front(ch)[i] = ch[i]
  BY <1>1, <1>2, <1>6, <1>7
<1> QED
  BY <1>5, <1>8, Zenon DEF CoverSet

\* What a step may do to the chain.
LEMMA ChainStep ==
  ASSUME TypeOK, [Next]_vars
  PROVE  \/ chain' = chain
         \/ Len(chain) > 0 /\ chain' = Front(chain)
         \/ Len(chain') > 0 /\ chain = Front(chain')
<1>1. CASE UNCHANGED vars
  BY <1>1, Zenon DEF vars
<1>2. ASSUME NEW coins \in MintCounts, NEW spend \in 0..MaxHeight, ConnectBlockSpark(coins, spend)
      PROVE  Len(chain') > 0 /\ chain = Front(chain')
  <2>1. PICK b : chain' = Append(chain, b)
    BY <1>2, Zenon DEF ConnectBlockSpark
  <2>2. Len(chain') = Len(chain) + 1 /\ Len(chain) \in Nat /\ chain \in [1..Len(chain) -> BlockIndex]
    BY <2>1 DEF TypeOK
  <2>3. \A i \in 1..Len(chain) : chain'[i] = chain[i]
    BY <2>1 DEF TypeOK
  <2>4. Front(chain') = SubSeq(chain', 1, Len(chain))
    BY <2>2 DEF Front
  <2>5. SubSeq(chain', 1, Len(chain)) = [i \in 1..Len(chain) |-> chain'[i]]
    BY <2>2
  <2> QED
    BY <2>2, <2>3, <2>4, <2>5
<1>3. CASE RemoveBlock
  <2>1. chain # <<>> /\ (chain' = chain \/ chain' = Front(chain))
    BY <1>3, Zenon DEF RemoveBlock, Front
  <2> QED
    BY <2>1 DEF TypeOK
<1>4. CASE Restart
  BY <1>4, Zenon DEF Restart
<1> QED
  BY <1>1, <1>2, <1>3, <1>4, Zenon DEF Next

\* A step leaves the set of a group that stays, at a block that stays.
LEMMA StableStep ==
  ASSUME IndInv, IndInv', [Next]_vars, NEW g \in GroupIds, NEW h \in 1..Len(chain),
         coinGroups[g] # NoGroup, coinGroups'[g] # NoGroup, h <= Len(chain')
  PROVE  CoverSet(coinGroups', chain', g, h) = CoverSet(coinGroups, chain, g, h)
<1>1. /\ coinGroups = BuildSparkStateFromIndex(chain).groups
      /\ coinGroups' = BuildSparkStateFromIndex(chain').groups
  <2>1. SameAsRebuilt /\ SameAsRebuilt'
    BY IndSame, PTL
  <2> QED
    BY <2>1, Zenon DEF SameAsRebuilt
<1>2. PICK st : Traced(chain, st)
  BY Zenon DEF IndInv, Follows
<1>3. PICK st2 : Traced(chain', st2)
  BY Zenon DEF IndInv, Follows
<1>4. /\ chain \in Seq(BlockIndex) /\ Len(chain) <= MaxHeight
      /\ chain' \in Seq(BlockIndex) /\ Len(chain') <= MaxHeight
  BY Zenon DEF IndInv, TypeOK
<1>5. CASE chain' = chain
  BY <1>1, <1>5, Zenon
<1>6. CASE Len(chain) > 0 /\ chain' = Front(chain)
  <2>1. h \in 1..Len(Front(chain))
    BY <1>4, <1>6
  <2> QED
    BY <1>1, <1>2, <1>4, <1>6, <2>1, FrontCover
<1>7. CASE Len(chain') > 0 /\ chain = Front(chain')
  BY <1>1, <1>3, <1>4, <1>7, FrontCover
<1> QED
  BY <1>5, <1>6, <1>7, ChainStep, Zenon DEF IndInv

\* No connect, disconnect or restart changes the set of a group at a block, while
\* the group exists and the block stays on the chain.
THEOREM CoverSetsStableHolds == Spec => CoverSetsStable
<1>1. ASSUME IndInv, IndInv', [Next]_vars
      PROVE  [\A g \in GroupIds : \A h \in 1..Len(chain) :
                /\ coinGroups[g] # NoGroup /\ coinGroups'[g] # NoGroup
                /\ h \in coinGroups[g].first..coinGroups[g].last
                /\ h <= Len(chain') /\ h \in coinGroups'[g].first..coinGroups'[g].last
                => CoverSet(coinGroups', chain', g, h) = CoverSet(coinGroups, chain, g, h)]_vars
  BY <1>1, StableStep, Zenon
<1> QED
  BY <1>1, Invariance, PTL DEF Spec, CoverSetsStable
=============================================================================
