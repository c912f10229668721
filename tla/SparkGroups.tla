---------------------------- MODULE SparkGroups ----------------------------
(***************************************************************************)
(* The coin groups (anonymity sets) of CSparkState, spark/state.cpp: how   *)
(* they follow the active chain when blocks are connected, disconnected    *)
(* and when the state is rebuilt from the block index at startup.          *)
(*                                                                         *)
(* Coins are counted, not named.  A block index keeps what                 *)
(* ConnectBlockSpark stored in it: the number of coins it mints, the group *)
(* they were put into (sparkMintedCoins) and the group of its spend        *)
(* (spentLTags), one spend for each block at most, 0 when there is none.   *)
(* Blocks are named by their heights, so first = 0 is the null pointer.    *)
(***************************************************************************)
EXTENDS Integers, Sequences, FiniteSetsExt

CONSTANTS MaxCoinInGroup,   \* maxCoinInGroup
          StartGroupSize,   \* startGroupSize
          MintCounts,       \* numbers of coins a block may mint
          MaxHeight         \* bound: length of the chain

ASSUME SparkGroupsAssumption ==
  /\ MaxCoinInGroup \in Nat
  /\ MintCounts \subseteq 0..MaxCoinInGroup
  /\ StartGroupSize \in 1..MaxCoinInGroup
  /\ MaxHeight \in Nat

\* Groups that can exist, as every group has a block of its own.
GroupIds == 1..MaxHeight

BlockIndex == [coins : MintCounts, group : 0..MaxHeight, spend : 0..MaxHeight]

VARIABLES
  chain,        \* chain[h]: the block index at height h
  coinGroups,   \* coinGroups[g]: SparkCoinGroupInfo
  latestCoinId,
  usedLTags,    \* heights of the blocks whose spend is recorded
  mintMetaInfo, \* the keys of mintMetaInfo: groups that have had a coin
  aborted       \* an assert has stopped the node

vars == <<chain, coinGroups, latestCoinId, usedLTags, mintMetaInfo, aborted>>

\* A group that is not in the map, the same as a new SparkCoinGroupInfo.
NoGroup == [first |-> 0, last |-> 0, nCoins |-> 0]

TypeOK ==
  /\ chain \in Seq(BlockIndex) /\ Len(chain) <= MaxHeight
  /\ coinGroups \in [GroupIds -> [first : 0..MaxHeight, last : 0..MaxHeight, nCoins : Nat]]
  /\ latestCoinId \in 0..MaxHeight
  /\ usedLTags \subseteq 1..MaxHeight
  /\ mintMetaInfo \subseteq GroupIds
  /\ aborted \in BOOLEAN

\* CSparkState::Reset.
Reset == [groups |-> [g \in GroupIds |-> NoGroup], latest |-> 0, used |-> {}, meta |-> {}]

Init ==
  /\ chain = <<>>
  /\ coinGroups = Reset.groups
  /\ latestCoinId = Reset.latest
  /\ usedLTags = Reset.used
  /\ mintMetaInfo = Reset.meta
  /\ aborted = FALSE

-----------------------------------------------------------------------------
(* Walks over the chain. *)

\* CountCoinInBlock.
CountCoinInBlock(ch, h, g) == IF ch[h].group = g THEN ch[h].coins ELSE 0

\* The heights up to h of the blocks that mint coins of group g.
MintingBlocks(ch, g, h) == {i \in 1..h : CountCoinInBlock(ch, i, g) > 0}

CoinsBetween(ch, g, lo, hi) ==
  SumFunctionOnSet([i \in DOMAIN ch |-> CountCoinInBlock(ch, i, g)], {i \in lo..hi : i > 0})

\* The count is cut off at what is required, the walk is not.
CountAtMost(groups, ch, g, required) ==
  LET last == groups[g].last
      minting == MintingBlocks(ch, g, last)
      enough == {h \in minting : CoinsBetween(ch, g, h, last) >= required}
      first == IF minting = {} THEN 0 ELSE IF enough # {} THEN Max(enough) ELSE Min(minting)
  IN  [coins |-> Min({required, CoinsBetween(ch, g, first, last)}), first |-> first]

\* CountLastNCoins: the walk back from the last block of group g stops at the
\* block with which it has required coins.
CountLastNCoins(groups, ch, g, required) ==
  LET last == groups[g].last
      minting == MintingBlocks(ch, g, last)
      enough == {h \in minting : CoinsBetween(ch, g, h, last) >= required}
      first == IF minting = {} THEN 0 ELSE IF enough # {} THEN Max(enough) ELSE Min(minting)
  IN  [coins |-> CoinsBetween(ch, g, first, last), first |-> first]

\* The set goes up to the group's last block whichever block the spend names.
CoverSetToLast(groups, ch, g, h) ==
  {i \in groups[g].first..groups[g].last : ch[i].coins > 0 /\ ch[i].group \in {g, g - 1}}

\* The heights GetCoinSetForSpend and CheckSparkSpendTransaction collect coins
\* from when the set of group g is taken at block h: own coins, or coins of the
\* previous group in the blocks that have none.
CoverSet(groups, ch, g, h) ==
  {i \in groups[g].first..h : ch[i].coins > 0 /\ ch[i].group \in {g, g - 1}}

-----------------------------------------------------------------------------
(* Connecting a block. *)

\* A new group, started with the last coins of the one before.
NewGroup(groups, ch, g, h, coins) ==
  LET carried == IF g > 1 THEN CountLastNCoins(groups, ch, g - 1, StartGroupSize)
                          ELSE [coins |-> 0, first |-> 0]
  IN  [first |-> IF carried.first # 0 THEN carried.first ELSE h,
       last |-> h,
       nCoins |-> carried.coins + coins]

\* Coins are taken off the count.
ShrunkGroup(group, h, coins) ==
  [first |-> IF group.nCoins = 0 THEN h ELSE group.first,
   last |-> h,
   nCoins |-> group.nCoins - coins]

GrownGroup(group, h, coins) ==
  [first |-> IF group.nCoins = 0 THEN h ELSE group.first,
   last |-> h,
   nCoins |-> group.nCoins + coins]

\* Only spends of the latest group are recorded.
AddSpendOfLatest(used, meta, h, spend) ==
  IF spend \in meta /\ spend = Max(meta) THEN used \cup {h} ELSE used

\* AddSpend: a tag of a group without mints is not recorded.
AddSpend(used, meta, h, spend) == IF spend \in meta THEN used \cup {h} ELSE used

\* ConnectBlockSpark with AddMintsToStateAndBlockIndex.  The spend was verified
\* against a group that exists (CheckSparkSpendTransaction), and is recorded
\* before the mints.
ConnectBlockSpark(coins, spend) ==
  /\ ~aborted
  /\ Len(chain) < MaxHeight
  /\ spend # 0 => coinGroups[spend] # NoGroup
  /\ LET h == Len(chain) + 1
         cur == Max({1, latestCoinId})
         fits == coinGroups[cur].nCoins + coins <= MaxCoinInGroup
         id == IF fits THEN cur ELSE cur + 1
     IN  /\ usedLTags' = AddSpend(usedLTags, mintMetaInfo, h, spend)
         /\ chain' = Append(chain, [coins |-> coins,
                                    group |-> IF coins = 0 THEN 0 ELSE id,
                                    spend |-> spend])
         /\ IF coins = 0
            THEN UNCHANGED <<coinGroups, latestCoinId, mintMetaInfo>>
            ELSE /\ latestCoinId' = id
                 /\ mintMetaInfo' = mintMetaInfo \cup {id}
                 /\ coinGroups' = [coinGroups EXCEPT ![id] =
                                     IF fits THEN GrownGroup(@, h, coins)
                                             ELSE NewGroup(coinGroups, chain, id, h, coins)]
  /\ UNCHANGED aborted

-----------------------------------------------------------------------------
(* Disconnecting the tip. *)

\* The walk of RemoveBlock from block h to the previous block with coins of group
\* g or g - 1: its coins if they are of group g - 1, else 0.
PrevGroupCount(ch, g, h) ==
  LET prev == MintingBlocks(ch, g, h - 1) \cup MintingBlocks(ch, g - 1, h - 1)
  IN  IF prev = {} THEN 0 ELSE CountCoinInBlock(ch, Max(prev), g - 1)

\* isEdgedBlock; the difference is unsigned, so a negative one is not small.
IsEdgedBlock(ch, g, h, left) ==
  LET prev == PrevGroupCount(ch, g, h)
  IN  prev > 0 /\ left >= prev /\ left - prev < StartGroupSize

\* The asserts of RemoveBlock that fail: fewer coins counted than the block minted,
\* or the walk back to the previous block of the group meets its first block.
RollbackFails(groups, ch, g, h, left, erase) ==
  LET before == MintingBlocks(ch, g, h - 1)
  IN  \/ left < 0
      \/ /\ ~erase
         /\ \/ groups[g].last # h
            \/ IF before = {} THEN TRUE ELSE groups[g].first > Max(before)

\* RemoveBlock for the tip, of group g if it minted coins.
RemoveBlock ==
  /\ ~aborted
  /\ chain # <<>>
  /\ LET h == Len(chain)
         g == chain[h].group
         known == g # 0 /\ coinGroups[g] # NoGroup
         left == coinGroups[g].nCoins - chain[h].coins
         erase == IF g > 1 THEN IsEdgedBlock(chain, g, h, left) ELSE left = 0
         fails == known /\ RollbackFails(coinGroups, chain, g, h, left, erase)
     IN  \/ /\ fails
            /\ aborted' = TRUE
            /\ UNCHANGED <<chain, coinGroups, latestCoinId, usedLTags>>
         \/ /\ ~fails
            /\ IF ~known
               THEN UNCHANGED <<coinGroups, latestCoinId>>
               ELSE IF erase
               THEN /\ coinGroups' = [coinGroups EXCEPT ![g] = NoGroup]
                    /\ latestCoinId' = latestCoinId - 1
               ELSE /\ coinGroups' = [coinGroups EXCEPT
                                        ![g].last = Max(MintingBlocks(chain, g, h - 1)),
                                        ![g].nCoins = left]
                    /\ UNCHANGED latestCoinId
            /\ chain' = SubSeq(chain, 1, h - 1)
            /\ usedLTags' = usedLTags \ {h}
            /\ UNCHANGED aborted
  /\ UNCHANGED mintMetaInfo

-----------------------------------------------------------------------------
(* Starting from the block index. *)

\* A rebuilt group does not count the coins carried over.
AddBlockNoCarry(ch, st, h) ==
  LET b == ch[h]
      g == b.group
      minted == IF b.coins = 0
                THEN st
                ELSE [st EXCEPT !.groups[g] = GrownGroup(@, h, b.coins),
                                !.latest = g, !.meta = @ \cup {g}]
  IN  [minted EXCEPT !.used = AddSpend(minted.used, minted.meta, h, b.spend)]

\* AddBlock for block h of ch, applied to the state st.
AddBlock(ch, st, h) ==
  LET b == ch[h]
      g == b.group
      group == IF st.groups[g].first = 0
               THEN NewGroup(st.groups, ch, g, h, b.coins)
               ELSE GrownGroup(st.groups[g], h, b.coins)
      minted == IF b.coins = 0
                THEN st
                ELSE [groups |-> [st.groups EXCEPT ![g] = group], latest |-> g,
                      used |-> st.used, meta |-> st.meta \cup {g}]
  IN  [minted EXCEPT !.used = AddSpend(minted.used, minted.meta, h, b.spend)]

\* BuildSparkStateFromIndex.
BuildSparkStateFromIndex(ch) ==
  LET st[h \in 0..Len(ch)] == IF h = 0 THEN Reset ELSE AddBlock(ch, st[h - 1], h)
  IN  st[Len(ch)]

\* The node is started again on its block index.
Restart ==
  LET st == BuildSparkStateFromIndex(chain)
  IN  /\ coinGroups' = st.groups
      /\ latestCoinId' = st.latest
      /\ usedLTags' = st.used
      /\ mintMetaInfo' = st.meta
      /\ aborted' = FALSE
      /\ UNCHANGED chain

-----------------------------------------------------------------------------
Next ==
  \/ \E coins \in MintCounts, spend \in 0..MaxHeight : ConnectBlockSpark(coins, spend)
  \/ RemoveBlock
  \/ Restart

Spec == Init /\ [][Next]_vars

-----------------------------------------------------------------------------
(* Properties. *)

\* However blocks came and went, the groups, the latest id and the recorded spends
\* are those that a restart computes from the block index: two nodes on one chain
\* agree on the anonymity sets (AddMintsToStateAndBlockIndex, RemoveBlock, AddBlock).
SameAsRebuilt ==
  LET st == BuildSparkStateFromIndex(chain)
  IN  coinGroups = st.groups /\ latestCoinId = st.latest /\ usedLTags = st.used

\* nCoins of a group is the number of coins a walk over its blocks finds, carried
\* ones included (GetCoinSetForSpend reserves and returns that many).
GroupCountsItsCoins ==
  \A g \in GroupIds :
    coinGroups[g] # NoGroup =>
      coinGroups[g].nCoins =
        SumFunctionOnSet([h \in DOMAIN chain |-> chain[h].coins],
                         CoverSet(coinGroups, chain, g, coinGroups[g].last))

\* Every spend of the chain is recorded as used: AddSpend never drops one, though
\* the keys of mintMetaInfo survive the groups they were made for.
SpendsRecorded == usedLTags = {h \in 1..Len(chain) : chain[h].spend # 0}

\* The set a spend was made against does not change while its block stays on the
\* chain and the group exists, whatever is connected, disconnected or rebuilt
\* (CheckSparkSpendTransaction rebuilds it from the block hash).
CoverSetsStable ==
  [][\A g \in GroupIds : \A h \in 1..Len(chain) :
       /\ coinGroups[g] # NoGroup /\ coinGroups'[g] # NoGroup
       /\ h \in coinGroups[g].first..coinGroups[g].last
       /\ h <= Len(chain') /\ h \in coinGroups'[g].first..coinGroups'[g].last
       => CoverSet(coinGroups', chain', g, h) = CoverSet(coinGroups, chain, g, h)]_vars

\* "if `index` is edged block we need to erase group" (spark/state.cpp:1160), so
\* that assert(coinGroup.lastBlock != coinGroup.firstBlock) holds on the walk back
\* (spark/state.cpp:1186): disconnecting a block never stops the node.
DisconnectNeverAborts == ~aborted
=============================================================================
