-------------------------- MODULE EvoBlocksProofs --------------------------
(***************************************************************************)
(* What blocks leave in CEvoDB and in the caches above it, for every tree  *)
(* of blocks, every placing of commitments and of masternode changes, and  *)
(* every size of the cache.                                                *)
(*                                                                         *)
(* The masternode lists are shown right by induction over the heights of   *)
(* blocks: first ListAfter, then what GetListForBlock computes from the    *)
(* place where its loop stops.  The invariant then says what each view of  *)
(* the database holds: the database and the committed transactions exactly *)
(* what their chain put there, the open transaction perhaps also the diff  *)
(* and the snapshot of a block that follows the tip and may yet be         *)
(* refused.  That is why the cache cannot be right for every block: a      *)
(* thread that asks for a list while such a block is open, or asks for a   *)
(* block that left the chain, may put an empty list there.  Connecting a   *)
(* block drops the empty lists before it makes the chain longer.           *)
(***************************************************************************)
EXTENDS EvoBlocks, TLAPS, WellFoundedInduction

-----------------------------------------------------------------------------
(* CEvoDB implements a store with atomic transactions, for every set of keys
   and values.  The argument needs that a layer never both writes and deletes a
   key: then looking a key up through a layer gives what committing the layer
   below would store. *)

DBInv == DBTypeOK /\ LayersDisjoint /\ CleanOutside

-----------------------------------------------------------------------------
\* The layers that the operations of CDBTransaction return.

\* An empty layer is a layer that writes and deletes nothing.
LEMMA CleanLayer == Clean \in Layers /\ Disjoint(Clean)
BY Zenon DEF Clean, Layers, Stored, Disjoint

\* Nothing is seen of an empty layer.
LEMMA CleanView == ASSUME NEW d \in [Keys -> Stored]
                   PROVE  View(Clean, d) = d
BY Zenon DEF Clean, View

\* A look-up through a layer finds a value of the right kind for every key.
LEMMA ViewTyped == ASSUME NEW t \in Layers, NEW d \in [Keys -> Stored]
                   PROVE  View(t, d) \in [Keys -> Stored]
BY Zenon DEF Layers, Stored, View

\* Write and Erase keep a layer's writes and deletes apart.
LEMMA ChangedLayer ==
  ASSUME NEW t \in Layers, Disjoint(t), NEW e \in SUBSET Keys,
         NEW K \in SUBSET (Keys \ e), NEW f \in [K -> Values]
  PROVE  Changed(t, f, e) \in Layers /\ Disjoint(Changed(t, f, e))
<1> DEFINE w == [k \in Keys |-> IF k \in DOMAIN f THEN f[k]
                                ELSE IF k \in e THEN None ELSE t.writes[k]]
           d == (t.deletes \ DOMAIN f) \cup e
<1>2. DOMAIN f = K /\ K \subseteq Keys /\ K \cap e = {} /\ \A k \in K : f[k] \in Values
  BY Zenon
<1>3. t.writes \in [Keys -> Stored] /\ t.deletes \subseteq Keys
  BY Zenon DEF Layers
<1>4. w \in [Keys -> Stored]
  BY <1>2, <1>3, Zenon DEF Stored
<1>5. d \subseteq Keys
  BY <1>2, <1>3, Zenon
<1>6. ASSUME NEW k \in d PROVE w[k] = None
  BY <1>2, <1>3, <1>5, Zenon DEF Disjoint
<1> HIDE DEF w, d
<1>7. Changed(t, f, e) = [writes |-> w, deletes |-> d]
  BY Zenon DEF Changed, w, d
<1> QED
  BY <1>4, <1>5, <1>6, <1>7 DEF Layers, Disjoint

\* So does committing one layer into another.
LEMMA CommitLayer ==
  ASSUME NEW t \in Layers, NEW target \in Layers, Disjoint(t), Disjoint(target)
  PROVE  CommitInto(t, target) \in Layers /\ Disjoint(CommitInto(t, target))
BY Zenon DEF CommitInto, Layers, Disjoint, Stored

\* Reading through two layers is reading through the layer that one commits
\* into the other: a commit changes nothing of what is seen.
LEMMA CommitKeepsView ==
  ASSUME NEW t \in Layers, NEW target \in Layers, Disjoint(t), Disjoint(target),
         NEW d \in [Keys -> Stored]
  PROVE  View(CommitInto(t, target), d) = View(t, View(target, d))
<1> DEFINE l == CommitInto(t, target)
<1>1. ASSUME NEW k \in Keys
      PROVE  View(l, d)[k] = View(t, View(target, d))[k]
  BY Zenon DEF View, CommitInto, Disjoint, Layers
<1>2. View(l, d) = [k \in Keys |-> View(l, d)[k]]
  BY Zenon DEF View
<1>3. View(t, View(target, d)) = [k \in Keys |-> View(t, View(target, d))[k]]
  BY Zenon DEF View
<1> QED
  BY <1>1, <1>2, <1>3, Zenon

\* The batch that CommitRootTransaction writes leaves in the database what was
\* seen through the layer.
LEMMA DiskKeepsView ==
  ASSUME NEW t \in Layers, Disjoint(t), NEW d \in [Keys -> Stored]
  PROVE  CommitToDisk(t, d) = View(t, d)
BY Zenon DEF CommitToDisk, View, Disjoint, Layers

-----------------------------------------------------------------------------
LEMMA DBInitInv == DBInit => DBInv
BY CleanLayer, Zenon DEF DBInit, DBInv, DBTypeOK, LayersDisjoint, CleanOutside, IsClean, Stored

LEMMA DBNextInv == DBInv /\ [DBNext]_dbVars => DBInv'
<1> SUFFICES ASSUME DBInv, [DBNext]_dbVars PROVE DBInv'
  BY Zenon
<1> USE DEF DBInv, DBTypeOK, LayersDisjoint, CleanOutside, IsClean
<1>1. CASE BeginTransaction
  BY <1>1, Zenon DEF BeginTransaction
<1>2. CASE \E e \in SUBSET Keys : \E K \in SUBSET (Keys \ e) : \E f \in [K -> Values] : Change(f, e)
  <2>a. PICK e \in SUBSET Keys :
          \E K \in SUBSET (Keys \ e) : \E f \in [K -> Values] : Change(f, e)
    BY <1>2, Zenon
  <2>b. PICK K \in SUBSET (Keys \ e) : \E f \in [K -> Values] : Change(f, e)
    BY <2>a, Zenon
  <2>1. PICK f \in [K -> Values] : Change(f, e)
    BY <2>b, Zenon
  <2>2. Changed(cur, f, e) \in Layers /\ Disjoint(Changed(cur, f, e))
    BY <2>1, ChangedLayer, Zenon
  <2> QED
    BY <2>1, <2>2, Zenon DEF Change
<1>3. CASE CommitTransaction
  <2>1. CommitInto(cur, root) \in Layers /\ Disjoint(CommitInto(cur, root))
    BY CommitLayer, Zenon
  <2> QED
    BY <1>3, <2>1, CleanLayer, Zenon DEF CommitTransaction
<1>4. CASE Rollback
  BY <1>4, CleanLayer, Zenon DEF Rollback
<1>5. CASE CommitRootTransaction
  <2>1. CommitToDisk(root, disk) \in [Keys -> Stored]
    BY DiskKeepsView, ViewTyped, Zenon
  <2> QED
    BY <1>5, <2>1, CleanLayer, Zenon DEF CommitRootTransaction
<1>6. CASE Crash
  BY <1>6, CleanLayer, Zenon DEF Crash
<1>7. CASE UNCHANGED dbVars
  BY <1>7, Zenon DEF dbVars
<1> QED
  BY <1>1, <1>2, <1>3, <1>4, <1>5, <1>6, <1>7, Zenon DEF DBNext

\* The layers of CEvoDB keep their writes and deletes apart, and nothing is
\* left in curDBTransaction outside a transaction: the assertions of
\* BeginTransaction and CommitRootTransaction never fail.
THEOREM LayersSound == DBSpec => [](LayersDisjoint /\ CleanOutside)
<1>1. DBInv => LayersDisjoint /\ CleanOutside
  BY Zenon DEF DBInv
<1> QED
  BY DBInitInv, DBNextInv, <1>1, PTL DEF DBSpec

-----------------------------------------------------------------------------
\* Every step of the layers is a step of the store.
LEMMA StepSimulation == DBInv /\ DBInv' /\ [DBNext]_dbVars => [Store!StoreNext]_Store!storeVars
<1> SUFFICES ASSUME DBInv, DBInv', [DBNext]_dbVars
             PROVE  [Store!StoreNext]_Store!storeVars
  BY Zenon
<1>0. /\ disk \in [Keys -> Stored] /\ root \in Layers /\ cur \in Layers
      /\ Disjoint(root) /\ Disjoint(cur)
      /\ (~inTx => cur = Clean)
  BY Zenon DEF DBInv, DBTypeOK, LayersDisjoint, CleanOutside, IsClean
<1>a. RootView \in [Keys -> Stored]
  BY <1>0, ViewTyped, Zenon DEF RootView
<1>b. cur = Clean => CurView = RootView
  BY <1>a, CleanView, Zenon DEF CurView
<1>1. CASE BeginTransaction
  BY <1>1, Zenon DEF BeginTransaction, Store!StoreNext, Store!StoreBegin, CurView, RootView
<1>2. CASE \E e \in SUBSET Keys : \E K \in SUBSET (Keys \ e) : \E f \in [K -> Values] : Change(f, e)
  <2>1. inTx /\ UNCHANGED <<disk, root, inTx>>
    BY <1>2, Zenon DEF Change
  <2>2. RootView' = RootView
    BY <2>1, Zenon DEF RootView
  <2>3. cur' \in Layers
    BY Zenon DEF DBInv, DBTypeOK
  <2>4. CurView' \in [Keys -> Stored]
    BY <2>2, <2>3, <1>a, ViewTyped, Zenon DEF CurView
  <2>5. Store!StoreChange
    BY <2>1, <2>2, <2>4, Zenon DEF Store!StoreChange, Store!Contents, Stored
  <2> QED
    BY <2>5, Zenon DEF Store!StoreNext
<1>3. CASE CommitTransaction
  <2>1. inTx /\ root' = CommitInto(cur, root) /\ cur' = Clean /\ inTx' = FALSE /\ disk' = disk
    BY <1>3, Zenon DEF CommitTransaction
  <2>2. RootView' = CurView
    BY <2>1, <1>0, CommitKeepsView, Zenon DEF RootView, CurView
  <2>3. RootView' \in [Keys -> Stored]
    BY <2>2, <1>0, <1>a, ViewTyped, Zenon DEF CurView
  <2>4. CurView' = RootView'
    BY <2>1, <2>3, CleanView, Zenon DEF CurView
  <2>5. Store!StoreCommit
    BY <2>1, <2>2, <2>4, Zenon DEF Store!StoreCommit
  <2> QED
    BY <2>5, Zenon DEF Store!StoreNext
<1>4. CASE Rollback
  <2>1. inTx /\ cur' = Clean /\ inTx' = FALSE /\ UNCHANGED <<disk, root>>
    BY <1>4, Zenon DEF Rollback
  <2>2. RootView' = RootView
    BY <2>1, Zenon DEF RootView
  <2>3. CurView' = RootView
    BY <2>1, <2>2, <1>a, CleanView, Zenon DEF CurView
  <2>4. Store!StoreRollback
    BY <2>1, <2>2, <2>3, Zenon DEF Store!StoreRollback
  <2> QED
    BY <2>4, Zenon DEF Store!StoreNext
<1>5. CASE CommitRootTransaction
  <2>1. ~inTx /\ disk' = CommitToDisk(root, disk) /\ root' = Clean /\ UNCHANGED <<cur, inTx>>
    BY <1>5, Zenon DEF CommitRootTransaction
  <2>2. disk' = RootView
    BY <2>1, <1>0, DiskKeepsView, Zenon DEF RootView
  <2>3. RootView' = RootView
    BY <2>1, <2>2, <1>a, CleanView, Zenon DEF RootView
  <2>4. CurView' = CurView
    BY <2>1, <2>3, Zenon DEF CurView
  <2>5. Store!StoreFlush
    BY <2>1, <2>2, <2>3, <2>4, Zenon DEF Store!StoreFlush
  <2> QED
    BY <2>5, Zenon DEF Store!StoreNext
<1>6. CASE Crash
  <2>1. root' = Clean /\ cur' = Clean /\ inTx' = FALSE /\ disk' = disk
    BY <1>6, Zenon DEF Crash
  <2>2. RootView' = disk
    BY <2>1, <1>0, CleanView, Zenon DEF RootView
  <2>3. CurView' = disk
    BY <2>1, <2>2, <1>0, CleanView, Zenon DEF CurView
  <2>4. Store!StoreCrash
    BY <2>1, <2>2, <2>3, Zenon DEF Store!StoreCrash
  <2> QED
    BY <2>4, Zenon DEF Store!StoreNext
<1>7. CASE UNCHANGED dbVars
  BY <1>7, Zenon DEF dbVars, Store!storeVars, CurView, RootView
<1> QED
  BY <1>1, <1>2, <1>3, <1>4, <1>5, <1>6, <1>7, Zenon DEF DBNext

LEMMA InitSimulation == DBInit => Store!StoreInit
<1> SUFFICES ASSUME DBInit PROVE Store!StoreInit
  BY Zenon
<1>1. disk \in [Keys -> Stored] /\ root = Clean /\ cur = Clean /\ inTx = FALSE
  BY Zenon DEF DBInit, Stored
<1>2. RootView = disk
  BY <1>1, CleanView, Zenon DEF RootView
<1>3. CurView = disk
  BY <1>1, <1>2, CleanView, Zenon DEF CurView
<1> QED
  BY <1>1, <1>2, <1>3, Zenon DEF Store!StoreInit, Store!Contents, Stored

\* CEvoDB implements the transactional store: a transaction is applied as a
\* whole or leaves no trace, and a restart finds what was committed up to the
\* last CommitRootTransaction.
THEOREM ImplementsStore == DBSpec => StoreSpec
<1>1. DBSpec => []DBInv
  BY DBInitInv, DBNextInv, PTL DEF DBSpec
<1>2. DBInv /\ DBInv' /\ [DBNext]_dbVars => [Store!StoreNext]_Store!storeVars
  BY StepSimulation, Zenon
<1> QED
  BY <1>1, <1>2, InitSimulation, PTL DEF DBSpec, StoreSpec, Store!StoreSpec

-----------------------------------------------------------------------------
\* A non-empty set of natural numbers has a least element.
LEMMA LeastHeight ==
  ASSUME NEW T \in SUBSET Nat, T # {}
  PROVE  \E n \in T : \A m \in T : n <= m
<1>1. PICK x \in T : \A y \in T : ~ (<<y, x>> \in OpToRel(<, Nat))
  BY NatLessThanWellFounded, WFMin, Zenon
<1>2. \A y \in T : ~ (y < x)
  BY <1>1, Zenon DEF OpToRel
<1> QED
  BY <1>2

-----------------------------------------------------------------------------
(* The tree of blocks. *)

\* What BlockTreeAssumption says of one block.
LEMMA Tree ==
  /\ Genesis \in Blocks /\ ChainOf[Genesis] = {Genesis}
  /\ \A b \in Blocks : /\ b \in ChainOf[b] /\ Genesis \in ChainOf[b] /\ Height[b] \in Nat
                       /\ Parent[b] \in Blocks /\ ChainOf[b] \subseteq Blocks
                       /\ Height[Genesis] <= Height[b]
  /\ \A b \in Blocks \ {Genesis} :
       /\ ChainOf[b] = {b} \cup ChainOf[Parent[b]] /\ Height[b] = Height[Parent[b]] + 1
       /\ b \notin ChainOf[Parent[b]] /\ Parent[b] \in ChainOf[b]
  /\ \A b \in Blocks : \A c \in ChainOf[b] :
       /\ ChainOf[c] \subseteq ChainOf[b] /\ Height[c] <= Height[b]
       /\ c # Genesis => Parent[c] \in ChainOf[b]
  /\ \A b \in Blocks : \A c, d \in ChainOf[b] : Height[c] = Height[d] => c = d
<1>1. \A b \in Blocks : b \in ChainOf[b] /\ Genesis \in ChainOf[b] /\ Height[b] \in Nat
                        /\ Parent[b] \in Blocks /\ ChainOf[b] \subseteq Blocks
  <2> SUFFICES ASSUME NEW b \in Blocks
               PROVE  /\ b \in ChainOf[b] /\ Genesis \in ChainOf[b] /\ Height[b] \in Nat
                      /\ Parent[b] \in Blocks /\ ChainOf[b] \subseteq Blocks
    BY Zenon
  <2>1. Genesis \in ChainOf[b]
    BY BlockTreeAssumption, Zenon
  <2>2. Height[b] \in Nat /\ Parent[b] \in Blocks /\ ChainOf[b] \in SUBSET Blocks
    BY BlockTreeAssumption, Zenon
  <2>3. b # Genesis => ChainOf[b] = {b} \cup ChainOf[Parent[b]]
    BY BlockTreeAssumption, Zenon
  <2> QED
    BY <2>1, <2>2, <2>3, Zenon
<1>2. \A b \in Blocks : \A c \in ChainOf[b] : ChainOf[c] \subseteq ChainOf[b] /\ Height[c] <= Height[b]
  BY BlockTreeAssumption, Zenon
<1>3. \A b \in Blocks \ {Genesis} :
        /\ ChainOf[b] = {b} \cup ChainOf[Parent[b]] /\ Height[b] = Height[Parent[b]] + 1
  BY BlockTreeAssumption, Zenon
<1>4. \A b \in Blocks \ {Genesis} : b \notin ChainOf[Parent[b]] /\ Parent[b] \in ChainOf[b]
  <2> SUFFICES ASSUME NEW b \in Blocks \ {Genesis}
               PROVE  b \notin ChainOf[Parent[b]] /\ Parent[b] \in ChainOf[b]
    BY Zenon
  <2>1. Parent[b] \in ChainOf[b]
    BY <1>1, <1>3, Zenon
  <2>2. b \in ChainOf[Parent[b]] => Height[b] <= Height[Parent[b]]
    BY <1>1, <1>2, Zenon
  <2>3. Height[b] = Height[Parent[b]] + 1 /\ Height[Parent[b]] \in Nat
    BY <1>1, <1>3, Zenon
  <2> QED
    BY <2>1, <2>2, <2>3
<1>5. \A b \in Blocks : \A c \in ChainOf[b] : c # Genesis => Parent[c] \in ChainOf[b]
  BY <1>1, <1>2, <1>4, Zenon
<1>6. \A b \in Blocks : \A c, d \in ChainOf[b] : Height[c] = Height[d] => c = d
  BY BlockTreeAssumption, Zenon
<1>7. Genesis \in Blocks /\ ChainOf[Genesis] = {Genesis}
  BY BlockTreeAssumption, Zenon
<1> QED
  BY <1>1, <1>2, <1>3, <1>4, <1>5, <1>6, <1>7, Zenon

\* Induction over the heights of a set of blocks.
LEMMA ByHeight ==
  ASSUME NEW D \in SUBSET Blocks, NEW P \in SUBSET D,
         \A c \in D : (\A d \in D : Height[d] < Height[c] => d \in P) => c \in P
  PROVE  P = D
<1> SUFFICES ASSUME D \ P # {} PROVE FALSE
  BY Zenon
<1> DEFINE T == {Height[c] : c \in D \ P}
<1>1. T \in SUBSET Nat /\ T # {}
  BY Tree
<1>2. PICK n \in T : \A m \in T : n <= m
  <2> HIDE DEF T
  <2> QED
    BY <1>1, LeastHeight, Zenon
<1>3. PICK c \in D \ P : Height[c] = n
  BY <1>2, Zenon
<1>4. ASSUME NEW d \in D, Height[d] < Height[c], d \notin P PROVE FALSE
  <2>1. Height[d] \in T
    BY <1>4, Zenon
  <2>2. n <= Height[d]
    BY <1>2, <2>1, Zenon
  <2>3. Height[d] \in Nat /\ Height[c] \in Nat
    BY Tree, Zenon
  <2> HIDE DEF T
  <2> QED
    BY <1>3, <1>4, <2>2, <2>3
<1> QED
  BY <1>3, <1>4, Zenon

-----------------------------------------------------------------------------
(* The list that the blocks make. *)

\* list is the function that ListAfter(b) defines.
MakesLists(list, b) ==
  list = [c \in ChainOf[b] |->
            IF c = Genesis THEN EmptyList ELSE BuildNewListFromBlock(list[Parent[c]], c)]

\* Two such functions agree on a common block.
LEMMA MakesSame ==
  ASSUME NEW a \in Blocks, NEW b \in Blocks, NEW f, NEW g, MakesLists(f, a), MakesLists(g, b)
  PROVE  \A c \in ChainOf[a] \cap ChainOf[b] : f[c] = g[c]
<1> DEFINE D == ChainOf[a] \cap ChainOf[b]
<1>1. ASSUME NEW c \in D, \A d \in D : Height[d] < Height[c] => f[d] = g[d] PROVE f[c] = g[c]
  <2>1. /\ f[c] = IF c = Genesis THEN EmptyList ELSE BuildNewListFromBlock(f[Parent[c]], c)
        /\ g[c] = IF c = Genesis THEN EmptyList ELSE BuildNewListFromBlock(g[Parent[c]], c)
    BY Zenon DEF MakesLists
  <2>2. CASE c = Genesis
    BY <2>1, <2>2, Zenon
  <2>3. CASE c # Genesis
    <3>1. Parent[c] \in ChainOf[a] \cap ChainOf[b] /\ c \in Blocks \ {Genesis}
      BY <2>3, Tree, Zenon
    <3>2. Height[Parent[c]] < Height[c]
      BY <3>1, Tree
    <3>3. f[Parent[c]] = g[Parent[c]]
      BY <1>1, <3>1, <3>2, Zenon
    <3> QED
      BY <2>1, <2>3, <3>3, Zenon
  <2> QED
    BY <2>2, <2>3, Zenon
<1> DEFINE P == {c \in D : f[c] = g[c]}
<1>2. P = D
  <2>1. D \subseteq Blocks /\ P \subseteq D
    BY Tree, Zenon
  <2>2. \A c \in D : (\A d \in D : Height[d] < Height[c] => d \in P) => c \in P
    BY <1>1, Zenon
  <2> HIDE DEF D, P
  <2> QED
    BY <2>1, <2>2, ByHeight, Zenon
<1> QED
  BY <1>2, Zenon

\* There is one for every block.
LEMMA MakesExists == \A b \in Blocks : \E f : MakesLists(f, b)
<1> DEFINE P == {b \in Blocks : \E f : MakesLists(f, b)}
<1>1. ASSUME NEW b \in Blocks, \A d \in Blocks : Height[d] < Height[b] => d \in P
      PROVE  b \in P
  <2> SUFFICES \E f : MakesLists(f, b)
    BY Zenon
  <2>1. CASE b = Genesis
    <3> DEFINE f == [c \in {Genesis} |-> EmptyList]
    <3>1. f = [c \in ChainOf[b] |->
                 IF c = Genesis THEN EmptyList ELSE BuildNewListFromBlock(f[Parent[c]], c)]
      BY <2>1, Tree, Zenon
    <3> QED
      BY <3>1, Zenon DEF MakesLists
  <2>2. CASE b # Genesis
    <3>1. Parent[b] \in Blocks /\ Height[Parent[b]] < Height[b]
      BY <2>2, Tree
    <3>2. PICK f : MakesLists(f, Parent[b])
      BY <1>1, <3>1, Zenon
    <3> DEFINE new == BuildNewListFromBlock(f[Parent[b]], b)
               g == [c \in ChainOf[b] |-> IF c = b THEN new ELSE f[c]]
    <3>3. g[Parent[b]] = f[Parent[b]]
      <4>1. Parent[b] \in ChainOf[b] /\ Parent[b] # b
        BY <2>2, Tree, Zenon
      <4> QED
        BY <4>1, Zenon
    <3>4. ASSUME NEW c \in ChainOf[b]
          PROVE  g[c] = IF c = Genesis THEN EmptyList ELSE BuildNewListFromBlock(g[Parent[c]], c)
      <4>1. CASE c = b
        BY <2>2, <3>3, <4>1, Zenon
      <4>2. CASE c # b
        <5>1. c \in ChainOf[Parent[b]] /\ g[c] = f[c]
          BY <2>2, <4>2, Tree
        <5>2. f[c] = IF c = Genesis THEN EmptyList ELSE BuildNewListFromBlock(f[Parent[c]], c)
          BY <3>2, <5>1, Zenon DEF MakesLists
        <5>3. c # Genesis => Parent[c] \in ChainOf[Parent[b]]
          BY <3>1, <5>1, Tree, Zenon
        <5>4. c # Genesis => g[Parent[c]] = f[Parent[c]]
          BY <2>2, <5>3, Tree, Zenon
        <5> HIDE DEF g
        <5> QED
          BY <5>1, <5>2, <5>4, Zenon
      <4> QED
        BY <4>1, <4>2, Zenon
    <3>5. g = [c \in ChainOf[b] |-> g[c]]
      BY Zenon
    <3> HIDE DEF g
    <3>6. MakesLists(g, b)
      BY <3>4, <3>5, Zenon DEF MakesLists
    <3> QED
      BY <3>6, Zenon
  <2> QED
    BY <2>1, <2>2, Zenon
<1>2. P \subseteq Blocks
  BY Zenon
<1>3. P = Blocks
  <2> HIDE DEF P
  <2> QED
    BY <1>1, <1>2, ByHeight, Zenon
<1> QED
  BY <1>3, Zenon

\* So ListAfter satisfies the recursion it is defined by.
LEMMA ListAfterIs ==
  /\ ListAfter(Genesis) = EmptyList
  /\ \A b \in Blocks \ {Genesis} : ListAfter(b) = BuildNewListFromBlock(ListAfter(Parent[b]), b)
<1> DEFINE lists(b) == CHOOSE f : MakesLists(f, b)
<1>1. ASSUME NEW b \in Blocks PROVE MakesLists(lists(b), b) /\ ListAfter(b) = lists(b)[b]
  <2>1. MakesLists(lists(b), b)
    BY MakesExists, Zenon
  <2>2. ListAfter(b) = lists(b)[b]
    BY Zenon DEF ListAfter, MakesLists
  <2> QED
    BY <2>1, <2>2, Zenon
<1> HIDE DEF lists
<1>2. ASSUME NEW b \in Blocks
      PROVE  lists(b)[b] = IF b = Genesis THEN EmptyList
                           ELSE BuildNewListFromBlock(lists(b)[Parent[b]], b)
  <2>1. b \in ChainOf[b]
    BY Tree, Zenon
  <2> QED
    BY <1>1, <2>1, Zenon DEF MakesLists
<1>3. ASSUME NEW b \in Blocks \ {Genesis} PROVE lists(b)[Parent[b]] = lists(Parent[b])[Parent[b]]
  <2>1. Parent[b] \in Blocks /\ Parent[b] \in ChainOf[b] \cap ChainOf[Parent[b]]
    BY Tree, Zenon
  <2> QED
    BY <1>1, <2>1, MakesSame
<1>4. Genesis \in Blocks
  BY Tree, Zenon
<1>5. ListAfter(Genesis) = EmptyList
  BY <1>1, <1>2, <1>4, Zenon
<1>6. ASSUME NEW b \in Blocks \ {Genesis}
      PROVE  ListAfter(b) = BuildNewListFromBlock(ListAfter(Parent[b]), b)
  <2>1. Parent[b] \in Blocks
    BY Tree, Zenon
  <2>2. ListAfter(b) = lists(b)[b] /\ ListAfter(Parent[b]) = lists(Parent[b])[Parent[b]]
    BY <1>1, <2>1, Zenon
  <2>3. lists(b)[b] = BuildNewListFromBlock(lists(b)[Parent[b]], b)
    BY <1>2, Zenon
  <2> QED
    BY <1>3, <2>2, <2>3, Zenon
<1> QED
  BY <1>5, <1>6, Zenon

\* The diff that ProcessBlock stores for block c.
DiffOf(c) == BuildDiff(ListAfter(Parent[c]), ListAfter(c))

\* What GetListForBlock may find in a view of the database whose best block is best:
\* the diffs of the chain, and perhaps the diff and the snapshot of a block that
\* follows it and has not been refused yet.
Readable(db, best) ==
  /\ db[BestKey] = [best |-> best]
  /\ db[DiffKey(Genesis)] = None /\ db[SnapshotKey(Genesis)] = None
  /\ \A c \in Blocks \ {Genesis} :
       /\ db[DiffKey(c)] \in {None, DiffOf(c)}
       /\ db[SnapshotKey(c)] \in {None, [list |-> ListAfter(c)]}
       /\ c \in ChainOf[best] => db[DiffKey(c)] # None
       /\ db[DiffKey(c)] # None => Parent[c] \in ChainOf[best]

\* A cached list is the right one or, off the chain, the empty one.
CacheRight(cache, best) ==
  /\ DOMAIN cache = Blocks
  /\ \A c \in Blocks : /\ cache[c] \in {None, EmptyList, ListAfter(c)}
                       /\ c \in ChainOf[best] => cache[c] \in {None, ListAfter(c)}

\* A diff between two lists, applied to the first, gives the second.
LEMMA DiffApplied ==
  ASSUME NEW c \in Blocks \ {Genesis}
  PROVE  ApplyDiff(ListAfter(Parent[c]), c, DiffOf(c)) = ListAfter(c)
<1>1. ListAfter(c) = BuildNewListFromBlock(ListAfter(Parent[c]), c)
  BY ListAfterIs, Zenon
<1> DEFINE old == ListAfter(Parent[c])
           new == ListAfter(c)
<1>2. new = [mns |-> new.mns, nHeight |-> Height[c]]
  BY <1>1 DEF BuildNewListFromBlock
<1> HIDE DEF old, new
<1>3. (old.mns \ (old.mns \ new.mns)) \cup (new.mns \ old.mns) = new.mns
  BY Zenon
<1>4. ApplyDiff(old, c, BuildDiff(old, new)) = [mns |-> new.mns, nHeight |-> Height[c]]
  BY <1>3, Zenon DEF ApplyDiff, BuildDiff
<1> QED
  BY <1>2, <1>4, Zenon DEF DiffOf, old, new

\* The loop of GetListForBlock ends: at the highest ancestor where it may stop.
LEMMA BaseFound ==
  ASSUME NEW cache, NEW db, NEW best, Readable(db, best), NEW b \in Blocks
  PROVE  LET a == Base(cache, db, b)
         IN  /\ a \in ChainOf[b] /\ Stops(cache, db, a)
             /\ \A c \in ChainOf[b] : Stops(cache, db, c) => Height[c] <= Height[a]
<1> DEFINE S == {c \in ChainOf[b] : Stops(cache, db, c)}
           T == {Height[b] - Height[c] : c \in S}
<1>1. Genesis \in S
  BY Tree, Zenon DEF Stops, Readable
<1>2. \A c \in S : c \in Blocks /\ Height[c] \in Nat /\ Height[b] \in Nat /\ Height[c] <= Height[b]
  BY Tree, Zenon
<1>3. T \in SUBSET Nat /\ T # {}
  <2> HIDE DEF S
  <2> QED
    BY <1>1, <1>2
<1>4. PICK t \in T : \A u \in T : t <= u
  <2> HIDE DEF T
  <2> QED
    BY <1>3, LeastHeight, Zenon
<1>5. PICK a \in S : t = Height[b] - Height[a]
  BY <1>4, Zenon
<1>6. ASSUME NEW c \in S PROVE Height[c] <= Height[a]
  <2>1. Height[b] - Height[c] \in T
    BY Zenon
  <2>2. t <= Height[b] - Height[c]
    BY <1>4, <2>1, Zenon
  <2> HIDE DEF T, S
  <2> QED
    BY <1>2, <1>5, <2>2
<1>7. \E x \in ChainOf[b] : /\ Stops(cache, db, x)
                            /\ \A c \in ChainOf[b] : Stops(cache, db, c) => Height[c] <= Height[x]
  BY <1>5, <1>6, Zenon
<1> QED
  BY <1>7, Zenon DEF Base

\* The blocks that GetListForBlock computes lists for.
Walked(base, b) == {c \in ChainOf[b] : Height[c] >= Height[base]}

\* What it finds at the block where it stops.
LEMMA BaseRight ==
  ASSUME NEW db, NEW best, Readable(db, best), NEW cache, CacheRight(cache, best),
         NEW a \in Blocks, Stops(cache, db, a)
  PROVE  /\ BaseList(cache, db, a) \in {EmptyList, ListAfter(a)}
         /\ a \in ChainOf[best] => BaseList(cache, db, a) = ListAfter(a)
<1>1. CASE cache[a] # None
  BY <1>1, Zenon DEF BaseList, CacheRight
<1>2. CASE cache[a] = None /\ db[SnapshotKey(a)] # None
  <2>1. a # Genesis
    BY <1>2, Zenon DEF Readable
  <2>2. db[SnapshotKey(a)] = [list |-> ListAfter(a)]
    BY <1>2, <2>1, Zenon DEF Readable
  <2> QED
    BY <1>2, <2>2 DEF BaseList
<1>3. CASE cache[a] = None /\ db[SnapshotKey(a)] = None
  <2>1. BaseList(cache, db, a) = EmptyList /\ db[DiffKey(a)] = None
    BY <1>3, Zenon DEF BaseList, Stops
  <2>2. a \in ChainOf[best] => a = Genesis
    BY <2>1, Zenon DEF Readable
  <2> QED
    BY <2>1, <2>2, ListAfterIs, Zenon
<1> QED
  BY <1>1, <1>2, <1>3, Zenon

\* The function that ListsTo defines.
ListsFrom(list, cache, db, base, b) ==
  list = [c \in Walked(base, b) |->
            IF c = base THEN BaseList(cache, db, c)
            ELSE ApplyDiff(list[Parent[c]], c, db[DiffKey(c)])]

\* Above the block where it stops, GetListForBlock computes the right lists.
LEMMA ListsToIs ==
  ASSUME NEW db, NEW best, Readable(db, best), NEW cache, CacheRight(cache, best),
         NEW b \in Blocks, NEW base, base = Base(cache, db, b)
  PROVE  /\ base \in ChainOf[b] /\ Stops(cache, db, base) /\ b \in Walked(base, b)
         /\ ListsTo(cache, db, b) = [c \in Walked(base, b) |->
              IF c = base THEN BaseList(cache, db, base) ELSE ListAfter(c)]
<1> DEFINE D == Walked(base, b)
           right == [c \in D |-> IF c = base THEN BaseList(cache, db, base) ELSE ListAfter(c)]
<1>1. /\ base \in ChainOf[b] /\ Stops(cache, db, base)
      /\ \A c \in ChainOf[b] : Stops(cache, db, c) => Height[c] <= Height[base]
  BY BaseFound, Zenon
<1>2. base \in Blocks /\ b \in D /\ base \in D /\ D \subseteq ChainOf[b] /\ D \subseteq Blocks
  BY <1>1, Tree, Zenon DEF Walked
<1>3. ASSUME NEW c \in D, c # base
      PROVE  /\ c \in Blocks \ {Genesis} /\ Parent[c] \in D /\ Height[Parent[c]] < Height[c]
             /\ db[DiffKey(c)] = DiffOf(c) /\ Parent[c] \in ChainOf[best]
  <2>1. c \in ChainOf[b] /\ Height[c] >= Height[base] /\ c \in Blocks
    BY <1>2, Zenon DEF Walked
  <2>2. /\ Height[c] # Height[base] /\ Height[c] \in Nat /\ Height[base] \in Nat
        /\ Height[Genesis] \in Nat /\ Height[Genesis] <= Height[base]
    BY <1>1, <1>2, <1>3, <2>1, Tree, Zenon
  <2>3. c # Genesis
    BY <2>1, <2>2
  <2>4. ~Stops(cache, db, c)
    BY <1>1, <2>1, <2>2
  <2>5. db[DiffKey(c)] # None
    BY <2>4, Zenon DEF Stops
  <2>6. db[DiffKey(c)] = DiffOf(c) /\ Parent[c] \in ChainOf[best]
    BY <2>1, <2>3, <2>5, Zenon DEF Readable
  <2>7. Parent[c] \in ChainOf[b] /\ Height[c] = Height[Parent[c]] + 1 /\ Height[Parent[c]] \in Nat
    BY <2>1, <2>3, Tree, Zenon
  <2>8. Height[Parent[c]] >= Height[base] /\ Height[Parent[c]] < Height[c]
    BY <2>1, <2>2, <2>7
  <2> QED
    BY <2>1, <2>3, <2>6, <2>7, <2>8, Zenon DEF Walked
<1>4. ListsFrom(right, cache, db, base, b)
  <2>1. ASSUME NEW c \in D, c # base
        PROVE  ListAfter(c) = ApplyDiff(right[Parent[c]], c, db[DiffKey(c)])
    <3>1. Parent[c] = base => BaseList(cache, db, base) = ListAfter(base)
      BY <1>1, <1>2, <1>3, <2>1, BaseRight
    <3>2. right[Parent[c]] = ListAfter(Parent[c])
      BY <1>3, <2>1, <3>1, Zenon
    <3> HIDE DEF right
    <3> QED
      BY <1>3, <2>1, <3>2, DiffApplied, Zenon
  <2>2. ASSUME NEW c \in D
        PROVE  right[c] = IF c = base THEN BaseList(cache, db, c)
                          ELSE ApplyDiff(right[Parent[c]], c, db[DiffKey(c)])
    <3>1. CASE c = base
      BY <3>1, Zenon
    <3>2. CASE c # base
      <4>1. right[c] = ListAfter(c)
        BY <3>2, Zenon
      <4> HIDE DEF right
      <4> QED
        BY <2>1, <3>2, <4>1, Zenon
    <3> QED
      BY <3>1, <3>2, Zenon
  <2>3. right = [c \in D |-> right[c]]
    BY Zenon
  <2> HIDE DEF right
  <2> QED
    BY <2>2, <2>3, Zenon DEF ListsFrom
<1>5. ASSUME NEW list, ListsFrom(list, cache, db, base, b) PROVE list = right
  <2>1. list = [c \in D |-> list[c]]
    BY <1>5, Zenon DEF ListsFrom
  <2>2. ASSUME NEW c \in D, \A d \in D : Height[d] < Height[c] => list[d] = right[d]
        PROVE  list[c] = right[c]
    <3>1. /\ list[c] = IF c = base THEN BaseList(cache, db, c)
                       ELSE ApplyDiff(list[Parent[c]], c, db[DiffKey(c)])
          /\ right[c] = IF c = base THEN BaseList(cache, db, c)
                        ELSE ApplyDiff(right[Parent[c]], c, db[DiffKey(c)])
      <4> HIDE DEF right
      <4> QED
        BY <1>4, <1>5, Zenon DEF ListsFrom
    <3> HIDE DEF right
    <3>2. c # base => list[Parent[c]] = right[Parent[c]]
      BY <1>3, <2>2, Zenon
    <3> QED
      BY <3>1, <3>2, Zenon
  <2> DEFINE P == {c \in D : list[c] = right[c]}
  <2>3. P = D
    <3>1. \A c \in D : (\A d \in D : Height[d] < Height[c] => d \in P) => c \in P
      BY <2>2, Zenon
    <3>2. P \subseteq D
      BY Zenon
    <3> HIDE DEF P, D
    <3> QED
      BY <1>2, <3>1, <3>2, ByHeight, Zenon
  <2>4. right = [c \in D |-> right[c]]
    BY Zenon
  <2> HIDE DEF right, D
  <2> QED
    BY <2>1, <2>3, <2>4, Zenon
<1>6. ListsTo(cache, db, b) = CHOOSE list : ListsFrom(list, cache, db, base, b)
  BY Zenon DEF ListsTo, ListsFrom, Walked
<1> HIDE DEF right
<1>7. ListsTo(cache, db, b) = right
  BY <1>4, <1>5, <1>6, Zenon
<1> QED
  BY <1>1, <1>2, <1>7, Zenon DEF right
\* For a block of the chain, GetListForBlock returns the right list.
LEMMA RightList ==
  ASSUME NEW db, NEW best, Readable(db, best), NEW cache, CacheRight(cache, best),
         best \in Blocks, NEW b \in ChainOf[best]
  PROVE  GetListForBlock(cache, db, b) = ListAfter(b)
<1> DEFINE base == Base(cache, db, b)
<1>1. b \in Blocks
  BY Tree, Zenon
<1>2. /\ base \in ChainOf[b] /\ Stops(cache, db, base) /\ b \in Walked(base, b)
      /\ ListsTo(cache, db, b) = [c \in Walked(base, b) |->
           IF c = base THEN BaseList(cache, db, base) ELSE ListAfter(c)]
  <2> HIDE DEF base
  <2> QED
    BY <1>1, ListsToIs DEF base
<1> HIDE DEF base
<1>3. base \in Blocks
  BY <1>1, <1>2, Tree, Zenon
<1>4. base \in ChainOf[best] => BaseList(cache, db, base) = ListAfter(base)
  BY <1>2, <1>3, BaseRight
<1> QED
  BY <1>2, <1>4, Zenon DEF GetListForBlock

\* What GetListForBlock adds to the cache is right, whichever block it is
\* asked for: off the chain, a list may be empty.
LEMMA CachedRight ==
  ASSUME NEW db, NEW best, Readable(db, best), NEW cache, CacheRight(cache, best),
         NEW b \in Blocks
  PROVE  CacheRight(Cached(cache, db, b), best)
<1> DEFINE base == Base(cache, db, b)
           lists == ListsTo(cache, db, b)
           new == Cached(cache, db, b)
<1>2. /\ base \in ChainOf[b] /\ Stops(cache, db, base)
      /\ lists = [c \in Walked(base, b) |->
           IF c = base THEN BaseList(cache, db, base) ELSE ListAfter(c)]
  <2> HIDE DEF base
  <2> QED
    BY ListsToIs DEF base
<1>3. new = [c \in Blocks |-> IF cache[c] = None /\ c \in DOMAIN lists THEN lists[c] ELSE cache[c]]
  BY Zenon DEF Cached
<1> HIDE DEF base, lists, new
<1>4. base \in Blocks
  BY <1>2, Tree, Zenon
<1>5. /\ BaseList(cache, db, base) \in {EmptyList, ListAfter(base)}
      /\ base \in ChainOf[best] => BaseList(cache, db, base) = ListAfter(base)
  BY <1>2, <1>4, BaseRight, Zenon
<1>6. ASSUME NEW c \in Blocks
      PROVE  /\ new[c] \in {None, EmptyList, ListAfter(c)}
             /\ c \in ChainOf[best] => new[c] \in {None, ListAfter(c)}
  <2>1. CASE cache[c] = None /\ c \in DOMAIN lists
    <3>1. new[c] = lists[c]
      BY <1>3, <2>1, Zenon
    <3>2. lists[c] = IF c = base THEN BaseList(cache, db, base) ELSE ListAfter(c)
      BY <1>2, <2>1, Zenon
    <3> QED
      BY <1>5, <3>1, <3>2, Zenon
  <2>2. CASE ~(cache[c] = None /\ c \in DOMAIN lists)
    <3>1. new[c] = cache[c]
      BY <1>3, <2>2, Zenon
    <3> QED
      BY <3>1, Zenon DEF CacheRight
  <2> QED
    BY <2>1, <2>2, Zenon
<1>7. DOMAIN new = Blocks
  BY <1>3, Zenon
<1> QED
  BY <1>6, <1>7, Zenon DEF CacheRight, new

\* CleanupCache leaves nothing wrong: the lists without a height go, and the
\* chain may grow.
LEMMA CleanupRight ==
  ASSUME NEW best, NEW cache, CacheRight(cache, best), NEW b \in Blocks \ {Genesis}, NEW any
  PROVE  CacheRight(CleanupCache(cache, Height[b]), any)
<1> DEFINE new == CleanupCache(cache, Height[b])
<1>1. Height[b] \in Nat /\ LISTS_CACHE_SIZE \in Nat /\ Height[b] >= LISTS_CACHE_SIZE
  BY Tree, EvoBlocksAssumption, Zenon
<1>2. EmptyList.nHeight + LISTS_CACHE_SIZE < Height[b]
  BY <1>1 DEF EmptyList
<1>3. ASSUME NEW c \in Blocks PROVE new[c] \in {None, ListAfter(c)}
  <2>1. new[c] = IF cache[c] # None /\ cache[c].nHeight + LISTS_CACHE_SIZE < Height[b]
                 THEN None ELSE cache[c]
    BY Zenon DEF CleanupCache
  <2>2. cache[c] \in {None, EmptyList, ListAfter(c)}
    BY Zenon DEF CacheRight
  <2> HIDE DEF new
  <2> QED
    BY <1>2, <2>1, <2>2, Zenon
<1>4. DOMAIN new = Blocks
  BY Zenon DEF CleanupCache
<1> HIDE DEF new
<1>5. CacheRight(new, any)
  BY <1>3, <1>4, Zenon DEF CacheRight
<1> QED
  BY <1>5, Zenon DEF new

\* Nor does dropping one entry, or shortening the chain.
LEMMA DroppedRight ==
  ASSUME NEW best, NEW cache, CacheRight(cache, best), NEW b, NEW any,
         ChainOf[any] \subseteq ChainOf[best]
  PROVE  CacheRight([cache EXCEPT ![b] = None], any)
BY Zenon DEF CacheRight

\* The heights of lists.
LEMMA ListHeight == \A b \in Blocks : ListAfter(b).nHeight \in Int
<1> SUFFICES ASSUME NEW b \in Blocks PROVE ListAfter(b).nHeight \in Int
  BY Zenon
<1>1. CASE b = Genesis
  BY <1>1, ListAfterIs DEF EmptyList
<1>2. CASE b # Genesis
  BY <1>2, ListAfterIs, Tree DEF BuildNewListFromBlock
<1> QED
  BY <1>1, <1>2, Zenon

-----------------------------------------------------------------------------
(* What the database holds. *)

\* Block b has the commitment of quorum q.
Mines(b, q) == Qc[b] \in Commitments /\ QcQuorum[Qc[b]] = q

\* No chain has two commitments for one quorum.
OneCommitmentPerQuorum ==
  \A t \in Blocks : \A b, c \in ChainOf[t] : \A q \in Quorums : Mines(b, q) /\ Mines(c, q) => b = c

\* The commitments stored are those of the chain.
MinedRight(db, best) ==
  \A q \in Quorums :
    /\ \A b \in ChainOf[best] : Mines(b, q) => db[MinedKey(q)] = [qc |-> Qc[b], minedIn |-> b]
    /\ (\A b \in ChainOf[best] : ~Mines(b, q)) => db[MinedKey(q)] = None

\* The view holds what the chain put there, and nothing else.
Exact(db, best) ==
  /\ Readable(db, best)
  /\ \A c \in Blocks \ ChainOf[best] : db[DiffKey(c)] = None /\ db[SnapshotKey(c)] = None
  /\ OneCommitmentPerQuorum => MinedRight(db, best)

\* The keys of different things are different.
LEMMA KeysApart ==
  /\ \A x, y : DiffKey(x) = DiffKey(y) => x = y
  /\ \A x, y : SnapshotKey(x) = SnapshotKey(y) => x = y
  /\ \A x, y : MinedKey(x) = MinedKey(y) => x = y
  /\ \A x, y : DiffKey(x) # SnapshotKey(y) /\ DiffKey(x) # MinedKey(y) /\ DiffKey(x) # HeightKey(y)
  /\ \A x, y : SnapshotKey(x) # MinedKey(y) /\ SnapshotKey(x) # HeightKey(y)
  /\ \A x, y : MinedKey(x) # HeightKey(y)
  /\ \A x : BestKey # DiffKey(x) /\ BestKey # SnapshotKey(x) /\ BestKey # MinedKey(x)
            /\ BestKey # HeightKey(x)
BY Zenon DEF DiffKey, SnapshotKey, MinedKey, HeightKey, BestKey

\* A record of a best block names one block.
LEMMA OneBest ==
  ASSUME NEW b, NEW c, [best |-> b] = [best |-> c]
  PROVE  b = c
<1>1. [best |-> b].best = b /\ [best |-> c].best = c
  BY Zenon
<1> QED
  BY <1>1, Zenon

\* Such a view matches its chain.
LEMMA ExactMatches ==
  ASSUME NEW db, NEW best \in Blocks, Exact(db, best), OneCommitmentPerQuorum
  PROVE  Matches(db)
<1> DEFINE chain == ChainOf[best]
<1>1. db[BestKey].best = best
  BY DEF Exact, Readable
<1>2. ASSUME NEW q \in Quorums
      PROVE  db[MinedKey(q)] =
               IF \E b \in chain : Qc[b] \in Commitments /\ QcQuorum[Qc[b]] = q
               THEN LET b == CHOOSE b \in chain : Qc[b] \in Commitments /\ QcQuorum[Qc[b]] = q
                    IN  [qc |-> Qc[b], minedIn |-> b]
               ELSE None
  <2>1. MinedRight(db, best)
    BY Zenon DEF Exact
  <2>2. CASE \E b \in chain : Qc[b] \in Commitments /\ QcQuorum[Qc[b]] = q
    <3> DEFINE b == CHOOSE b \in chain : Qc[b] \in Commitments /\ QcQuorum[Qc[b]] = q
    <3>1. b \in chain /\ Mines(b, q)
      BY <2>2, Zenon DEF Mines
    <3> HIDE DEF b
    <3>2. db[MinedKey(q)] = [qc |-> Qc[b], minedIn |-> b]
      BY <2>1, <3>1, Zenon DEF MinedRight
    <3> QED
      BY <2>2, <3>2, Zenon DEF b
  <2>3. CASE ~\E b \in chain : Qc[b] \in Commitments /\ QcQuorum[Qc[b]] = q
    <3>1. db[MinedKey(q)] = None
      BY <2>1, <2>3, Zenon DEF MinedRight, Mines
    <3> QED
      BY <2>3, <3>1, Zenon
  <2> QED
    BY <2>2, <2>3, Zenon
<1>3. \A b \in Blocks \ chain : db[DiffKey(b)] = None /\ db[SnapshotKey(b)] = None
  BY Zenon DEF Exact
<1>4. ASSUME NEW b \in chain \ {Genesis}
      PROVE  /\ db[DiffKey(b)] = BuildDiff(ListAfter(Parent[b]), ListAfter(b))
             /\ db[SnapshotKey(b)] \in {None, [list |-> ListAfter(b)]}
  <2>1. b \in Blocks \ {Genesis}
    BY Tree, Zenon
  <2> QED
    BY <2>1, Zenon DEF Exact, Readable, DiffOf
<1> QED
  BY <1>1, <1>2, <1>3, <1>4 DEF Matches

\* new is db with what connecting block b may write about lists.
AddsList(db, new, b) ==
  /\ new[DiffKey(b)] = DiffOf(b)
  /\ new[SnapshotKey(b)] \in {db[SnapshotKey(b)], [list |-> ListAfter(b)]}
  /\ \A c \in Blocks \ {b} :
       new[DiffKey(c)] = db[DiffKey(c)] /\ new[SnapshotKey(c)] = db[SnapshotKey(c)]

\* The lists can be read when the block has been written and not yet made the
\* best block, ...
LEMMA AddedReadable ==
  ASSUME NEW db, NEW new, NEW b \in Blocks \ {Genesis}, Exact(db, Parent[b]),
         AddsList(db, new, b), new[BestKey] = db[BestKey]
  PROVE  Readable(new, Parent[b])
<1>1. DiffOf(b) # None
  BY StoredAssumption, EvoDBAssumption, Zenon DEF DiffOf
<1>2. Parent[b] \in ChainOf[Parent[b]] /\ Parent[b] \in Blocks
  BY Tree, Zenon
<1>3. Readable(db, Parent[b])
  BY Zenon DEF Exact
<1>4. new[DiffKey(Genesis)] = None /\ new[SnapshotKey(Genesis)] = None
  BY <1>3, Tree, Zenon DEF Readable, AddsList
<1>5. ASSUME NEW c \in Blocks \ {Genesis}
      PROVE  /\ new[DiffKey(c)] \in {None, DiffOf(c)}
             /\ new[SnapshotKey(c)] \in {None, [list |-> ListAfter(c)]}
             /\ c \in ChainOf[Parent[b]] => new[DiffKey(c)] # None
             /\ new[DiffKey(c)] # None => Parent[c] \in ChainOf[Parent[b]]
  <2>1. CASE c = b
    BY <1>1, <1>2, <1>3, <2>1, Zenon DEF Readable, AddsList
  <2>2. CASE c # b
    <3>1. new[DiffKey(c)] = db[DiffKey(c)] /\ new[SnapshotKey(c)] = db[SnapshotKey(c)]
      BY <2>2, Zenon DEF AddsList
    <3> QED
      BY <1>3, <3>1, Zenon DEF Readable
  <2> QED
    BY <2>1, <2>2, Zenon
<1>6. new[BestKey] = [best |-> Parent[b]]
  BY <1>3, Zenon DEF Readable
<1> QED
  BY <1>4, <1>5, <1>6, Zenon DEF Readable

\* new is db with what connecting block b writes about commitments.
AddsCommitment(db, new, b) ==
  /\ Qc[b] \in Commitments => new[MinedKey(QcQuorum[Qc[b]])] = [qc |-> Qc[b], minedIn |-> b]
  /\ \A q \in Quorums : ~Mines(b, q) => new[MinedKey(q)] = db[MinedKey(q)]

\* ... and it holds what the longer chain put there once it is the best block.
LEMMA AddedExact ==
  ASSUME NEW db, NEW new, NEW b \in Blocks \ {Genesis}, Exact(db, Parent[b]),
         AddsList(db, new, b), AddsCommitment(db, new, b), new[BestKey] = [best |-> b]
  PROVE  Exact(new, b)
<1>1. DiffOf(b) # None
  BY StoredAssumption, EvoDBAssumption, Zenon DEF DiffOf
<1>2. /\ ChainOf[b] = {b} \cup ChainOf[Parent[b]] /\ b \notin ChainOf[Parent[b]]
      /\ Parent[b] \in ChainOf[b] /\ Parent[b] \in Blocks
  BY Tree, Zenon
<1>3. Readable(db, Parent[b])
  BY Zenon DEF Exact
<1>4. new[DiffKey(Genesis)] = None /\ new[SnapshotKey(Genesis)] = None
  BY <1>3, Tree, Zenon DEF Readable, AddsList
<1>5. ASSUME NEW c \in Blocks \ {Genesis}
      PROVE  /\ new[DiffKey(c)] \in {None, DiffOf(c)}
             /\ new[SnapshotKey(c)] \in {None, [list |-> ListAfter(c)]}
             /\ c \in ChainOf[b] => new[DiffKey(c)] # None
             /\ new[DiffKey(c)] # None => Parent[c] \in ChainOf[b]
  <2>1. CASE c = b
    BY <1>1, <1>2, <1>3, <2>1, Zenon DEF Readable, AddsList
  <2>2. CASE c # b
    <3>1. new[DiffKey(c)] = db[DiffKey(c)] /\ new[SnapshotKey(c)] = db[SnapshotKey(c)]
      BY <2>2, Zenon DEF AddsList
    <3> QED
      BY <1>2, <1>3, <2>2, <3>1, Zenon DEF Readable
  <2> QED
    BY <2>1, <2>2, Zenon
<1>6. Readable(new, b)
  BY <1>4, <1>5, Zenon DEF Readable
<1>7. ASSUME NEW c \in Blocks \ ChainOf[b]
      PROVE  new[DiffKey(c)] = None /\ new[SnapshotKey(c)] = None
  <2>1. c \in Blocks \ ChainOf[Parent[b]] /\ c # b
    BY <1>2, Zenon
  <2> QED
    BY <2>1, Zenon DEF Exact, AddsList
<1>8. ASSUME OneCommitmentPerQuorum PROVE MinedRight(new, b)
  <2>1. MinedRight(db, Parent[b])
    BY <1>8, Zenon DEF Exact
  <2>2. ASSUME NEW q \in Quorums, NEW c \in ChainOf[b], Mines(c, q)
        PROVE  new[MinedKey(q)] = [qc |-> Qc[c], minedIn |-> c]
    <3>1. CASE Mines(b, q)
      <4>1. b \in ChainOf[b]
        BY <1>2, Zenon
      <4>2. c = b
        BY <1>8, <2>2, <3>1, <4>1, Zenon DEF OneCommitmentPerQuorum
      <4> QED
        BY <3>1, <4>2, Zenon DEF Mines, AddsCommitment
    <3>2. CASE ~Mines(b, q)
      <4>1. c \in ChainOf[Parent[b]]
        BY <1>2, <2>2, <3>2, Zenon
      <4>2. new[MinedKey(q)] = db[MinedKey(q)]
        BY <3>2, Zenon DEF AddsCommitment
      <4> QED
        BY <2>1, <2>2, <4>1, <4>2, Zenon DEF MinedRight
    <3> QED
      BY <3>1, <3>2, Zenon
  <2>3. ASSUME NEW q \in Quorums, \A c \in ChainOf[b] : ~Mines(c, q)
        PROVE  new[MinedKey(q)] = None
    <3>1. ~Mines(b, q) /\ \A c \in ChainOf[Parent[b]] : ~Mines(c, q)
      BY <1>2, <2>3, Zenon
    <3>2. new[MinedKey(q)] = db[MinedKey(q)]
      BY <3>1, Zenon DEF AddsCommitment
    <3> QED
      BY <2>1, <3>1, <3>2, Zenon DEF MinedRight
  <2> QED
    BY <2>2, <2>3, Zenon DEF MinedRight
<1> QED
  BY <1>6, <1>7, <1>8, Zenon DEF Exact

\* new is db with what disconnecting block b writes and erases.
TakesBack(db, new, b) ==
  /\ new[BestKey] = [best |-> Parent[b]]
  /\ new[DiffKey(b)] = None /\ new[SnapshotKey(b)] = None
  /\ \A c \in Blocks \ {b} :
       new[DiffKey(c)] = db[DiffKey(c)] /\ new[SnapshotKey(c)] = db[SnapshotKey(c)]
  /\ \A q \in Quorums : new[MinedKey(q)] = IF Mines(b, q) THEN None ELSE db[MinedKey(q)]

\* It leaves what the shorter chain put there.
LEMMA TakenBackExact ==
  ASSUME NEW db, NEW new, NEW b \in Blocks \ {Genesis}, Exact(db, b), TakesBack(db, new, b)
  PROVE  Exact(new, Parent[b])
<1>2. /\ ChainOf[b] = {b} \cup ChainOf[Parent[b]] /\ b \notin ChainOf[Parent[b]]
      /\ Parent[b] \in ChainOf[b] /\ Parent[b] \in Blocks /\ b \in ChainOf[b]
  BY Tree, Zenon
<1>3. Readable(db, b)
  BY Zenon DEF Exact
<1>4. new[DiffKey(Genesis)] = None /\ new[SnapshotKey(Genesis)] = None
  BY <1>3, Tree, Zenon DEF Readable, TakesBack
<1>5. ASSUME NEW c \in Blocks \ {Genesis}
      PROVE  /\ new[DiffKey(c)] \in {None, DiffOf(c)}
             /\ new[SnapshotKey(c)] \in {None, [list |-> ListAfter(c)]}
             /\ c \in ChainOf[Parent[b]] => new[DiffKey(c)] # None
             /\ new[DiffKey(c)] # None => Parent[c] \in ChainOf[Parent[b]]
  <2>1. CASE c = b
    BY <1>2, <2>1, Zenon DEF TakesBack
  <2>2. CASE c # b
    <3>1. new[DiffKey(c)] = db[DiffKey(c)] /\ new[SnapshotKey(c)] = db[SnapshotKey(c)]
      BY <2>2, Zenon DEF TakesBack
    <3>2. db[DiffKey(c)] # None => c \in ChainOf[Parent[b]]
      <4>1. db[DiffKey(c)] # None => c \in ChainOf[b]
        BY Zenon DEF Exact
      <4> QED
        BY <1>2, <2>2, <4>1, Zenon
    <3>3. c \in ChainOf[Parent[b]] => Parent[c] \in ChainOf[Parent[b]]
      BY <1>2, Tree, Zenon
    <3> QED
      BY <1>2, <1>3, <3>1, <3>2, <3>3, Zenon DEF Readable
  <2> QED
    BY <2>1, <2>2, Zenon
<1>6. Readable(new, Parent[b])
  BY <1>4, <1>5, Zenon DEF Readable, TakesBack
<1>7. ASSUME NEW c \in Blocks \ ChainOf[Parent[b]]
      PROVE  new[DiffKey(c)] = None /\ new[SnapshotKey(c)] = None
  <2>1. CASE c = b
    BY <2>1, Zenon DEF TakesBack
  <2>2. CASE c # b
    <3>1. c \in Blocks \ ChainOf[b]
      BY <1>2, <2>2, Zenon
    <3> QED
      BY <2>2, <3>1, Zenon DEF Exact, TakesBack
  <2> QED
    BY <2>1, <2>2, Zenon
<1>8. ASSUME OneCommitmentPerQuorum PROVE MinedRight(new, Parent[b])
  <2>1. MinedRight(db, b)
    BY <1>8, Zenon DEF Exact
  <2>2. ASSUME NEW q \in Quorums, NEW c \in ChainOf[Parent[b]], Mines(c, q)
        PROVE  new[MinedKey(q)] = [qc |-> Qc[c], minedIn |-> c]
    <3>1. c \in ChainOf[b] /\ c # b
      BY <1>2, Zenon
    <3>2. ~Mines(b, q)
      BY <1>2, <1>8, <2>2, <3>1, Zenon DEF OneCommitmentPerQuorum
    <3>3. new[MinedKey(q)] = db[MinedKey(q)]
      BY <3>2, Zenon DEF TakesBack
    <3> QED
      BY <2>1, <2>2, <3>1, <3>3, Zenon DEF MinedRight
  <2>3. ASSUME NEW q \in Quorums, \A c \in ChainOf[Parent[b]] : ~Mines(c, q)
        PROVE  new[MinedKey(q)] = None
    <3>1. CASE Mines(b, q)
      BY <3>1, Zenon DEF TakesBack
    <3>2. CASE ~Mines(b, q)
      <4>1. \A c \in ChainOf[b] : ~Mines(c, q)
        BY <1>2, <2>3, <3>2, Zenon
      <4>2. new[MinedKey(q)] = db[MinedKey(q)]
        BY <3>2, Zenon DEF TakesBack
      <4> QED
        BY <2>1, <4>1, <4>2, Zenon DEF MinedRight
    <3> QED
      BY <3>1, <3>2, Zenon
  <2> QED
    BY <2>2, <2>3, Zenon DEF MinedRight
<1> QED
  BY <1>6, <1>7, <1>8, Zenon DEF Exact

-----------------------------------------------------------------------------
(* What connecting a block writes. *)

\* f writes what connecting block b puts into the database, the best block aside.
WritesBlock(f, b) ==
  /\ f \in [DOMAIN f -> Values] /\ DOMAIN f \subseteq Keys
  /\ DiffKey(b) \in DOMAIN f /\ f[DiffKey(b)] = DiffOf(b)
  /\ SnapshotKey(b) \in DOMAIN f => f[SnapshotKey(b)] = [list |-> ListAfter(b)]
  /\ \A c \in Blocks \ {b} : DiffKey(c) \notin DOMAIN f /\ SnapshotKey(c) \notin DOMAIN f
  /\ Qc[b] \in Commitments =>
       /\ MinedKey(QcQuorum[Qc[b]]) \in DOMAIN f
       /\ f[MinedKey(QcQuorum[Qc[b]])] = [qc |-> Qc[b], minedIn |-> b]
  /\ \A q \in Quorums : ~Mines(b, q) => MinedKey(q) \notin DOMAIN f

\* The part about lists, when GetListForBlock is right about the parent.
LEMMA ListWritesAre ==
  ASSUME NEW cache, NEW db, NEW b \in Blocks \ {Genesis},
         GetListForBlock(cache, db, Parent[b]) = ListAfter(Parent[b])
  PROVE  LET w == ListWrites(cache, db, b)
         IN  /\ w = [k \in DOMAIN w |-> w[k]]
             /\ DOMAIN w \subseteq {DiffKey(b), SnapshotKey(b)}
             /\ DiffKey(b) \in DOMAIN w /\ w[DiffKey(b)] = DiffOf(b)
             /\ SnapshotKey(b) \in DOMAIN w => w[SnapshotKey(b)] = [list |-> ListAfter(b)]
<1> DEFINE old == GetListForBlock(cache, db, Parent[b])
           new == BuildNewListFromBlock(old, b)
           keys == {DiffKey(b)} \cup (IF Height[b] % SNAPSHOT_LIST_PERIOD = 0 \/ old.nHeight = -1
                                      THEN {SnapshotKey(b)} ELSE {})
           w == [k \in keys |-> IF k = DiffKey(b) THEN BuildDiff(old, new) ELSE [list |-> new]]
<1>1. ListWrites(cache, db, b) = w
  BY Zenon DEF ListWrites
<1>2. new = ListAfter(b)
  BY ListAfterIs, Zenon
<1>3. BuildDiff(old, new) = DiffOf(b)
  BY <1>2, Zenon DEF DiffOf
<1>4. DiffKey(b) \in keys /\ keys \subseteq {DiffKey(b), SnapshotKey(b)}
  BY Zenon
<1>5. SnapshotKey(b) # DiffKey(b)
  BY KeysApart, Zenon
<1> HIDE DEF old, new, keys
<1> QED
  BY <1>1, <1>2, <1>3, <1>4, <1>5, Zenon

\* The part about commitments, when the commitment is for the current quorum.
LEMMA QcWritesAre ==
  ASSUME NEW b \in Blocks, Qc[b] \in Commitments => QcQuorum[Qc[b]] = QuorumOf(b)
  PROVE  LET w == QcWrites(b)
         IN  /\ w = [k \in DOMAIN w |-> w[k]]
             /\ Qc[b] \notin Commitments => DOMAIN w = {}
             /\ Qc[b] \in Commitments =>
                  /\ DOMAIN w = {MinedKey(QcQuorum[Qc[b]]), HeightKey(Height[b])}
                  /\ w[MinedKey(QcQuorum[Qc[b]])] = [qc |-> Qc[b], minedIn |-> b]
                  /\ w[HeightKey(Height[b])] = [height |-> Height[QcQuorum[Qc[b]]]]
<1>1. CASE Qc[b] \notin Commitments
  <2>1. QcWrites(b) = <<>>
    BY <1>1, Zenon DEF QcWrites
  <2>2. DOMAIN <<>> = {} /\ <<>> = [k \in DOMAIN <<>> |-> <<>>[k]]
    OBVIOUS
  <2> QED
    BY <1>1, <2>1, <2>2, Zenon
<1>2. CASE Qc[b] \in Commitments
  <2>1. MinedKey(QcQuorum[Qc[b]]) # HeightKey(Height[b])
    BY KeysApart, Zenon
  <2> QED
    BY <1>2, <2>1, Zenon DEF QcWrites
<1> QED
  BY <1>1, <1>2, Zenon

\* Together.
LEMMA BlockWritten ==
  ASSUME NEW cache, NEW db, NEW b \in Blocks \ {Genesis},
         GetListForBlock(cache, db, Parent[b]) = ListAfter(Parent[b]),
         Qc[b] \in Commitments => QcQuorum[Qc[b]] = QuorumOf(b)
  PROVE  LET f == WritesOf(QcWrites(b), ListWrites(cache, db, b))
         IN  WritesBlock(f, b) /\ BestKey \notin DOMAIN f
<1> DEFINE g == QcWrites(b)
           h == ListWrites(cache, db, b)
           f == WritesOf(g, h)
<1>1. /\ DOMAIN h \subseteq {DiffKey(b), SnapshotKey(b)}
      /\ DiffKey(b) \in DOMAIN h /\ h[DiffKey(b)] = DiffOf(b)
      /\ SnapshotKey(b) \in DOMAIN h => h[SnapshotKey(b)] = [list |-> ListAfter(b)]
  BY ListWritesAre
<1>2. /\ Qc[b] \notin Commitments => DOMAIN g = {}
      /\ Qc[b] \in Commitments =>
           /\ DOMAIN g = {MinedKey(QcQuorum[Qc[b]]), HeightKey(Height[b])}
           /\ g[MinedKey(QcQuorum[Qc[b]])] = [qc |-> Qc[b], minedIn |-> b]
           /\ g[HeightKey(Height[b])] = [height |-> Height[QcQuorum[Qc[b]]]]
  BY QcWritesAre, Zenon
<1>3. f = [k \in DOMAIN g \cup DOMAIN h |-> IF k \in DOMAIN g THEN g[k] ELSE h[k]]
  BY Zenon DEF WritesOf
<1> HIDE DEF f, g, h
<1>4. DiffKey(b) \notin DOMAIN g /\ SnapshotKey(b) \notin DOMAIN g
  BY <1>2, KeysApart, Zenon
<1>5. ASSUME NEW k \in DOMAIN g PROVE k \in Keys /\ g[k] \in Values
  <2>1. Qc[b] \in Commitments
    BY <1>2, <1>5, Zenon
  <2>2. QcQuorum[Qc[b]] \in Quorums
    BY <2>1, Zenon DEF Quorums
  <2>3. k = MinedKey(QcQuorum[Qc[b]]) \/ k = HeightKey(Height[b])
    BY <1>2, <1>5, <2>1, Zenon
  <2>4. g[k] = [qc |-> Qc[b], minedIn |-> b] \/ g[k] = [height |-> Height[QcQuorum[Qc[b]]]]
    BY <1>2, <2>1, <2>3, Zenon
  <2>5. k \in Keys
    BY <2>1, <2>2, <2>3, StoredAssumption, Zenon
  <2>6. g[k] \in Values
    BY <2>1, <2>4, StoredAssumption, Zenon
  <2> QED
    BY <2>5, <2>6, Zenon
<1>6. ASSUME NEW k \in DOMAIN h PROVE k \in Keys /\ h[k] \in Values
  BY <1>1, <1>6, StoredAssumption, Zenon DEF DiffOf
<1>7. f \in [DOMAIN f -> Values] /\ DOMAIN f \subseteq Keys
  BY <1>3, <1>5, <1>6, Zenon
<1>8. /\ DiffKey(b) \in DOMAIN f /\ f[DiffKey(b)] = DiffOf(b)
      /\ SnapshotKey(b) \in DOMAIN f => f[SnapshotKey(b)] = [list |-> ListAfter(b)]
  BY <1>1, <1>3, <1>4, Zenon
<1>9. ASSUME NEW c \in Blocks \ {b} PROVE DiffKey(c) \notin DOMAIN f /\ SnapshotKey(c) \notin DOMAIN f
  <2>1. DiffKey(c) \notin DOMAIN g /\ SnapshotKey(c) \notin DOMAIN g
    BY <1>2, KeysApart, Zenon
  <2>2. DiffKey(c) \notin DOMAIN h /\ SnapshotKey(c) \notin DOMAIN h
    BY <1>1, KeysApart, Zenon
  <2> QED
    BY <1>3, <2>1, <2>2, Zenon
<1>10. Qc[b] \in Commitments =>
         /\ MinedKey(QcQuorum[Qc[b]]) \in DOMAIN f
         /\ f[MinedKey(QcQuorum[Qc[b]])] = [qc |-> Qc[b], minedIn |-> b]
  BY <1>2, <1>3, Zenon
<1>11. ASSUME NEW q \in Quorums, ~Mines(b, q) PROVE MinedKey(q) \notin DOMAIN f
  <2>1. MinedKey(q) \notin DOMAIN g
    <3>1. CASE Qc[b] \notin Commitments
      BY <1>2, <3>1, Zenon
    <3>2. CASE Qc[b] \in Commitments
      <4>1. QcQuorum[Qc[b]] # q
        BY <1>11, <3>2, Zenon DEF Mines
      <4>2. MinedKey(q) # MinedKey(QcQuorum[Qc[b]]) /\ MinedKey(q) # HeightKey(Height[b])
        BY <4>1, KeysApart, Zenon
      <4> QED
        BY <1>2, <3>2, <4>2, Zenon
    <3> QED
      BY <3>1, <3>2, Zenon
  <2>2. MinedKey(q) \notin DOMAIN h
    BY <1>1, KeysApart, Zenon
  <2> QED
    BY <1>3, <2>1, <2>2, Zenon
<1>12. BestKey \notin DOMAIN f
  BY <1>1, <1>2, <1>3, KeysApart, Zenon
<1>13. WritesBlock(f, b)
  BY <1>7, <1>8, <1>9, <1>10, <1>11, Zenon DEF WritesBlock
<1> QED
  BY <1>12, <1>13, Zenon DEF f, g, h

\* And with the best block.
LEMMA BestWritten ==
  ASSUME NEW f, NEW b \in Blocks, WritesBlock(f, b), BestKey \notin DOMAIN f
  PROVE  LET g == WritesOf(f, BestWrite(b))
         IN  WritesBlock(g, b) /\ BestKey \in DOMAIN g /\ g[BestKey] = [best |-> b]
<1> DEFINE w == BestWrite(b)
           g == WritesOf(f, w)
<1>1. DOMAIN w = {BestKey} /\ w[BestKey] = [best |-> b]
  BY Zenon DEF BestWrite
<1>2. g = [k \in DOMAIN f \cup {BestKey} |-> IF k \in DOMAIN f THEN f[k] ELSE w[k]]
  BY <1>1, Zenon DEF WritesOf
<1> HIDE DEF w, g
<1>3. /\ f \in [DOMAIN f -> Values] /\ DOMAIN f \subseteq Keys
      /\ BestKey \in Keys /\ [best |-> b] \in Values
  BY StoredAssumption, Zenon DEF WritesBlock
<1>4. g \in [DOMAIN g -> Values] /\ DOMAIN g \subseteq Keys
  BY <1>1, <1>2, <1>3, Zenon
<1>5. \A k \in DOMAIN f : k \in DOMAIN g /\ g[k] = f[k]
  BY <1>2, Zenon
<1>6. \A k : k # BestKey /\ k \notin DOMAIN f => k \notin DOMAIN g
  BY <1>2, Zenon
<1>7. BestKey \in DOMAIN g /\ g[BestKey] = [best |-> b]
  BY <1>1, <1>2, Zenon
<1>8. /\ DiffKey(b) \in DOMAIN g /\ g[DiffKey(b)] = DiffOf(b)
      /\ SnapshotKey(b) \in DOMAIN g => g[SnapshotKey(b)] = [list |-> ListAfter(b)]
  BY <1>5, <1>6, KeysApart, Zenon DEF WritesBlock
<1>9. \A c \in Blocks \ {b} : DiffKey(c) \notin DOMAIN g /\ SnapshotKey(c) \notin DOMAIN g
  BY <1>6, KeysApart, Zenon DEF WritesBlock
<1>10. Qc[b] \in Commitments =>
         /\ MinedKey(QcQuorum[Qc[b]]) \in DOMAIN g
         /\ g[MinedKey(QcQuorum[Qc[b]])] = [qc |-> Qc[b], minedIn |-> b]
  BY <1>5, Zenon DEF WritesBlock
<1>11. \A q \in Quorums : ~Mines(b, q) => MinedKey(q) \notin DOMAIN g
  BY <1>6, KeysApart, Zenon DEF WritesBlock
<1>12. WritesBlock(g, b)
  BY <1>4, <1>8, <1>9, <1>10, <1>11, Zenon DEF WritesBlock
<1> QED
  BY <1>7, <1>12, Zenon DEF w, g

-----------------------------------------------------------------------------
(* The layers of the database. *)

\* The views of a sound database.
LEMMA Views ==
  ASSUME DBInv
  PROVE  /\ disk \in [Keys -> Stored] /\ RootView \in [Keys -> Stored]
         /\ CurView \in [Keys -> Stored] /\ (IsClean(cur) => CurView = RootView)
<1>1. disk \in [Keys -> Stored] /\ root \in Layers /\ cur \in Layers
  BY Zenon DEF DBInv, DBTypeOK
<1>2. RootView \in [Keys -> Stored]
  BY <1>1, ViewTyped, Zenon DEF RootView
<1>3. CurView \in [Keys -> Stored]
  BY <1>1, <1>2, ViewTyped, Zenon DEF CurView
<1>4. IsClean(cur) => CurView = RootView
  BY <1>2, CleanView, Zenon DEF CurView, IsClean
<1> QED
  BY <1>1, <1>2, <1>3, <1>4, Zenon

\* A run of writes and erasures changes those keys in what the transaction
\* sees, and nothing else.
LEMMA ChangeIs ==
  ASSUME DBInv, NEW e \in SUBSET Keys, NEW K \in SUBSET (Keys \ e), NEW f \in [K -> Values],
         Change(f, e)
  PROVE  /\ DBNext /\ disk' = disk /\ RootView' = RootView /\ inTx'
         /\ \A k \in Keys : CurView'[k] = IF k \in K THEN f[k]
                                          ELSE IF k \in e THEN None ELSE CurView[k]
<1>1. DBNext
  BY Zenon DEF DBNext
<1>2. disk' = disk /\ root' = root /\ inTx' /\ cur' = Changed(cur, f, e)
  BY Zenon DEF Change
<1>3. RootView' = RootView
  BY <1>2, Zenon DEF RootView
<1>4. cur \in Layers
  BY Zenon DEF DBInv, DBTypeOK
<1>5. ASSUME NEW k \in Keys
      PROVE  CurView'[k] = IF k \in K THEN f[k] ELSE IF k \in e THEN None ELSE CurView[k]
  <2>1. CurView' = View(Changed(cur, f, e), RootView)
    BY <1>2, <1>3, Zenon DEF CurView
  <2>2. DOMAIN f = K /\ K \cap e = {} /\ (k \in K => f[k] \in Values /\ f[k] # None)
    BY EvoDBAssumption, Zenon
  <2>3. CurView[k] = IF k \in cur.deletes THEN None
                     ELSE IF cur.writes[k] # None THEN cur.writes[k] ELSE RootView[k]
    BY Zenon DEF CurView, View
  <2> QED
    BY <2>1, <2>2, <2>3, Zenon DEF View, Changed
<1> QED
  BY <1>1, <1>2, <1>3, <1>5, Zenon

\* CScopedDBTransaction::Commit hands down what the transaction sees.
LEMMA CommitIs ==
  ASSUME DBInv, CommitTransaction
  PROVE  DBNext /\ disk' = disk /\ RootView' = CurView /\ CurView' = CurView /\ ~inTx'
<1>1. /\ disk \in [Keys -> Stored] /\ root \in Layers /\ cur \in Layers
      /\ Disjoint(root) /\ Disjoint(cur)
  BY Zenon DEF DBInv, DBTypeOK, LayersDisjoint
<1>2. disk' = disk /\ root' = CommitInto(cur, root) /\ cur' = Clean /\ ~inTx'
  BY Zenon DEF CommitTransaction
<1>3. RootView' = CurView
  BY <1>1, <1>2, CommitKeepsView, Zenon DEF RootView, CurView
<1>4. CurView \in [Keys -> Stored]
  BY Views, Zenon
<1>5. CurView' = CurView
  BY <1>2, <1>3, <1>4, CleanView, Zenon DEF CurView
<1> QED
  BY <1>2, <1>3, <1>5, Zenon DEF DBNext

\* A transaction that is not committed leaves no trace.
LEMMA RollbackIs ==
  ASSUME DBInv, Rollback
  PROVE  DBNext /\ disk' = disk /\ RootView' = RootView /\ CurView' = RootView /\ ~inTx'
<1>1. disk' = disk /\ root' = root /\ cur' = Clean /\ ~inTx'
  BY Zenon DEF Rollback
<1>2. RootView' = RootView
  BY <1>1, Zenon DEF RootView
<1>3. RootView \in [Keys -> Stored]
  BY Views, Zenon
<1>4. CurView' = RootView
  BY <1>1, <1>2, <1>3, CleanView, Zenon DEF CurView
<1> QED
  BY <1>1, <1>2, <1>4, Zenon DEF DBNext

\* Beginning a transaction changes nothing that is seen.
LEMMA BeginIs ==
  ASSUME DBInv, BeginTransaction
  PROVE  /\ DBNext /\ disk' = disk /\ RootView' = RootView /\ CurView' = CurView /\ inTx'
         /\ IsClean(cur')
BY Zenon DEF BeginTransaction, DBNext, RootView, CurView, IsClean

\* CommitRootTransaction puts the committed transactions on disk.
LEMMA FlushIs ==
  ASSUME DBInv, CommitRootTransaction
  PROVE  DBNext /\ disk' = RootView /\ RootView' = RootView /\ CurView' = CurView /\ ~inTx'
<1>1. disk \in [Keys -> Stored] /\ root \in Layers /\ Disjoint(root)
  BY Zenon DEF DBInv, DBTypeOK, LayersDisjoint
<1>2. disk' = CommitToDisk(root, disk) /\ root' = Clean /\ cur' = cur /\ ~inTx'
  BY Zenon DEF CommitRootTransaction
<1>3. disk' = RootView
  BY <1>1, <1>2, DiskKeepsView, Zenon DEF RootView
<1>4. RootView \in [Keys -> Stored]
  BY Views, Zenon
<1>5. RootView' = RootView
  BY <1>2, <1>3, <1>4, CleanView, Zenon DEF RootView
<1>6. CurView' = CurView
  BY <1>2, <1>5, Zenon DEF CurView
<1> QED
  BY <1>2, <1>3, <1>5, <1>6, Zenon DEF DBNext

\* A crash goes back to what is on disk.
LEMMA CrashIs ==
  ASSUME DBInv, Crash
  PROVE  DBNext /\ disk' = disk /\ RootView' = disk /\ CurView' = disk /\ ~inTx'
<1>1. disk' = disk /\ root' = Clean /\ cur' = Clean /\ ~inTx'
  BY Zenon DEF Crash
<1>2. disk \in [Keys -> Stored]
  BY Views, Zenon
<1>3. RootView' = disk
  BY <1>1, <1>2, CleanView, Zenon DEF RootView
<1>4. CurView' = disk
  BY <1>1, <1>2, <1>3, CleanView, Zenon DEF CurView
<1> QED
  BY <1>1, <1>3, <1>4, Zenon DEF DBNext

-----------------------------------------------------------------------------
(* The invariant. *)

Typed ==
  /\ tip \in tips /\ coinsDisk \in Blocks /\ tips \subseteq Blocks
  /\ hasMinedCommitmentCache \in [Blocks -> BOOLEAN \cup {None}]
  /\ minable \in [Blocks -> Commitments \cup {None}]
  /\ reader \in [pc : {"idle", "exists", "emplace"}, quorum : BlockOrNone, ret : BOOLEAN]
  /\ message \in Commitments \cup {None}

\* No block is being worked on.
Waiting(r, c) ==
  /\ \E op \in {"idle", "flush"} : work = [op |-> op, block |-> None]
  /\ ~inTx /\ c = r

\* Block b is being connected, or checked.
Connecting(r, c, b) ==
  /\ work.block = b /\ work = [op |-> work.op, block |-> b]
  /\ Parent[b] = tip /\ inTx /\ r = tip
  /\ \/ work.op \in {"connect", "check"} /\ IsClean(cur) /\ c = tip
     \/ work.op \in {"refused", "checked"} /\ c = tip
     \/ work.op = "connected" /\ c = b /\ Exact(CurView, b)

\* The tip is being disconnected.
Disconnecting(r, c) ==
  /\ work.block = tip /\ work = [op |-> work.op, block |-> tip]
  /\ tip # Genesis /\ inTx /\ r = tip
  /\ \/ work.op = "disconnect" /\ IsClean(cur) /\ c = tip
     \/ work.op = "disconnected" /\ c = Parent[tip] /\ Exact(CurView, c)

Working(r, c) ==
  \/ Waiting(r, c)
  \/ \E b \in Blocks \ {Genesis} : Connecting(r, c, b)
  \/ Disconnecting(r, c)

\* The best blocks of the database, of the committed transactions and of the
\* open one are d, r and c.
Stands(d, r, c) ==
  /\ Exact(disk, d) /\ Exact(RootView, r) /\ Readable(CurView, c)
  /\ CacheRight(mnListsCache, c)
  /\ Working(r, c)

Standing == \E d, r, c \in Blocks : Stands(d, r, c)

IndInv == DBInv /\ Typed /\ Standing

\* What every step has to show.
Kept == [DBNext]_dbVars /\ Typed' /\ Standing'

-----------------------------------------------------------------------------
(* The steps of the threads that do not hold cs_main. *)

\* A step that leaves the database, the chain and the block being worked on.
LEMMA SameWork ==
  ASSUME NEW d \in Blocks, NEW r \in Blocks, NEW c \in Blocks, Stands(d, r, c),
         UNCHANGED <<dbVars, chainVars, work>>, CacheRight(mnListsCache', c)
  PROVE  Standing'
<1>1. /\ disk' = disk /\ RootView' = RootView /\ CurView' = CurView /\ cur' = cur /\ inTx' = inTx
      /\ tip' = tip /\ work' = work
  BY Zenon DEF dbVars, chainVars, RootView, CurView
<1>2. Working(r, c)'
  <2>1. CASE Waiting(r, c)
    BY <1>1, <2>1, Zenon DEF Working, Waiting
  <2>2. ASSUME NEW b \in Blocks \ {Genesis}, Connecting(r, c, b) PROVE Working(r, c)'
    <3>1. Connecting(r, c, b)'
      BY <1>1, <2>2, Zenon DEF Connecting
    <3> QED
      BY <3>1, Zenon DEF Working
  <2>3. CASE Disconnecting(r, c)
    BY <1>1, <2>3, Zenon DEF Working, Disconnecting
  <2> QED
    BY <2>1, <2>2, <2>3, Zenon DEF Stands, Working
<1>3. Stands(d, r, c)'
  BY <1>1, <1>2, Zenon DEF Stands
<1> QED
  BY <1>3, Zenon DEF Standing

\* AddMinableCommitment keeps the kind of the map.
LEMMA MinableTyped ==
  ASSUME NEW known \in [Blocks -> Commitments \cup {None}], NEW c \in Commitments
  PROVE  AddMinableCommitment(known, c) \in [Blocks -> Commitments \cup {None}]
BY Zenon DEF AddMinableCommitment

\* GetListAtChainTip, whatever tip the thread still has.
LEMMA GetListStep ==
  ASSUME Typed, NEW d \in Blocks, NEW r \in Blocks, NEW c \in Blocks, Stands(d, r, c),
         NEW b \in Blocks, GetListAtChainTip(b)
  PROVE  Kept
<1>1. /\ UNCHANGED <<dbVars, chainVars, work, reader, message, hasMinedCommitmentCache, minable>>
      /\ mnListsCache' = Cached(mnListsCache, CurView, b)
  BY Zenon DEF GetListAtChainTip, threadVars
<1>2. CacheRight(mnListsCache', c)
  BY <1>1, CachedRight, Zenon DEF Stands
<1>3. Standing'
  BY <1>1, <1>2, SameWork, Zenon
<1>4. Typed'
  BY <1>1, Zenon DEF Typed, chainVars
<1> QED
  BY <1>1, <1>3, <1>4, Zenon DEF Kept

\* HasMinedCommitment outside cs_main.
LEMMA ReaderStep ==
  ASSUME Typed, NEW d \in Blocks, NEW r \in Blocks, NEW c \in Blocks, Stands(d, r, c),
         (\E q \in Quorums : ReaderLookup(q)) \/ ReaderExists \/ ReaderEmplace
  PROVE  Kept
<1>1. /\ UNCHANGED <<dbVars, chainVars, work, message, minable, mnListsCache>>
  BY Zenon DEF ReaderLookup, ReaderExists, ReaderEmplace, cacheVars
<1>2. CacheRight(mnListsCache', c)
  BY <1>1, Zenon DEF Stands
<1>3. Standing'
  BY <1>1, <1>2, SameWork, Zenon
<1>4. reader' \in [pc : {"idle", "exists", "emplace"}, quorum : BlockOrNone, ret : BOOLEAN]
  <2>1. CASE \E q \in Quorums : ReaderLookup(q)
    <3>1. Quorums \subseteq BlockOrNone
      BY EvoBlocksAssumption, Zenon DEF Quorums, BlockOrNone
    <3> QED
      BY <2>1, <3>1 DEF ReaderLookup
  <2>2. CASE ReaderExists
    <3>1. reader' = [reader EXCEPT !.pc = "emplace",
                                   !.ret = CurView[MinedKey(reader.quorum)] # None]
      BY <2>2, Zenon DEF ReaderExists
    <3> QED
      BY <3>1, Zenon DEF Typed
  <2>3. CASE ReaderEmplace
    BY <2>3, Zenon DEF ReaderEmplace, BlockOrNone
  <2> QED
    BY <2>1, <2>2, <2>3, Zenon
<1>5. hasMinedCommitmentCache' \in [Blocks -> BOOLEAN \cup {None}]
  <2>1. CASE ReaderEmplace
    BY <2>1, Zenon DEF ReaderEmplace, Typed
  <2>2. CASE ~ReaderEmplace
    BY <2>2, Zenon DEF ReaderLookup, ReaderExists, cacheVars, Typed
  <2> QED
    BY <2>1, <2>2, Zenon
<1>6. Typed'
  BY <1>1, <1>4, <1>5, Zenon DEF Typed, chainVars
<1> QED
  BY <1>1, <1>3, <1>6, Zenon DEF Kept

\* A QFCOMMITMENT message.
LEMMA MessageStep ==
  ASSUME Typed, NEW d \in Blocks, NEW r \in Blocks, NEW c \in Blocks, Stands(d, r, c),
         (\E m \in Commitments : ReceiveCommitment(m)) \/ VerifyMessage
  PROVE  Kept
<1>1. CASE \E m \in Commitments : ReceiveCommitment(m)
  <2>1. PICK m \in Commitments : ReceiveCommitment(m)
    BY <1>1, Zenon
  <2>2. UNCHANGED <<dbVars, chainVars, work, reader, mnListsCache, hasMinedCommitmentCache, minable>>
        /\ message' = m
    BY <2>1, Zenon DEF ReceiveCommitment, cacheVars
  <2>3. CacheRight(mnListsCache', c)
    BY <2>2, Zenon DEF Stands
  <2>4. Standing'
    BY <2>2, <2>3, SameWork, Zenon
  <2>5. Typed'
    BY <2>2, Zenon DEF Typed, chainVars
  <2> QED
    BY <2>2, <2>4, <2>5, Zenon DEF Kept
<1>2. CASE VerifyMessage
  <2>1. /\ message # None /\ message' = None
        /\ UNCHANGED <<dbVars, chainVars, work, reader, hasMinedCommitmentCache>>
        /\ mnListsCache' = Cached(mnListsCache, CurView, QcQuorum[message])
        /\ minable' = IF Verify(mnListsCache, CurView, message)
                      THEN AddMinableCommitment(minable, message) ELSE minable
    BY <1>2, Zenon DEF VerifyMessage
  <2>2. message \in Commitments
    BY <2>1, Zenon DEF Typed
  <2>3. QcQuorum[message] \in Blocks
    BY <2>2, EvoBlocksAssumption, Zenon
  <2>4. CacheRight(mnListsCache', c)
    BY <2>1, <2>3, CachedRight, Zenon DEF Stands
  <2>5. Standing'
    BY <2>1, <2>4, SameWork, Zenon
  <2>6. minable' \in [Blocks -> Commitments \cup {None}]
    BY <2>1, <2>2, MinableTyped, Zenon DEF Typed
  <2>7. Typed'
    BY <2>1, <2>6, Zenon DEF Typed, chainVars
  <2> QED
    BY <2>1, <2>5, <2>7, Zenon DEF Kept
<1> QED
  BY <1>1, <1>2, Zenon

-----------------------------------------------------------------------------
(* The steps of the thread that holds cs_main. *)

\* Which case of the invariant an operation is in.
LEMMA AtWork ==
  ASSUME NEW r \in Blocks, NEW c \in Blocks, Working(r, c)
  PROVE  /\ work.op \in {"idle", "flush"} => Waiting(r, c) /\ work.block = None
         /\ work.op \in {"connect", "check", "refused", "checked", "connected"} =>
              work.block \in Blocks \ {Genesis} /\ Connecting(r, c, work.block)
         /\ work.op \in {"disconnect", "disconnected"} => Disconnecting(r, c)
<1>1. CASE Waiting(r, c)
  BY <1>1 DEF Waiting
<1>2. ASSUME NEW b \in Blocks \ {Genesis}, Connecting(r, c, b)
      PROVE  /\ work.op \in {"connect", "check", "refused", "checked", "connected"}
             /\ work.block \in Blocks \ {Genesis} /\ Connecting(r, c, work.block)
  BY <1>2, Zenon DEF Connecting
<1>3. CASE Disconnecting(r, c)
  BY <1>3, Zenon DEF Disconnecting
<1> QED
  BY <1>1, <1>2, <1>3, Zenon DEF Working

\* The lists that the checks ask for leave the cache right.
LEMMA AskedRight ==
  ASSUME NEW c, Readable(CurView, c), CacheRight(mnListsCache, c), NEW b \in Blocks
  PROVE  CacheRight(AskedLists(b), c)
<1> DEFINE quorum == IF Qc[b] \in Commitments THEN Cached(mnListsCache, CurView, QcQuorum[Qc[b]])
                     ELSE mnListsCache
<1>1. Qc[b] \in Commitments => QcQuorum[Qc[b]] \in Blocks
  BY EvoBlocksAssumption, Zenon
<1>2. CacheRight(quorum, c)
  BY <1>1, CachedRight, Zenon
<1>3. Parent[b] \in Blocks
  BY Tree, Zenon
<1>4. AskedLists(b) = IF Added[b] = {} THEN quorum ELSE Cached(quorum, CurView, Parent[b])
  BY Zenon DEF AskedLists
<1> HIDE DEF quorum
<1> QED
  BY <1>2, <1>3, <1>4, CachedRight, Zenon

\* The answers of HasMinedCommitment keep their kind.
LEMMA AnswerTyped ==
  ASSUME NEW cache \in [Blocks -> BOOLEAN \cup {None}], NEW db, NEW q
  PROVE  /\ WithAnswer(cache, db, q) \in [Blocks -> BOOLEAN \cup {None}]
         /\ [cache EXCEPT ![q] = None] \in [Blocks -> BOOLEAN \cup {None}]
<1>1. (db[MinedKey(q)] # None) \in BOOLEAN
  BY Zenon
<1> QED
  BY <1>1, Zenon DEF WithAnswer

\* ConnectTip and TestBlockValidity open the transaction.
LEMMA BeginConnectStep ==
  ASSUME DBInv, Typed, NEW d \in Blocks, NEW r \in Blocks, NEW c \in Blocks, Stands(d, r, c),
         NEW b \in Blocks, NEW op \in {"connect", "check"}, BeginConnect(b, op)
  PROVE  Kept
<1>1. /\ work = Idle /\ b # Genesis /\ Parent[b] = tip /\ CurView[BestKey] = [best |-> tip]
      /\ BeginTransaction /\ work' = [op |-> op, block |-> b]
      /\ UNCHANGED <<chainVars, mnListsCache, hasMinedCommitmentCache, minable, reader, message>>
  BY Zenon DEF BeginConnect, VerifyBestBlock, cacheVars, threadVars
<1>2. /\ DBNext /\ disk' = disk /\ RootView' = RootView /\ CurView' = CurView /\ inTx'
      /\ IsClean(cur')
  BY <1>1, BeginIs, Zenon
<1>3. Waiting(r, c)
  BY <1>1, AtWork, Zenon DEF Stands, Idle
<1>4. c = tip /\ r = tip
  <2>1. CurView[BestKey] = [best |-> c]
    BY Zenon DEF Stands, Readable
  <2>2. c = tip
    BY <1>1, <2>1, OneBest, Zenon
  <2> QED
    BY <1>3, <2>2, Zenon DEF Waiting
<1>5. Connecting(r, c, b)'
  BY <1>1, <1>2, <1>4, Zenon DEF Connecting, chainVars, IsClean
<1>6. Stands(d, r, c)'
  BY <1>1, <1>2, <1>5, Zenon DEF Stands, Working
<1>7. Typed'
  BY <1>1, Zenon DEF Typed, chainVars
<1> QED
  BY <1>2, <1>6, <1>7, Zenon DEF Kept, Standing

\* DisconnectTip opens it.
LEMMA BeginDisconnectStep ==
  ASSUME DBInv, Typed, NEW d \in Blocks, NEW r \in Blocks, NEW c \in Blocks, Stands(d, r, c),
         BeginDisconnect
  PROVE  Kept
<1>1. /\ work = Idle /\ tip # Genesis /\ CurView[BestKey] = [best |-> tip]
      /\ BeginTransaction /\ work' = [op |-> "disconnect", block |-> tip]
      /\ UNCHANGED <<chainVars, mnListsCache, hasMinedCommitmentCache, minable, reader, message>>
  BY Zenon DEF BeginDisconnect, VerifyBestBlock, cacheVars, threadVars
<1>2. /\ DBNext /\ disk' = disk /\ RootView' = RootView /\ CurView' = CurView /\ inTx'
      /\ IsClean(cur')
  BY <1>1, BeginIs, Zenon
<1>3. Waiting(r, c)
  BY <1>1, AtWork, Zenon DEF Stands, Idle
<1>4. c = tip /\ r = tip
  <2>1. CurView[BestKey] = [best |-> c]
    BY Zenon DEF Stands, Readable
  <2>2. c = tip
    BY <1>1, <2>1, OneBest, Zenon
  <2> QED
    BY <1>3, <2>2, Zenon DEF Waiting
<1>5. Disconnecting(r, c)'
  BY <1>1, <1>2, <1>4, Zenon DEF Disconnecting, chainVars, IsClean
<1>6. Stands(d, r, c)'
  BY <1>1, <1>2, <1>5, Zenon DEF Stands, Working
<1>7. Typed'
  BY <1>1, Zenon DEF Typed, chainVars
<1> QED
  BY <1>2, <1>6, <1>7, Zenon DEF Kept, Standing

\* ConnectBlock refuses the block before it writes anything.
LEMMA RefuseStep ==
  ASSUME DBInv, Typed, NEW d \in Blocks, NEW r \in Blocks, NEW c \in Blocks, Stands(d, r, c),
         RefuseCommitment \/ RefuseBlock
  PROVE  Kept
<1>1. /\ work.op \in {"connect", "check"}
      /\ mnListsCache' = AskedLists(work.block)
      /\ work' = [work EXCEPT !.op = IF @ = "connect" THEN "refused" ELSE "checked"]
      /\ UNCHANGED <<dbVars, chainVars, reader, message, minable>>
  BY Zenon DEF RefuseCommitment, RefuseBlock, threadVars
<1>2. PICK b \in Blocks \ {Genesis} : work.block = b /\ Connecting(r, c, b)
  BY <1>1, AtWork, Zenon DEF Stands
<1>3. /\ disk' = disk /\ RootView' = RootView /\ CurView' = CurView /\ inTx' = inTx
      /\ tip' = tip
  BY <1>1, Zenon DEF dbVars, chainVars, RootView, CurView
<1>4. CacheRight(mnListsCache', c)
  BY <1>1, <1>2, AskedRight, Zenon DEF Stands
<1>5. /\ work = [op |-> work.op, block |-> b] /\ Parent[b] = tip /\ inTx /\ r = tip /\ c = tip
  BY <1>1, <1>2, Zenon DEF Connecting
<1>6. work'.op \in {"refused", "checked"} /\ work' = [op |-> work'.op, block |-> b]
  BY <1>1, <1>5
<1>7. Connecting(r, c, b)'
  BY <1>3, <1>5, <1>6 DEF Connecting
<1>8. Stands(d, r, c)'
  BY <1>2, <1>3, <1>4, <1>7, Zenon DEF Stands, Working
<1>9. hasMinedCommitmentCache' \in [Blocks -> BOOLEAN \cup {None}]
  BY AnswerTyped DEF RefuseCommitment, RefuseBlock, Typed
<1>10. Typed'
  BY <1>1, <1>9, Zenon DEF Typed, chainVars
<1> QED
  BY <1>1, <1>8, <1>10, Zenon DEF Kept, Standing
\* TestBlockValidity writes the commitment of the block it checks.
LEMMA CheckStep ==
  ASSUME DBInv, Typed, NEW d \in Blocks, NEW r \in Blocks, NEW c \in Blocks, Stands(d, r, c),
         CheckBlock
  PROVE  Kept
<1>1. PICK b \in Blocks \ {Genesis} : work.block = b /\ Connecting(r, c, b)
  BY AtWork, Zenon DEF Stands, CheckBlock
<1>2. /\ work.op = "check"
      /\ Qc[b] \in Commitments => QcQuorum[Qc[b]] = QuorumOf(b)
      /\ Change(QcWrites(b), {})
      /\ hasMinedCommitmentCache' = MinedCacheAfter(b)
      /\ mnListsCache' = Cached(AskedLists(b), CurView, Parent[b])
      /\ work' = [work EXCEPT !.op = "checked"]
      /\ UNCHANGED <<chainVars, reader, message, minable>>
  BY <1>1, Zenon DEF CheckBlock, QcAccepted, threadVars
<1> DEFINE f == QcWrites(b)
<1>3. /\ f = [k \in DOMAIN f |-> f[k]]
      /\ Qc[b] \notin Commitments => DOMAIN f = {}
      /\ Qc[b] \in Commitments =>
           /\ DOMAIN f = {MinedKey(QcQuorum[Qc[b]]), HeightKey(Height[b])}
           /\ f[MinedKey(QcQuorum[Qc[b]])] = [qc |-> Qc[b], minedIn |-> b]
           /\ f[HeightKey(Height[b])] = [height |-> Height[QcQuorum[Qc[b]]]]
  BY <1>2, QcWritesAre, Zenon
<1>4. /\ DBNext /\ disk' = disk /\ RootView' = RootView /\ inTx'
      /\ \A k \in Keys : k \notin DOMAIN f => CurView'[k] = CurView[k]
  <2>1. Change(f, {})
    BY <1>2, Zenon
  <2> HIDE DEF f
  <2>2. ASSUME NEW k \in DOMAIN f PROVE k \in Keys /\ f[k] \in Values
    <3>1. Qc[b] \in Commitments
      BY <1>3, <2>2, Zenon
    <3>2. QcQuorum[Qc[b]] \in Quorums
      BY <3>1, Zenon DEF Quorums
    <3> QED
      BY <1>3, <2>2, <3>1, <3>2, StoredAssumption
  <2>3. f \in [DOMAIN f -> Values] /\ DOMAIN f \in SUBSET (Keys \ {}) /\ {} \in SUBSET Keys
    BY <1>3, <2>2, Zenon
  <2> QED
    BY <2>1, <2>3, ChangeIs
<1>5. \A x : DiffKey(x) \notin DOMAIN f /\ SnapshotKey(x) \notin DOMAIN f /\ BestKey \notin DOMAIN f
  <2> HIDE DEF f
  <2> QED
    BY <1>3, KeysApart, Zenon
<1> HIDE DEF f
<1>6. Readable(CurView', c)
  <2>1. /\ CurView'[BestKey] = CurView[BestKey]
        /\ \A x \in Blocks : /\ CurView'[DiffKey(x)] = CurView[DiffKey(x)]
                             /\ CurView'[SnapshotKey(x)] = CurView[SnapshotKey(x)]
    BY <1>4, <1>5, StoredAssumption, Zenon
  <2>2. Readable(CurView, c)
    BY Zenon DEF Stands
  <2> QED
    BY <2>1, <2>2, Tree, Zenon DEF Readable
<1>7. CacheRight(mnListsCache', c)
  <2>1. Parent[b] \in Blocks /\ CacheRight(AskedLists(b), c)
    BY AskedRight, Tree, Zenon DEF Stands
  <2> QED
    BY <1>2, <2>1, CachedRight, Zenon DEF Stands
<1>8. /\ work = [op |-> work.op, block |-> b] /\ Parent[b] = tip /\ r = tip /\ c = tip
  BY <1>1, <1>2, Zenon DEF Connecting
<1>9. work' = [op |-> "checked", block |-> b]
  BY <1>2, <1>8
<1>10. Connecting(r, c, b)'
  BY <1>2, <1>4, <1>8, <1>9 DEF Connecting, chainVars
<1>11. Stands(d, r, c)'
  BY <1>4, <1>6, <1>7, <1>10, Zenon DEF Stands, Working
<1>12. hasMinedCommitmentCache' \in [Blocks -> BOOLEAN \cup {None}]
  BY <1>2, AnswerTyped, Zenon DEF MinedCacheAfter, Typed
<1>13. Typed'
  BY <1>2, <1>12, Zenon DEF Typed, chainVars
<1> QED
  BY <1>4, <1>11, <1>13, Zenon DEF Kept, Standing

\* What a run of writes that holds block b leaves in the transaction's view.
LEMMA WrittenView ==
  ASSUME DBInv, NEW b \in Blocks, NEW f, WritesBlock(f, b), Change(f, {})
  PROVE  /\ DBNext /\ disk' = disk /\ RootView' = RootView /\ inTx'
         /\ AddsList(CurView, CurView', b) /\ AddsCommitment(CurView, CurView', b)
         /\ BestKey \in DOMAIN f => CurView'[BestKey] = f[BestKey]
         /\ BestKey \notin DOMAIN f => CurView'[BestKey] = CurView[BestKey]
<1>1. f \in [DOMAIN f -> Values] /\ DOMAIN f \in SUBSET (Keys \ {}) /\ {} \in SUBSET Keys
  BY Zenon DEF WritesBlock
<1>2. /\ DBNext /\ disk' = disk /\ RootView' = RootView /\ inTx'
      /\ \A k \in Keys : CurView'[k] = IF k \in DOMAIN f THEN f[k]
                                       ELSE IF k \in {} THEN None ELSE CurView[k]
  BY <1>1, ChangeIs
<1>3. \A k \in Keys : CurView'[k] = IF k \in DOMAIN f THEN f[k] ELSE CurView[k]
  BY <1>2, Zenon
<1>4. /\ BestKey \in Keys /\ \A q \in Quorums : MinedKey(q) \in Keys
      /\ \A x \in Blocks : DiffKey(x) \in Keys /\ SnapshotKey(x) \in Keys
  BY StoredAssumption, Zenon
<1>5. AddsList(CurView, CurView', b)
  BY <1>3, <1>4, Zenon DEF AddsList, WritesBlock
<1>6. AddsCommitment(CurView, CurView', b)
  <2>1. Qc[b] \in Commitments => QcQuorum[Qc[b]] \in Quorums
    BY Zenon DEF Quorums
  <2> QED
    BY <1>3, <1>4, <2>1, Zenon DEF AddsCommitment, WritesBlock
<1> QED
  BY <1>2, <1>3, <1>4, <1>5, <1>6, Zenon

\* ConnectBlock.
LEMMA ConnectStep ==
  ASSUME DBInv, Typed, NEW d \in Blocks, NEW r \in Blocks, NEW c \in Blocks, Stands(d, r, c),
         ConnectBlock
  PROVE  Kept
<1>1. PICK b \in Blocks \ {Genesis} : work.block = b /\ Connecting(r, c, b)
  BY AtWork, Zenon DEF Stands, ConnectBlock
<1> DEFINE cache == Cached(AskedLists(b), CurView, Parent[b])
           writes == WritesOf(QcWrites(b), ListWrites(cache, CurView, b))
<1>2. /\ work.op = "connect"
      /\ Qc[b] \in Commitments => QcQuorum[Qc[b]] = QuorumOf(b)
      /\ IF b \in BadBlocks
         THEN Change(writes, {}) /\ work' = [work EXCEPT !.op = "refused"]
         ELSE Change(WritesOf(writes, BestWrite(b)), {}) /\ work' = [work EXCEPT !.op = "connected"]
      /\ hasMinedCommitmentCache' = MinedCacheAfter(b)
      /\ mnListsCache' = CleanupCache(cache, Height[b])
      /\ UNCHANGED <<chainVars, reader, message, minable>>
  BY <1>1, Zenon DEF ConnectBlock, QcAccepted, threadVars
<1>3. /\ work = [op |-> work.op, block |-> b] /\ Parent[b] = tip /\ r = tip /\ c = tip /\ IsClean(cur)
  BY <1>1, <1>2, Zenon DEF Connecting
<1>4. CurView = RootView
  BY <1>3, Views, Zenon
<1>5. Exact(CurView, Parent[b]) /\ Readable(CurView, c)
  BY <1>3, <1>4, Zenon DEF Stands
<1>6. CacheRight(cache, c)
  <2>1. Parent[b] \in Blocks /\ CacheRight(AskedLists(b), c)
    BY AskedRight, Tree, Zenon DEF Stands
  <2> QED
    BY <1>5, <2>1, CachedRight, Zenon
<1>7. GetListForBlock(cache, CurView, Parent[b]) = ListAfter(Parent[b])
  <2>1. Parent[b] \in ChainOf[c]
    BY <1>3, Tree, Zenon
  <2> HIDE DEF cache
  <2> QED
    BY <1>5, <1>6, <2>1, RightList, Zenon
<1> HIDE DEF cache
<1>8. WritesBlock(writes, b) /\ BestKey \notin DOMAIN writes
  BY <1>2, <1>7, BlockWritten, Zenon
<1> HIDE DEF writes
<1>9. ASSUME NEW any PROVE CacheRight(mnListsCache', any)
  BY <1>2, <1>6, CleanupRight, Zenon
<1>10. Typed'
  <2>1. hasMinedCommitmentCache' \in [Blocks -> BOOLEAN \cup {None}]
    BY <1>2, AnswerTyped, Zenon DEF MinedCacheAfter, Typed
  <2> QED
    BY <1>2, <2>1, Zenon DEF Typed, chainVars
<1>11. CASE b \in BadBlocks
  <2>1. Change(writes, {}) /\ work' = [work EXCEPT !.op = "refused"]
    BY <1>2, <1>11, Zenon
  <2>2. /\ DBNext /\ disk' = disk /\ RootView' = RootView /\ inTx'
        /\ AddsList(CurView, CurView', b) /\ CurView'[BestKey] = CurView[BestKey]
    BY <1>8, <2>1, WrittenView, Zenon
  <2>3. Readable(CurView', c)
    BY <1>3, <1>5, <2>2, AddedReadable, Zenon
  <2>4. work' = [op |-> "refused", block |-> b]
    BY <1>3, <2>1
  <2>5. Connecting(r, c, b)'
    BY <1>2, <1>3, <2>2, <2>4, Zenon DEF Connecting, chainVars
  <2>6. Stands(d, r, c)'
    BY <1>9, <2>2, <2>3, <2>5, Zenon DEF Stands, Working
  <2> QED
    BY <1>10, <2>2, <2>6, Zenon DEF Kept, Standing
<1>12. CASE b \notin BadBlocks
  <2> DEFINE f == WritesOf(writes, BestWrite(b))
  <2>1. Change(f, {}) /\ work' = [work EXCEPT !.op = "connected"]
    BY <1>2, <1>12, Zenon
  <2>2. WritesBlock(f, b) /\ BestKey \in DOMAIN f /\ f[BestKey] = [best |-> b]
    BY <1>8, BestWritten, Zenon
  <2> HIDE DEF f
  <2>3. /\ DBNext /\ disk' = disk /\ RootView' = RootView /\ inTx'
        /\ AddsList(CurView, CurView', b) /\ AddsCommitment(CurView, CurView', b)
        /\ CurView'[BestKey] = [best |-> b]
    BY <2>1, <2>2, WrittenView, Zenon
  <2>4. Exact(CurView', b)
    BY <1>5, <2>3, AddedExact, Zenon
  <2>5. work' = [op |-> "connected", block |-> b]
    BY <1>3, <2>1
  <2>6. Connecting(r, b, b)'
    BY <1>2, <1>3, <2>3, <2>4, <2>5, Zenon DEF Connecting, chainVars
  <2>7. Readable(CurView', b)
    BY <2>4, Zenon DEF Exact
  <2>8. Stands(d, r, b)'
    BY <1>9, <2>3, <2>6, <2>7, Zenon DEF Stands, Working
  <2> QED
    BY <1>10, <2>3, <2>8, Zenon DEF Kept, Standing
<1> QED
  BY <1>11, <1>12, Zenon

\* The transaction of a refused or checked block is rolled back.
LEMMA RollbackStep ==
  ASSUME DBInv, Typed, NEW d \in Blocks, NEW r \in Blocks, NEW c \in Blocks, Stands(d, r, c),
         GiveUpConnect \/ EndCheck
  PROVE  Kept
<1>1. /\ work.op \in {"refused", "checked"} /\ Rollback /\ work' = Idle
      /\ UNCHANGED <<chainVars, mnListsCache, hasMinedCommitmentCache, minable, reader, message>>
  BY Zenon DEF GiveUpConnect, EndCheck, cacheVars, threadVars
<1>2. PICK b \in Blocks \ {Genesis} : Connecting(r, c, b)
  BY <1>1, AtWork, Zenon DEF Stands
<1>3. c = r
  BY <1>1, <1>2, Zenon DEF Connecting
<1>4. DBNext /\ disk' = disk /\ RootView' = RootView /\ CurView' = RootView /\ ~inTx'
  BY <1>1, RollbackIs, Zenon
<1>5. Waiting(r, c)'
  BY <1>1, <1>3, <1>4, Zenon DEF Waiting, Idle
<1>6. Stands(d, r, c)'
  BY <1>1, <1>3, <1>4, <1>5, Zenon DEF Stands, Working, Exact
<1>7. Typed'
  BY <1>1, Zenon DEF Typed, chainVars
<1> QED
  BY <1>4, <1>6, <1>7, Zenon DEF Kept, Standing

\* The transaction of a connected or disconnected block is committed.
LEMMA CommitStep ==
  ASSUME DBInv, Typed, NEW d \in Blocks, NEW r \in Blocks, NEW c \in Blocks, Stands(d, r, c),
         EndConnect \/ EndDisconnect
  PROVE  Kept
<1>1. /\ CommitTransaction /\ work' = Idle
      /\ UNCHANGED <<coinsDisk, mnListsCache, hasMinedCommitmentCache, minable, reader, message>>
  BY Zenon DEF EndConnect, EndDisconnect, cacheVars, threadVars
<1>2. DBNext /\ disk' = disk /\ RootView' = CurView /\ CurView' = CurView /\ ~inTx'
  BY <1>1, CommitIs, Zenon
<1>3. Exact(CurView, c) /\ tip' = c /\ tips' = tips \cup {c}
  <2>1. CASE EndConnect
    <3>1. work.op = "connected" /\ tip' = work.block /\ tips' = tips \cup {work.block}
      BY <2>1, Zenon DEF EndConnect
    <3>2. Connecting(r, c, work.block)
      BY <3>1, AtWork, Zenon DEF Stands
    <3> QED
      BY <3>1, <3>2, Zenon DEF Connecting
  <2>2. CASE EndDisconnect
    <3>1. work.op = "disconnected" /\ tip' = Parent[work.block] /\ tips' = tips \cup {tip'}
      BY <2>2, Zenon DEF EndDisconnect
    <3>2. Disconnecting(r, c)
      BY <3>1, AtWork, Zenon DEF Stands
    <3> QED
      BY <3>1, <3>2, Zenon DEF Disconnecting
  <2> QED
    BY <2>1, <2>2, Zenon
<1>4. Waiting(c, c)'
  BY <1>1, <1>2, Zenon DEF Waiting, Idle
<1>5. Stands(d, c, c)'
  BY <1>1, <1>2, <1>3, <1>4, Zenon DEF Stands, Working
<1>6. Typed'
  BY <1>1, <1>3, Zenon DEF Typed
<1> QED
  BY <1>2, <1>5, <1>6, Zenon DEF Kept, Standing

\* DisconnectBlock.
LEMMA DisconnectStep ==
  ASSUME DBInv, Typed, NEW d \in Blocks, NEW r \in Blocks, NEW c \in Blocks, Stands(d, r, c),
         DisconnectBlock
  PROVE  Kept
<1>1. /\ work.op = "disconnect" /\ Disconnecting(r, c)
  BY AtWork, Zenon DEF Stands, DisconnectBlock
<1>2. PICK b \in Blocks \ {Genesis} :
        /\ b = tip /\ r = b /\ c = b /\ work = [op |-> work.op, block |-> b] /\ work.block = b
        /\ IsClean(cur)
  BY <1>1, Zenon DEF Disconnecting
<1> DEFINE cache == IF HasChanges(CurView[DiffKey(b)])
                    THEN Cached(Cached(mnListsCache, CurView, b), CurView, Parent[b])
                    ELSE mnListsCache
           e == {DiffKey(b), SnapshotKey(b)}
                  \cup (IF Qc[b] \in Commitments
                        THEN {MinedKey(QcQuorum[Qc[b]]), HeightKey(Height[b])} ELSE {})
           f == BestWrite(Parent[b])
<1>3. /\ Change(f, e)
      /\ mnListsCache' = [cache EXCEPT ![b] = None]
      /\ IF Qc[b] \in Commitments
         THEN /\ hasMinedCommitmentCache' = [hasMinedCommitmentCache EXCEPT ![QcQuorum[Qc[b]]] = None]
              /\ minable' = AddMinableCommitment(minable, Qc[b])
         ELSE UNCHANGED <<hasMinedCommitmentCache, minable>>
      /\ work' = [work EXCEPT !.op = "disconnected"]
      /\ UNCHANGED <<chainVars, reader, message>>
  BY <1>2, Zenon DEF DisconnectBlock, threadVars
<1>4. CurView = RootView /\ Exact(CurView, b) /\ Readable(CurView, b)
  BY <1>2, Views, Zenon DEF Stands
<1>5. Parent[b] \in Blocks /\ ChainOf[Parent[b]] \subseteq ChainOf[b]
  BY Tree, Zenon
<1>6. CacheRight(mnListsCache', Parent[b])
  <2>1. CacheRight(Cached(mnListsCache, CurView, b), b)
    BY <1>2, <1>4, CachedRight, Zenon DEF Stands
  <2>2. CacheRight(Cached(Cached(mnListsCache, CurView, b), CurView, Parent[b]), b)
    BY <1>4, <1>5, <2>1, CachedRight, Zenon
  <2>3. CacheRight(cache, b)
    BY <1>2, <2>2, Zenon DEF Stands
  <2> HIDE DEF cache
  <2> QED
    BY <1>3, <1>5, <2>3, DroppedRight, Zenon
<1> HIDE DEF cache
<1>7. f = [k \in {BestKey} |-> [best |-> Parent[b]]] /\ f \in [{BestKey} -> Values]
  BY <1>5, StoredAssumption, Zenon DEF BestWrite
<1>8. e \in SUBSET Keys /\ BestKey \notin e
  <2>1. Qc[b] \in Commitments => QcQuorum[Qc[b]] \in Quorums
    BY Zenon DEF Quorums
  <2>2. DiffKey(b) \in Keys /\ SnapshotKey(b) \in Keys
    BY StoredAssumption, Zenon
  <2>3. Qc[b] \in Commitments => MinedKey(QcQuorum[Qc[b]]) \in Keys /\ HeightKey(Height[b]) \in Keys
    BY <2>1, StoredAssumption, Zenon
  <2> QED
    BY <2>2, <2>3, KeysApart, Zenon
<1>9. /\ DiffKey(b) \in e /\ SnapshotKey(b) \in e
      /\ \A x \in Blocks \ {b} : DiffKey(x) \notin e /\ SnapshotKey(x) \notin e
      /\ \A q \in Quorums : MinedKey(q) \in e <=> Mines(b, q)
  BY KeysApart, Zenon DEF Mines
<1> HIDE DEF e, f
<1>10. /\ DBNext /\ disk' = disk /\ RootView' = RootView /\ inTx'
       /\ \A k \in Keys : CurView'[k] = IF k \in {BestKey} THEN f[k]
                                        ELSE IF k \in e THEN None ELSE CurView[k]
  <2>1. {BestKey} \in SUBSET (Keys \ e)
    BY <1>8, StoredAssumption, Zenon
  <2> QED
    BY <1>3, <1>7, <1>8, <2>1, ChangeIs
<1>11. TakesBack(CurView, CurView', b)
  <2>1. /\ BestKey \in Keys /\ \A q \in Quorums : MinedKey(q) \in Keys /\ MinedKey(q) # BestKey
        /\ \A x \in Blocks : /\ DiffKey(x) \in Keys /\ SnapshotKey(x) \in Keys
                             /\ DiffKey(x) # BestKey /\ SnapshotKey(x) # BestKey
    BY StoredAssumption, KeysApart, Zenon
  <2>2. CurView'[BestKey] = [best |-> Parent[b]]
    BY <1>7, <1>10, <2>1, Zenon
  <2>3. CurView'[DiffKey(b)] = None /\ CurView'[SnapshotKey(b)] = None
    BY <1>9, <1>10, <2>1, Zenon
  <2>4. \A x \in Blocks \ {b} : /\ CurView'[DiffKey(x)] = CurView[DiffKey(x)]
                                /\ CurView'[SnapshotKey(x)] = CurView[SnapshotKey(x)]
    BY <1>9, <1>10, <2>1, Zenon
  <2>5. \A q \in Quorums : CurView'[MinedKey(q)] = IF Mines(b, q) THEN None ELSE CurView[MinedKey(q)]
    BY <1>9, <1>10, <2>1, Zenon
  <2> QED
    BY <2>2, <2>3, <2>4, <2>5, Zenon DEF TakesBack
<1>12. Exact(CurView', Parent[b])
  BY <1>4, <1>11, TakenBackExact, Zenon
<1>13. work' = [op |-> "disconnected", block |-> b]
  BY <1>2, <1>3, Zenon
<1>14. Disconnecting(r, Parent[b])'
  BY <1>2, <1>3, <1>10, <1>12, <1>13, Zenon DEF Disconnecting, chainVars
<1>15. Readable(CurView', Parent[b])
  BY <1>12, Zenon DEF Exact
<1>16. Stands(d, r, Parent[b])'
  BY <1>6, <1>10, <1>14, <1>15, Zenon DEF Stands, Working
<1>17. Typed'
  <2>1. hasMinedCommitmentCache' \in [Blocks -> BOOLEAN \cup {None}]
    BY <1>3, AnswerTyped, Zenon DEF Typed
  <2>2. minable' \in [Blocks -> Commitments \cup {None}]
    BY <1>3, MinableTyped DEF Typed
  <2> QED
    BY <1>3, <2>1, <2>2, Zenon DEF Typed, chainVars
<1> QED
  BY <1>5, <1>10, <1>16, <1>17, Zenon DEF Kept, Standing

\* FlushStateToDisk, in its two steps.
LEMMA FlushStep ==
  ASSUME DBInv, Typed, NEW d \in Blocks, NEW r \in Blocks, NEW c \in Blocks, Stands(d, r, c),
         FlushCoins \/ FlushEvoDB
  PROVE  Kept
<1>1. CASE FlushCoins
  <2>1. /\ work = Idle /\ coinsDisk' = tip /\ work' = [op |-> "flush", block |-> None]
        /\ UNCHANGED <<dbVars, tip, tips, mnListsCache, hasMinedCommitmentCache, minable, reader, message>>
    BY <1>1, Zenon DEF FlushCoins, cacheVars, threadVars
  <2>2. Waiting(r, c)
    BY <2>1, AtWork, Zenon DEF Stands, Idle
  <2>3. disk' = disk /\ RootView' = RootView /\ CurView' = CurView /\ inTx' = inTx
    BY <2>1, Zenon DEF dbVars, RootView, CurView
  <2>4. Waiting(r, c)'
    BY <2>1, <2>2, <2>3, Zenon DEF Waiting
  <2>5. Stands(d, r, c)'
    BY <2>1, <2>3, <2>4, Zenon DEF Stands, Working
  <2>6. Typed'
    BY <2>1, Zenon DEF Typed
  <2> QED
    BY <2>1, <2>5, <2>6, Zenon DEF Kept, Standing
<1>2. CASE FlushEvoDB
  <2>1. /\ work.op = "flush" /\ CommitRootTransaction /\ work' = Idle
        /\ UNCHANGED <<chainVars, mnListsCache, hasMinedCommitmentCache, minable, reader, message>>
    BY <1>2, Zenon DEF FlushEvoDB, cacheVars, threadVars
  <2>2. Waiting(r, c)
    BY <2>1, AtWork, Zenon DEF Stands
  <2>3. DBNext /\ disk' = RootView /\ RootView' = RootView /\ CurView' = CurView /\ ~inTx'
    BY <2>1, FlushIs, Zenon
  <2>4. Waiting(r, c)'
    BY <2>1, <2>2, <2>3, Zenon DEF Waiting, Idle
  <2>5. Stands(r, r, c)'
    BY <2>1, <2>3, <2>4, Zenon DEF Stands, Working
  <2>6. Typed'
    BY <2>1, Zenon DEF Typed, chainVars
  <2> QED
    BY <2>3, <2>5, <2>6, Zenon DEF Kept, Standing
<1> QED
  BY <1>1, <1>2, Zenon

\* A crash and the restart after it.
LEMMA CrashStep ==
  ASSUME DBInv, Typed, NEW d \in Blocks, NEW r \in Blocks, NEW c \in Blocks, Stands(d, r, c),
         CrashRestart
  PROVE  Kept
<1>1. /\ Crash /\ tip' = coinsDisk /\ tips' = {coinsDisk} /\ coinsDisk' = coinsDisk
      /\ mnListsCache' = [b \in Blocks |-> None]
      /\ hasMinedCommitmentCache' = [b \in Blocks |-> None]
      /\ minable' = [b \in Blocks |-> None]
      /\ work' = Idle /\ message' = None
      /\ reader' = [pc |-> "idle", quorum |-> None, ret |-> FALSE]
  BY Zenon DEF CrashRestart
<1>2. DBNext /\ disk' = disk /\ RootView' = disk /\ CurView' = disk /\ ~inTx'
  BY <1>1, CrashIs, Zenon
<1>3. CacheRight(mnListsCache', d)
  BY <1>1, Zenon DEF CacheRight
<1>4. Waiting(d, d)'
  BY <1>1, <1>2, Zenon DEF Waiting, Idle
<1>5. Stands(d, d, d)'
  BY <1>2, <1>3, <1>4, Zenon DEF Stands, Working, Exact
<1>6. Typed'
  BY <1>1, Zenon DEF Typed, BlockOrNone
<1> QED
  BY <1>2, <1>5, <1>6, Zenon DEF Kept, Standing

-----------------------------------------------------------------------------
(* The theorems. *)

\* A node that has just written Genesis satisfies the invariant.
LEMMA InitInv == Init => DBInit /\ IndInv
<1> SUFFICES ASSUME Init PROVE DBInit /\ IndInv
  BY Zenon
<1>1. disk = [k \in Keys |-> IF k = BestKey THEN [best |-> Genesis] ELSE None]
      /\ root = Clean /\ cur = Clean /\ inTx = FALSE
  BY Zenon DEF Init
<1>2. Genesis \in Blocks /\ ChainOf[Genesis] = {Genesis}
  BY Tree, Zenon
<1>3. DBInit
  BY <1>1, <1>2, StoredAssumption, Zenon DEF DBInit, Stored
<1>4. DBInv
  BY <1>3, DBInitInv, Zenon
<1>5. RootView = disk /\ CurView = disk
  <2>1. RootView = disk
    BY <1>1, <1>4, Views, CleanView, Zenon DEF RootView
  <2> QED
    BY <1>1, <1>4, <2>1, Views, Zenon DEF IsClean
<1>6. Typed
  BY <1>2, Zenon DEF Init, Typed, BlockOrNone
<1>7. /\ disk[BestKey] = [best |-> Genesis]
      /\ \A c \in Blocks : disk[DiffKey(c)] = None /\ disk[SnapshotKey(c)] = None
      /\ \A q \in Quorums : disk[MinedKey(q)] = None
  BY <1>1, StoredAssumption, KeysApart, Zenon
<1>8. Readable(disk, Genesis)
  BY <1>2, <1>7, Zenon DEF Readable
<1>9. MinedRight(disk, Genesis)
  <2>1. \A q \in Quorums : ~Mines(Genesis, q)
    BY EvoBlocksAssumption, Zenon DEF Mines
  <2> QED
    BY <1>2, <1>7, <2>1, Zenon DEF MinedRight
<1>10. Exact(disk, Genesis)
  BY <1>7, <1>8, <1>9, Zenon DEF Exact
<1>11. CacheRight(mnListsCache, Genesis)
  BY Zenon DEF Init, CacheRight
<1>12. Waiting(Genesis, Genesis)
  BY Zenon DEF Init, Waiting, Idle
<1>13. Stands(Genesis, Genesis, Genesis)
  BY <1>5, <1>8, <1>10, <1>11, <1>12, Zenon DEF Stands, Working
<1> QED
  BY <1>2, <1>3, <1>4, <1>6, <1>13, Zenon DEF IndInv, Standing
\* Every step keeps it, and is a step of the database or leaves it alone.
LEMMA NextInv == IndInv /\ [Next]_vars => [DBNext]_dbVars /\ IndInv'
<1> SUFFICES ASSUME IndInv, [Next]_vars PROVE [DBNext]_dbVars /\ IndInv'
  BY Zenon
<1>1. DBInv /\ Typed
  BY Zenon DEF IndInv
<1>2. PICK d \in Blocks, r \in Blocks, c \in Blocks : Stands(d, r, c)
  BY Zenon DEF IndInv, Standing
<1> SUFFICES Kept
  BY <1>1, DBNextInv, Zenon DEF Kept, IndInv
<1>3. CASE \E b \in Blocks, op \in {"connect", "check"} : BeginConnect(b, op)
  BY <1>1, <1>2, <1>3, BeginConnectStep, Zenon
<1>4. CASE RefuseCommitment \/ RefuseBlock
  BY <1>1, <1>2, <1>4, RefuseStep, Zenon
<1>5. CASE CheckBlock
  BY <1>1, <1>2, <1>5, CheckStep, Zenon
<1>6. CASE ConnectBlock
  BY <1>1, <1>2, <1>6, ConnectStep, Zenon
<1>7. CASE GiveUpConnect \/ EndCheck
  BY <1>1, <1>2, <1>7, RollbackStep, Zenon
<1>8. CASE EndConnect \/ EndDisconnect
  BY <1>1, <1>2, <1>8, CommitStep, Zenon
<1>9. CASE BeginDisconnect
  BY <1>1, <1>2, <1>9, BeginDisconnectStep, Zenon
<1>10. CASE DisconnectBlock
  BY <1>1, <1>2, <1>10, DisconnectStep, Zenon
<1>11. CASE FlushCoins \/ FlushEvoDB
  BY <1>1, <1>2, <1>11, FlushStep, Zenon
<1>12. CASE CrashRestart
  BY <1>1, <1>2, <1>12, CrashStep, Zenon
<1>13. CASE \E b \in Blocks : GetListAtChainTip(b)
  BY <1>1, <1>2, <1>13, GetListStep, Zenon
<1>14. CASE (\E q \in Quorums : ReaderLookup(q)) \/ ReaderExists \/ ReaderEmplace
  BY <1>1, <1>2, <1>14, ReaderStep, Zenon
<1>15. CASE (\E m \in Commitments : ReceiveCommitment(m)) \/ VerifyMessage
  BY <1>1, <1>2, <1>15, MessageStep, Zenon
<1>16. CASE UNCHANGED vars
  <2>1. /\ UNCHANGED <<dbVars, chainVars, work>>
        /\ UNCHANGED <<mnListsCache, hasMinedCommitmentCache, minable, reader, message>>
    BY <1>16, Zenon DEF vars, cacheVars, threadVars
  <2>2. CacheRight(mnListsCache', c)
    BY <1>2, <2>1, Zenon DEF Stands
  <2>3. Standing'
    BY <1>2, <2>1, <2>2, SameWork, Zenon
  <2>4. Typed'
    BY <1>1, <2>1, Zenon DEF Typed, chainVars
  <2> QED
    BY <2>1, <2>3, <2>4, Zenon DEF Kept
<1> QED
  BY <1>3, <1>4, <1>5, <1>6, <1>7, <1>8, <1>9, <1>10, <1>11, <1>12, <1>13, <1>14, <1>15, <1>16, Zenon
     DEF Next

\* The invariant holds in every reachable state.
THEOREM Invariance == Spec => []IndInv
BY InitInv, NextInv, PTL DEF Spec

\* Every variable keeps its type; what GetListForBlock puts into mnListsCache is
\* always a list with a height.
THEOREM TypeCorrect == Spec => []TypeOK
<1>1. IndInv => TypeOK
  <2> SUFFICES ASSUME IndInv PROVE TypeOK
    BY Zenon
  <2>1. PICK d \in Blocks, r \in Blocks, c \in Blocks : Stands(d, r, c)
    BY Zenon DEF IndInv, Standing
  <2>2. DBTypeOK /\ Typed
    BY Zenon DEF IndInv, DBInv
  <2>3. work.block \in BlockOrNone
    <3>1. \/ Waiting(r, c) \/ \E b \in Blocks \ {Genesis} : Connecting(r, c, b)
          \/ Disconnecting(r, c)
      BY <2>1, Zenon DEF Stands, Working
    <3>2. Waiting(r, c) => work.block \in BlockOrNone
      BY DEF Waiting, BlockOrNone
    <3>3. \A b \in Blocks : Connecting(r, c, b) => work.block \in BlockOrNone
      BY Zenon DEF Connecting, BlockOrNone
    <3>4. Disconnecting(r, c) => work.block \in BlockOrNone
      BY <2>2, Zenon DEF Disconnecting, BlockOrNone, Typed
    <3> QED
      BY <3>1, <3>2, <3>3, <3>4, Zenon
  <2>4. ASSUME NEW b \in Blocks PROVE mnListsCache[b] = None \/ mnListsCache[b].nHeight \in Int
    <3>1. mnListsCache[b] \in {None, EmptyList, ListAfter(b)}
      BY <2>1, Zenon DEF Stands, CacheRight
    <3>2. EmptyList.nHeight \in Int
      BY DEF EmptyList
    <3> QED
      BY <3>1, <3>2, ListHeight, Zenon
  <2> QED
    BY <2>2, <2>3, <2>4, Zenon DEF TypeOK, Typed
<1> QED
  BY Invariance, <1>1, PTL

\* If no chain has two commitments for one quorum, then whatever blocks are
\* connected, disconnected, refused, checked, flushed or lost in a crash, the
\* database and the committed transactions above it hold exactly what the chain
\* up to their best block put there.  The condition is needed: when the answer of
\* HasMinedCommitment is stale, ProcessBlock accepts a second commitment, which
\* replaces the first, and UndoBlock then erases both.
THEOREM StoreMatchesChainHolds == Spec => [](OneCommitmentPerQuorum => StoreMatchesChain)
<1>1. IndInv => (OneCommitmentPerQuorum => StoreMatchesChain)
  BY ExactMatches, Zenon DEF IndInv, Standing, Stands, StoreMatchesChain
<1> QED
  BY Invariance, <1>1, PTL

\* A thread that asks GetListForBlock for the masternode list of a block of the
\* chain gets the list that the blocks up to it make, whatever other threads put
\* into mnListsCache while blocks were tried, refused and taken back.
THEOREM ListsCorrectHolds == Spec => []ListsCorrect
<1>1. IndInv => ListsCorrect
  <2> SUFFICES ASSUME IndInv, VerifyBestBlock(tip), NEW b \in ChainOf[tip]
               PROVE  GetListForBlock(mnListsCache, RootView, b) = ListAfter(b)
    BY Zenon DEF ListsCorrect
  <2>1. PICK d \in Blocks, r \in Blocks, c \in Blocks : Stands(d, r, c)
    BY Zenon DEF IndInv, Standing
  <2>2. c = tip
    <3>1. CurView[BestKey] = [best |-> c] /\ CurView[BestKey] = [best |-> tip]
      BY <2>1, Zenon DEF Stands, Readable, VerifyBestBlock
    <3> QED
      BY <3>1, OneBest, Zenon
  <2>3. r = tip
    <3>1. CASE Waiting(r, c)
      BY <2>2, <3>1, Zenon DEF Waiting
    <3>2. CASE \E x \in Blocks \ {Genesis} : Connecting(r, c, x)
      BY <3>2, Zenon DEF Connecting
    <3>3. CASE Disconnecting(r, c)
      BY <3>3, Zenon DEF Disconnecting
    <3> QED
      BY <2>1, <3>1, <3>2, <3>3, Zenon DEF Stands, Working
  <2>4. Readable(RootView, tip) /\ CacheRight(mnListsCache, tip) /\ tip \in Blocks
    BY <2>1, <2>2, <2>3, Zenon DEF Stands, Exact
  <2> QED
    BY <2>4, RightList, Zenon
<1> QED
  BY Invariance, <1>1, PTL

\* Whatever ConnectTip, DisconnectTip, TestBlockValidity and FlushStateToDisk do,
\* CEvoDB is to them a store with atomic transactions.
THEOREM BlocksUseStore == Spec => StoreSpec
<1>1. Init => Store!StoreInit
  BY InitInv, InitSimulation, Zenon
<1>2. IndInv /\ IndInv' /\ [Next]_vars => [Store!StoreNext]_Store!storeVars
  BY NextInv, StepSimulation, Zenon DEF IndInv
<1> QED
  BY <1>1, <1>2, Invariance, PTL DEF Spec, StoreSpec, Store!StoreSpec
=============================================================================
