------------------------------- MODULE EvoDB -------------------------------
(***************************************************************************)
(* CEvoDB (evo/evodb.cpp): two CDBTransaction layers (dbwrapper.h) over a  *)
(* LevelDB.  Writes go to curDBTransaction.  Committing it moves its       *)
(* changes into rootDBTransaction, and CommitRootTransaction moves those   *)
(* into the database in one batch.  A layer keeps its writes and its       *)
(* deletes apart; a key that is in neither is looked up in the layer       *)
(* below.                                                                  *)
(*                                                                         *)
(* The operations are actions on cur, root and disk, for the modules that  *)
(* use the database to conjoin with their own state.                       *)
(***************************************************************************)
EXTENDS Naturals

CONSTANTS Keys, Values,
          None           \* no value

ASSUME EvoDBAssumption == None \notin Values

Stored == Values \cup {None}

Layers == [writes : [Keys -> Stored], deletes : SUBSET Keys]

\* A layer after Clear.
Clean == [writes |-> [k \in Keys |-> None], deletes |-> {}]

IsClean(t) == t = Clean

VARIABLES disk,    \* db
          root,    \* rootDBTransaction
          cur,     \* curDBTransaction
          inTx     \* a CScopedDBTransaction of cur is alive

dbVars == <<disk, root, cur, inTx>>

DBTypeOK ==
  /\ disk \in [Keys -> Stored]
  /\ root \in Layers
  /\ cur \in Layers
  /\ inTx \in BOOLEAN

DBInit ==
  /\ disk \in [Keys -> Stored]
  /\ root = Clean
  /\ cur = Clean
  /\ inTx = FALSE

\* CDBTransaction::Read and Exists for every key: deletes, then writes, then
\* the parent.
View(t, parent) ==
  [k \in Keys |-> IF k \in t.deletes THEN None
                  ELSE IF t.writes[k] # None THEN t.writes[k] ELSE parent[k]]

RootView == View(root, disk)

CurView == View(cur, RootView)

\* CDBTransaction::Write for the keys of f, and Erase for the keys of e.  The
\* callers write and erase different keys in one go.
Changed(t, f, e) ==
  [writes  |-> [k \in Keys |-> IF k \in DOMAIN f THEN f[k]
                               ELSE IF k \in e THEN None ELSE t.writes[k]],
   deletes |-> (t.deletes \ DOMAIN f) \cup e]

\* CDBTransaction::Commit into another layer: the deletes, then the writes.
CommitInto(t, target) ==
  [writes  |-> [k \in Keys |-> IF t.writes[k] # None THEN t.writes[k]
                               ELSE IF k \in t.deletes THEN None ELSE target.writes[k]],
   deletes |-> (target.deletes \cup t.deletes) \ {k \in Keys : t.writes[k] # None}]

\* The same into a batch that is written to the database.
CommitToDisk(t, d) ==
  [k \in Keys |-> IF t.writes[k] # None THEN t.writes[k]
                  ELSE IF k \in t.deletes THEN None ELSE d[k]]

\* BeginTransaction.  Begin asserts that the layer is clean.
BeginTransaction ==
  /\ ~inTx
  /\ IsClean(cur)
  /\ inTx' = TRUE
  /\ UNCHANGED <<disk, root, cur>>

\* A run of Write and Erase calls inside the transaction.
Change(f, e) ==
  /\ inTx
  /\ cur' = Changed(cur, f, e)
  /\ UNCHANGED <<disk, root, inTx>>

\* CScopedDBTransaction::Commit
CommitTransaction ==
  /\ inTx
  /\ root' = CommitInto(cur, root)
  /\ cur' = Clean
  /\ inTx' = FALSE
  /\ UNCHANGED disk

\* Variant: only the deletes are cleared.
RollbackDeletes ==
  /\ inTx
  /\ cur' = [cur EXCEPT !.deletes = {}]
  /\ inTx' = FALSE
  /\ UNCHANGED <<disk, root>>

\* The destructor of CScopedDBTransaction, when Commit was not called.
Rollback ==
  /\ inTx
  /\ cur' = Clean
  /\ inTx' = FALSE
  /\ UNCHANGED <<disk, root>>

\* CommitRootTransaction, which asserts that cur is clean.
CommitRootTransaction ==
  /\ ~inTx
  /\ IsClean(cur)
  /\ disk' = CommitToDisk(root, disk)
  /\ root' = Clean
  /\ UNCHANGED <<cur, inTx>>

\* The process ends; the constructor of the next one starts with clean layers.
Crash ==
  /\ root' = Clean
  /\ cur' = Clean
  /\ inTx' = FALSE
  /\ UNCHANGED disk

DBNext ==
  \/ BeginTransaction
  \/ \E e \in SUBSET Keys : \E K \in SUBSET (Keys \ e) : \E f \in [K -> Values] : Change(f, e)
  \/ CommitTransaction
  \/ Rollback
  \/ CommitRootTransaction
  \/ Crash

DBSpec == DBInit /\ [][DBNext]_dbVars

-----------------------------------------------------------------------------
\* A layer never both writes and deletes a key (Write removes the key from
\* deletes, Erase from writes), so that it does not matter that Read looks at
\* the deletes first and Commit applies them first.
Disjoint(t) == \A k \in t.deletes : t.writes[k] = None

LayersDisjoint == Disjoint(root) /\ Disjoint(cur)

\* Outside a transaction nothing is left in curDBTransaction: the assertions
\* of BeginTransaction and CommitRootTransaction.
CleanOutside == inTx \/ IsClean(cur)

\* The database implements a store with atomic transactions.
Store == INSTANCE TransactionalStore
           WITH current <- CurView, committed <- RootView, durable <- disk, open <- inTx

StoreSpec == Store!StoreSpec
=============================================================================
