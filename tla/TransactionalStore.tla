------------------------- MODULE TransactionalStore -------------------------
(***************************************************************************)
(* What the special-transaction database promises to the code that         *)
(* connects and disconnects blocks: a map with one open transaction at a   *)
(* time that is applied as a whole or not at all, and whose committed      *)
(* changes survive a crash from the last flush on, and only from there.    *)
(***************************************************************************)
EXTENDS Naturals

CONSTANTS Keys, Values, None

VARIABLES current,     \* what a read returns
          committed,   \* the effect of the transactions committed so far
          durable,     \* what a restart finds
          open         \* a transaction is in progress

storeVars == <<current, committed, durable, open>>

Contents == [Keys -> Values \cup {None}]

StoreInit ==
  /\ durable \in Contents
  /\ current = durable
  /\ committed = durable
  /\ open = FALSE

\* A transaction starts.
StoreBegin ==
  /\ ~open
  /\ open' = TRUE
  /\ UNCHANGED <<current, committed, durable>>

\* The open transaction writes and erases keys.
StoreChange ==
  /\ open
  /\ current' \in Contents
  /\ UNCHANGED <<committed, durable, open>>

\* It is applied as a whole.
StoreCommit ==
  /\ open
  /\ committed' = current
  /\ open' = FALSE
  /\ UNCHANGED <<current, durable>>

\* It is given up, and leaves no trace.
StoreRollback ==
  /\ open
  /\ current' = committed
  /\ open' = FALSE
  /\ UNCHANGED <<committed, durable>>

\* What is committed becomes durable, between transactions.
StoreFlush ==
  /\ ~open
  /\ durable' = committed
  /\ UNCHANGED <<current, committed, open>>

\* The process ends, and a new one starts from what is durable.
StoreCrash ==
  /\ current' = durable
  /\ committed' = durable
  /\ open' = FALSE
  /\ UNCHANGED durable

StoreNext == \/ StoreBegin
             \/ StoreChange
             \/ StoreCommit
             \/ StoreRollback
             \/ StoreFlush
             \/ StoreCrash

StoreSpec == StoreInit /\ [][StoreNext]_storeVars
=============================================================================
