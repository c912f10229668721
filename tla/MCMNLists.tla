----------------------------- MODULE MCMNLists -----------------------------
EXTENDS MNLists

CONSTANTS o1, o2, w1, w2, w3, k1, k2, k3, a1, a2

\* Registrations 1 and 3 use the same external collateral, so that 3 replaces 1;
\* 2 has its own collateral and registers without an address.
MCCollateral == <<o1, o2, o1>>
MCOwner == <<w1, w2, w3>>
MCFirstKey == <<k1, k2, k3>>
MCFirstAddr == <<a1, None, a1>>

\* The transactions that a block contains one or two of.
MCTransactions ==
  {[type |-> "register", mn |-> p] : p \in ProTxs}
    \cup {[type |-> "service", mn |-> p, addr |-> a] : p \in {1, 2}, a \in {a1, a2}}
    \cup {[type |-> "registrar", mn |-> 1, key |-> k3], [type |-> "revoke", mn |-> 2]}
    \cup {[type |-> "commitment", invalid |-> s] : s \in {{1}, {1, 2}}}
    \cup {[type |-> "spend", out |-> o] : o \in {o1, o2}}
MCBlocks ==
  {<<>>} \cup {<<t>> : t \in MCTransactions} \cup (MCTransactions \X MCTransactions)
\* Blocks of up to three registrations and spends.
MCRegistrations == {t \in MCTransactions : t.type \in {"register", "spend"}}
MCThree == SeqOf(MCRegistrations, 3)
=============================================================================
