--------------------------- MODULE SigningProofs ---------------------------
(***************************************************************************)
(* Proofs about Signing for every set of nodes, quorums, ids and messages, *)
(* every threshold and every bound.                                        *)
(***************************************************************************)
EXTENDS Signing, FiniteSetTheorems, TLAPS

-----------------------------------------------------------------------------
(* Type correctness. *)

\* The two ways a node's shares change keep the types.
LEMMA ProcessRecoveredSigTyped ==
  ASSUME TypeOK, NEW n \in Nodes, NEW s \in Session,
         NEW shares \in SUBSET SigShare, NEW incoming \in SUBSET IncomingShare,
         ProcessRecoveredSig(n, s, shares, incoming)
  PROVE  /\ recSigs' \in [Nodes -> [Ids -> Session \cup {None}]]
         /\ sigShares' \in [Nodes -> SUBSET SigShare]
         /\ pendingIncoming' \in [Nodes -> SUBSET IncomingShare]
<1>1. s.id \in Ids
  BY DEF Session
<1>2. /\ WithoutSession(shares, s) \in SUBSET SigShare
      /\ WithoutIncoming(incoming, s) \in SUBSET IncomingShare
  BY DEF WithoutSession, WithoutIncoming
<1>3. [recSigs EXCEPT ![n][s.id] = s] \in [Nodes -> [Ids -> Session \cup {None}]]
  <2>1. [recSigs[n] EXCEPT ![s.id] = s] \in [Ids -> Session \cup {None}]
    BY <1>1 DEF TypeOK
  <2> QED
    BY <2>1 DEF TypeOK
<1>4. CASE HasRecoveredSigForId(n, s.id)
  <2>1. /\ sigShares' = [sigShares EXCEPT ![n] = shares]
        /\ pendingIncoming' = [pendingIncoming EXCEPT ![n] = incoming]
        /\ recSigs' = recSigs
    BY <1>4 DEF ProcessRecoveredSig
  <2> QED
    BY <2>1 DEF TypeOK
<1>5. CASE ~HasRecoveredSigForId(n, s.id)
  <2>1. recSigs' \in [Nodes -> [Ids -> Session \cup {None}]]
    BY <1>3, <1>5 DEF ProcessRecoveredSig
  <2>2. /\ sigShares' = [sigShares EXCEPT ![n] = WithoutSession(shares, s)]
        /\ pendingIncoming' = [pendingIncoming EXCEPT ![n] = WithoutIncoming(incoming, s)]
    BY <1>5 DEF ProcessRecoveredSig
  <2> QED
    BY <1>2, <2>1, <2>2 DEF TypeOK
<1> QED
  BY <1>4, <1>5

\* Processing a verified share keeps the types.
LEMMA ProcessSigShareTyped ==
  ASSUME TypeOK, NEW n \in Nodes, NEW share \in SigShare,
         NEW incoming \in SUBSET IncomingShare,
         ProcessSigShare(n, share, incoming)
  PROVE  /\ recSigs' \in [Nodes -> [Ids -> Session \cup {None}]]
         /\ sigShares' \in [Nodes -> SUBSET SigShare]
         /\ pendingIncoming' \in [Nodes -> SUBSET IncomingShare]
<1> DEFINE stored == sigShares[n] \cup {share}
<1>1. stored \in SUBSET SigShare /\ share.session \in Session
  BY DEF TypeOK, SigShare
<1>2. CASE ProcessRecoveredSig(n, share.session, stored, incoming)
  BY <1>1, <1>2, ProcessRecoveredSigTyped
<1>3. CASE UNCHANGED <<recSigs, sigShares>>
           /\ pendingIncoming' = [pendingIncoming EXCEPT ![n] = incoming]
  BY <1>3 DEF TypeOK
<1>4. CASE /\ sigShares' = [sigShares EXCEPT ![n] = stored]
           /\ pendingIncoming' = [pendingIncoming EXCEPT ![n] = incoming]
           /\ UNCHANGED recSigs
  BY <1>1, <1>4 DEF TypeOK
<1> QED
  BY <1>2, <1>3, <1>4 DEF ProcessSigShare

\* Banning a peer keeps the types.
LEMMA BanNodeTyped ==
  ASSUME TypeOK, NEW n \in Nodes, NEW p \in Nodes,
         NEW incoming \in SUBSET IncomingShare, BanNode(n, p, incoming)
  PROVE  /\ banned' \in [Nodes -> SUBSET Nodes]
         /\ pendingIncoming' \in [Nodes -> SUBSET IncomingShare]
BY DEF TypeOK, BanNode

\* What peers offer is well typed.
LEMMA OffersTyped ==
  ASSUME TypeOK, NEW p \in Nodes
  PROVE  /\ ShareOffers(p) \subseteq SigShare
         /\ RecSigOffers(p) \subseteq [session : Session, valid : BOOLEAN]
<1>1. ShareOffers(p) \subseteq SigShare
  BY DEF TypeOK, ShareOffers
<1>2. \A id \in Ids : HasRecoveredSigForId(p, id) => recSigs[p][id] \in Session
  BY DEF TypeOK, HasRecoveredSigForId
<1>3. RecSigOffers(p) \subseteq [session : Session, valid : BOOLEAN]
  <2>1. CASE p \in Faulty
    BY <2>1, Zenon DEF RecSigOffers
  <2>2. CASE p \notin Faulty
    <3> SUFFICES ASSUME NEW r \in RecSigOffers(p)
                 PROVE  r \in [session : Session, valid : BOOLEAN]
      OBVIOUS
    <3>1. PICK id \in {i \in Ids : HasRecoveredSigForId(p, i)} :
             r = [session |-> recSigs[p][id], valid |-> TRUE]
      BY <2>2, Zenon DEF RecSigOffers
    <3> QED
      BY <1>2, <3>1
  <2> QED
    BY <2>1, <2>2
<1> QED
  BY <1>1, <1>3

\* Every action keeps the types.
LEMMA TypeStep == TypeOK /\ [Next]_vars => TypeOK'
<1> SUFFICES ASSUME TypeOK, [Next]_vars PROVE TypeOK'
  OBVIOUS
<1> USE DEF Honest
<1>1. ASSUME NEW n \in Honest, NEW id \in Ids, NEW m \in MsgHashes,
             NEW r \in BOOLEAN, NEW q \in Quorums, AsyncSignIfMember(n, id, m, r, q)
      PROVE TypeOK'
  <2>1. [quorum |-> q, id |-> id, msgHash |-> m] \in Session
    BY DEF Session
  <2> QED
    BY <1>1, <2>1 DEF TypeOK, AsyncSignIfMember
<1>2. ASSUME NEW n \in Honest, NEW s \in pendingSigns[n], SignPendingSigShare(n, s)
      PROVE TypeOK'
  <2>1. s \in Session /\ ValidShare(s, n) \in SigShare
    BY DEF TypeOK, ValidShare, SigShare
  <2>2. pendingIncoming[n] \in SUBSET IncomingShare
    BY DEF TypeOK
  <2>3. ProcessSigShare(n, ValidShare(s, n), pendingIncoming[n])
    BY <1>2 DEF SignPendingSigShare
  <2>4. /\ recSigs' \in [Nodes -> [Ids -> Session \cup {None}]]
        /\ sigShares' \in [Nodes -> SUBSET SigShare]
        /\ pendingIncoming' \in [Nodes -> SUBSET IncomingShare]
    BY <2>1, <2>2, <2>3, ProcessSigShareTyped
  <2> QED
    BY <1>2, <2>1, <2>4 DEF TypeOK, SignPendingSigShare
<1>3. ASSUME NEW n \in Honest, NEW e \in pendingIncoming[n], ProcessPendingSigShare(n, e)
      PROVE TypeOK'
  <2> DEFINE incoming == pendingIncoming[n] \ {e}
  <2>1. incoming \in SUBSET IncomingShare /\ e.share \in SigShare /\ e.from \in Nodes
    BY DEF TypeOK, IncomingShare
  <2>2. CASE ProcessSigShare(n, e.share, incoming) /\ UNCHANGED banned
    <3>1. /\ recSigs' \in [Nodes -> [Ids -> Session \cup {None}]]
          /\ sigShares' \in [Nodes -> SUBSET SigShare]
          /\ pendingIncoming' \in [Nodes -> SUBSET IncomingShare]
      BY <2>1, <2>2, ProcessSigShareTyped
    <3> QED
      BY <1>3, <2>2, <3>1 DEF TypeOK, ProcessPendingSigShare
  <2>3. CASE BanNode(n, e.from, incoming) /\ UNCHANGED <<recSigs, sigShares>>
    <3>1. /\ banned' \in [Nodes -> SUBSET Nodes]
          /\ pendingIncoming' \in [Nodes -> SUBSET IncomingShare]
      BY <2>1, <2>3, BanNodeTyped
    <3> QED
      BY <1>3, <2>3, <3>1 DEF TypeOK, ProcessPendingSigShare
  <2> QED
    BY <1>3, <2>2, <2>3 DEF ProcessPendingSigShare
<1>4. ASSUME NEW n \in Honest, NEW r \in pendingRecovered[n], ProcessPendingRecoveredSig(n, r)
      PROVE TypeOK'
  <2>1. /\ r.session \in Session /\ r.from \in Nodes
        /\ sigShares[n] \in SUBSET SigShare
        /\ pendingIncoming[n] \in SUBSET IncomingShare
    BY DEF TypeOK, IncomingRecSig
  <2>2. CASE r.valid
    <3>1. /\ recSigs' \in [Nodes -> [Ids -> Session \cup {None}]]
          /\ sigShares' \in [Nodes -> SUBSET SigShare]
          /\ pendingIncoming' \in [Nodes -> SUBSET IncomingShare]
      BY <1>4, <2>1, <2>2, ProcessRecoveredSigTyped DEF ProcessPendingRecoveredSig
    <3> QED
      <4>0. pendingRecovered' = [pendingRecovered EXCEPT ![n] = @ \ {r}]
        BY <1>4, <2>2 DEF ProcessPendingRecoveredSig
      <4>1. pendingRecovered' \in [Nodes -> SUBSET IncomingRecSig]
        BY <4>0 DEF TypeOK
      <4>2. UNCHANGED <<votes, pendingSigns, banned, signed, cleaned, disruptions>>
        BY <1>4, <2>2 DEF ProcessPendingRecoveredSig
      <4> QED
        BY <3>1, <4>1, <4>2 DEF TypeOK
  <2>3. CASE ~r.valid
    <3>1. /\ banned' \in [Nodes -> SUBSET Nodes]
          /\ pendingIncoming' \in [Nodes -> SUBSET IncomingShare]
      BY <1>4, <2>1, <2>3, BanNodeTyped DEF ProcessPendingRecoveredSig
    <3> QED
      <4>0. pendingRecovered' =
              [pendingRecovered EXCEPT ![n] = {o \in @ : o.from # r.from}]
        BY <1>4, <2>3 DEF ProcessPendingRecoveredSig
      <4>1. pendingRecovered' \in [Nodes -> SUBSET IncomingRecSig]
        BY <4>0 DEF TypeOK
      <4>2. UNCHANGED <<votes, recSigs, sigShares, pendingSigns, signed, cleaned, disruptions>>
        BY <1>4, <2>3 DEF ProcessPendingRecoveredSig
      <4> QED
        BY <3>1, <4>1, <4>2 DEF TypeOK
  <2> QED
    BY <2>2, <2>3
<1>5. ASSUME NEW n \in Honest, NEW s \in Session, CleanupSession(n, s)
      PROVE TypeOK'
  BY <1>5 DEF TypeOK, CleanupSession, WithoutSession, WithoutIncoming, Disruption, stores
<1>6. ASSUME NEW n \in Honest, NEW id \in Ids, CleanupOldVote(n, id)
      PROVE TypeOK'
  BY <1>6 DEF TypeOK, CleanupOldVote, Disruption, memory
<1>7. ASSUME NEW n \in Honest, NEW id \in Ids, RemoveRecoveredSig(n, id)
      PROVE TypeOK'
  BY <1>7 DEF TypeOK, RemoveRecoveredSig, Disruption, memory
<1>8. ASSUME NEW n \in Honest, NEW p \in Nodes, NEW t \in ShareOffers(p),
             ReceiveSigShare(n, p, t)
      PROVE TypeOK'
  <2>1. [from |-> p, share |-> t] \in IncomingShare
    BY OffersTyped DEF IncomingShare
  <2>2. CASE BanNode(n, p, pendingIncoming[n])
    <3>1. pendingIncoming[n] \in SUBSET IncomingShare
      BY DEF TypeOK
    <3>2. /\ banned' \in [Nodes -> SUBSET Nodes]
          /\ pendingIncoming' \in [Nodes -> SUBSET IncomingShare]
      BY <2>2, <3>1, BanNodeTyped
    <3> QED
      BY <1>8, <3>2 DEF TypeOK, ReceiveSigShare, stores
  <2>3. CASE UNCHANGED banned
             /\ pendingIncoming' = [pendingIncoming EXCEPT
                                      ![n] = @ \cup {[from |-> p, share |-> t]}]
    BY <1>8, <2>1, <2>3 DEF TypeOK, ReceiveSigShare, stores
  <2> QED
    BY <1>8, <2>2, <2>3 DEF ReceiveSigShare
<1>9. ASSUME NEW n \in Honest, NEW p \in Nodes, NEW r \in RecSigOffers(p),
             ReceiveRecoveredSig(n, p, r)
      PROVE TypeOK'
  <2>1. [from |-> p, session |-> r.session, valid |-> r.valid] \in IncomingRecSig
    BY OffersTyped DEF IncomingRecSig
  <2> QED
    BY <1>9, <2>1 DEF TypeOK, ReceiveRecoveredSig, stores
<1>10. ASSUME NEW n \in Honest, NEW s \in Session, PushReconstructedRecoveredSig(n, s)
       PROVE TypeOK'
  <2>1. [from |-> n, session |-> s, valid |-> TRUE] \in IncomingRecSig
    BY DEF IncomingRecSig
  <2> QED
    BY <1>10, <2>1 DEF TypeOK, PushReconstructedRecoveredSig, stores
<1>11. ASSUME NEW n \in Honest, Restart(n)
       PROVE TypeOK'
  BY <1>11 DEF TypeOK, Restart, Disruption, stores
<1>12. CASE UNCHANGED vars
  BY <1>12 DEF TypeOK, vars, stores, memory
<1> QED
  BY <1>1, <1>2, <1>3, <1>4, <1>5, <1>6, <1>7, <1>8, <1>9, <1>10, <1>11, <1>12
  DEF Next, Request, Worker, Aging, Receive

\* Every variable keeps its type: the databases map ids to a message or a
\* session, the queues hold well-formed items.
THEOREM TypeCorrect == Spec => []TypeOK
<1>1. Init => TypeOK
  BY DEF Init, TypeOK
<1> QED
  BY <1>1, TypeStep, PTL DEF Spec

-----------------------------------------------------------------------------
(* Counting shares. *)

\* More shares never make a signature unrecoverable.
LEMMA RecoverableMonotone ==
  ASSUME NEW S, NEW T, S \subseteq T, NEW s \in Session, RecoverableFrom(S, s)
  PROVE  RecoverableFrom(T, s)
<1>1. Backers(S, s) \subseteq Backers(T, s) /\ Backers(T, s) \subseteq Members[s.quorum]
  BY DEF Backers
<1>2. Members[s.quorum] \in SUBSET Nodes
  BY SigningAssumption DEF Session
<1>3. IsFiniteSet(Backers(T, s))
  BY <1>1, <1>2, SigningAssumption, FS_Subset
<1>4. /\ Cardinality(Backers(S, s)) <= Cardinality(Backers(T, s))
      /\ Cardinality(Backers(S, s)) \in Nat
      /\ Cardinality(Backers(T, s)) \in Nat
  BY <1>1, <1>3, FS_Subset, FS_CardinalityType
<1> QED
  BY <1>4, SigningAssumption DEF RecoverableFrom

\* Threshold genuine shares of a session make its signature recoverable.
LEMMA SharesRecover ==
  ASSUME NEW S, NEW shares \in SUBSET SigShare, NEW s \in Session,
         \A t \in shares : /\ t.valid
                           /\ IsValidMember(t.member, t.session.quorum)
                           /\ t.member \in Faulty \/ t \in S,
         CountForSignHash(shares, s) >= Threshold
  PROVE  RecoverableFrom(S, s)
<1> DEFINE contributors == {t.member : t \in SharesForSignHash(shares, s)}
<1>1. contributors \subseteq Backers(S, s)
  <2> SUFFICES ASSUME NEW t \in shares, t.session = s
               PROVE  t.member \in Backers(S, s)
    BY DEF SharesForSignHash
  <2>1. t = ValidShare(s, t.member)
    BY DEF ValidShare, SigShare
  <2> QED
    BY <2>1 DEF Backers, IsValidMember
<1>2. Members[s.quorum] \in SUBSET Nodes
  BY SigningAssumption DEF Session
<1>3. IsFiniteSet(Backers(S, s))
  BY <1>2, SigningAssumption, FS_Subset DEF Backers
<1>4. /\ Cardinality(contributors) <= Cardinality(Backers(S, s))
      /\ Cardinality(contributors) \in Nat
      /\ Cardinality(Backers(S, s)) \in Nat
  BY <1>1, <1>3, FS_Subset, FS_CardinalityType
<1> QED
  BY <1>4, SigningAssumption DEF RecoverableFrom, CountForSignHash

\* Sessions are counted apart.
LEMMA CountWithShare ==
  ASSUME NEW shares, NEW share, NEW u, u # share.session
  PROVE  CountForSignHash(shares \cup {share}, u) = CountForSignHash(shares, u)
<1>1. SharesForSignHash(shares \cup {share}, u) = SharesForSignHash(shares, u)
  BY DEF SharesForSignHash
<1> QED
  BY <1>1 DEF CountForSignHash

\* A session without shares counts none.
LEMMA CountNone ==
  ASSUME NEW u
  PROVE  CountForSignHash({}, u) = 0
<1>1. SharesForSignHash({}, u) = {}
  BY DEF SharesForSignHash
<1>2. {t.member : t \in {}} = {}
  OBVIOUS
<1> QED
  BY <1>1, <1>2, FS_EmptySet, Zenon DEF CountForSignHash

\* A removed session counts none, the others are counted as before.
LEMMA CountWithoutSession ==
  ASSUME NEW shares, NEW s, NEW u
  PROVE  CountForSignHash(WithoutSession(shares, s), u) =
           IF u = s THEN 0 ELSE CountForSignHash(shares, u)
<1>1. u # s => SharesForSignHash(WithoutSession(shares, s), u) = SharesForSignHash(shares, u)
  BY DEF SharesForSignHash, WithoutSession
<1>2. {t.member : t \in SharesForSignHash(WithoutSession(shares, s), s)} = {}
  BY DEF SharesForSignHash, WithoutSession
<1> QED
  BY <1>1, <1>2, FS_EmptySet DEF CountForSignHash

-----------------------------------------------------------------------------
(* What the worker's two central routines preserve. *)

\* Creating shares keeps every fact about genuine shares and backed signatures.
LEMMA FactsMonotone ==
  ASSUME NEW S, NEW T, S \subseteq T
  PROVE  /\ \A shares : StoredGenuine(S, shares) => StoredGenuine(T, shares)
         /\ \A incoming : QueuedGenuine(S, incoming) => QueuedGenuine(T, incoming)
         /\ \A sigs \in [Ids -> Session \cup {None}] : StoredBacked(S, sigs) => StoredBacked(T, sigs)
         /\ \A rs \in SUBSET IncomingRecSig : QueuedBacked(S, rs) => QueuedBacked(T, rs)
<1>1. \A shares : StoredGenuine(S, shares) => StoredGenuine(T, shares)
  BY DEF StoredGenuine
<1>2. \A incoming : QueuedGenuine(S, incoming) => QueuedGenuine(T, incoming)
  BY DEF QueuedGenuine
<1>3. \A sigs \in [Ids -> Session \cup {None}] : StoredBacked(S, sigs) => StoredBacked(T, sigs)
  <2> SUFFICES ASSUME NEW sigs \in [Ids -> Session \cup {None}], StoredBacked(S, sigs),
                      NEW id \in Ids, sigs[id] # None
               PROVE  sigs[id].id = id /\ RecoverableFrom(T, sigs[id])
    BY DEF StoredBacked
  <2>1. sigs[id] \in Session /\ sigs[id].id = id /\ RecoverableFrom(S, sigs[id])
    BY DEF StoredBacked
  <2> QED
    BY <2>1, RecoverableMonotone
<1>4. \A rs \in SUBSET IncomingRecSig : QueuedBacked(S, rs) => QueuedBacked(T, rs)
  <2> SUFFICES ASSUME NEW rs \in SUBSET IncomingRecSig, QueuedBacked(S, rs),
                      NEW r \in rs
               PROVE  /\ r.valid => RecoverableFrom(T, r.session)
                      /\ ~r.valid => r.from \in Faulty
    BY DEF QueuedBacked
  <2>1. r.session \in Session
    BY DEF IncomingRecSig
  <2> QED
    BY <2>1, RecoverableMonotone DEF QueuedBacked
<1> QED
  BY <1>1, <1>2, <1>3, <1>4

\* A session that is recoverable may be stored.
LEMMA ProcessRecoveredSigKeeps ==
  ASSUME IndInv, NEW n \in Honest, NEW s \in Session,
         NEW shares \in SUBSET SigShare, NEW incoming \in SUBSET pendingIncoming[n],
         signed \subseteq signed',
         StoredGenuine(signed', shares),
         RecoverableFrom(signed', s),
         \A u \in Session : u # s => CountForSignHash(shares, u) < Threshold,
         HasRecoveredSigForId(n, s.id) => CountForSignHash(shares, s) < Threshold,
         ProcessRecoveredSig(n, s, shares, incoming)
  PROVE  /\ SharesGenuine'
         /\ \A m \in Honest : StoredBacked(signed', recSigs'[m])
         /\ NoStuckSession'
<1> USE DEF Honest
<1>1. TypeOK /\ SharesGenuine /\ RecSigsBacked /\ NoStuckSession
  BY DEF IndInv
<1>2. \A m \in Honest : /\ StoredGenuine(signed', sigShares[m])
                         /\ QueuedGenuine(signed', pendingIncoming[m])
                         /\ StoredBacked(signed', recSigs[m])
  <2> TAKE m \in Honest
  <2>1. /\ StoredGenuine(signed, sigShares[m])
        /\ QueuedGenuine(signed, pendingIncoming[m])
        /\ StoredBacked(signed, recSigs[m])
    BY <1>1 DEF SharesGenuine, RecSigsBacked
  <2>2. recSigs[m] \in [Ids -> Session \cup {None}]
    BY <1>1 DEF TypeOK
  <2> QED
    BY <2>1, <2>2, FactsMonotone
<1>3. QueuedGenuine(signed', incoming)
  BY <1>2 DEF QueuedGenuine
<1>4. CASE HasRecoveredSigForId(n, s.id)
  <2>1. /\ sigShares' = [sigShares EXCEPT ![n] = shares]
        /\ pendingIncoming' = [pendingIncoming EXCEPT ![n] = incoming]
        /\ recSigs' = recSigs
    BY <1>4 DEF ProcessRecoveredSig
  <2>2. SharesGenuine'
    BY <1>1, <1>2, <1>3, <2>1 DEF SharesGenuine, TypeOK
  <2>3. NoStuckSession'
    BY <1>1, <1>4, <2>1 DEF NoStuckSession, TypeOK
  <2> QED
    BY <1>2, <2>1, <2>2, <2>3
<1>5. CASE ~HasRecoveredSigForId(n, s.id)
  <2>1. /\ sigShares' = [sigShares EXCEPT ![n] = WithoutSession(shares, s)]
        /\ pendingIncoming' = [pendingIncoming EXCEPT ![n] = WithoutIncoming(incoming, s)]
        /\ recSigs' = [recSigs EXCEPT ![n][s.id] = s]
    BY <1>5 DEF ProcessRecoveredSig
  <2>2. /\ StoredGenuine(signed', WithoutSession(shares, s))
        /\ QueuedGenuine(signed', WithoutIncoming(incoming, s))
    BY <1>3 DEF StoredGenuine, QueuedGenuine, WithoutSession, WithoutIncoming
  <2>3. SharesGenuine'
    BY <1>1, <1>2, <2>1, <2>2 DEF SharesGenuine, TypeOK
  <2>4. \A u \in Session : CountForSignHash(WithoutSession(shares, s), u) < Threshold
    <3> TAKE u \in Session
    <3>1. CountForSignHash(WithoutSession(shares, s), u) =
            IF u = s THEN 0 ELSE CountForSignHash(shares, u)
      BY CountWithoutSession
    <3> QED
      BY <3>1, SigningAssumption
  <2>5. NoStuckSession'
    BY <1>1, <2>1, <2>4 DEF NoStuckSession, TypeOK
  <2>6. \A m \in Honest : StoredBacked(signed', recSigs'[m])
    <3> SUFFICES ASSUME NEW m \in Honest, NEW id \in Ids, recSigs'[m][id] # None
                 PROVE  recSigs'[m][id].id = id /\ RecoverableFrom(signed', recSigs'[m][id])
      BY DEF StoredBacked
    <3>1. s.id \in Ids
      BY DEF Session
    <3>2. CASE m = n /\ id = s.id
      BY <1>1, <2>1, <3>1, <3>2 DEF TypeOK
    <3>3. CASE ~(m = n /\ id = s.id)
      <4>1. recSigs'[m][id] = recSigs[m][id]
        BY <1>1, <2>1, <3>1, <3>3 DEF TypeOK
      <4> QED
        BY <1>2, <4>1 DEF StoredBacked
    <3> QED
      BY <3>2, <3>3
  <2> QED
    BY <2>3, <2>5, <2>6
<1> QED
  BY <1>4, <1>5

\* A verified share, or one that is skipped because it is known, may be processed.
LEMMA ProcessSigShareKeeps ==
  ASSUME IndInv, NEW n \in Honest, NEW share \in SigShare,
         NEW incoming \in SUBSET pendingIncoming[n],
         signed \subseteq signed',
         \/ HasRecoveredSigForId(n, share.session.id) \/ HasSigShare(n, share)
         \/ StoredGenuine(signed', {share}),
         ProcessSigShare(n, share, incoming)
  PROVE  /\ SharesGenuine'
         /\ \A m \in Honest : StoredBacked(signed', recSigs'[m])
         /\ NoStuckSession'
<1> USE DEF Honest
<1> DEFINE s == share.session
           stored == sigShares[n] \cup {share}
           known == HasRecoveredSigForId(n, s.id) \/ HasSigShare(n, share)
<1>1. TypeOK /\ SharesGenuine /\ RecSigsBacked /\ NoStuckSession
  BY DEF IndInv
<1>2. \A m \in Honest : /\ StoredGenuine(signed', sigShares[m])
                         /\ QueuedGenuine(signed', pendingIncoming[m])
                         /\ StoredBacked(signed', recSigs[m])
  <2> TAKE m \in Honest
  <2>1. /\ StoredGenuine(signed, sigShares[m])
        /\ QueuedGenuine(signed, pendingIncoming[m])
        /\ StoredBacked(signed, recSigs[m])
    BY <1>1 DEF SharesGenuine, RecSigsBacked
  <2>2. recSigs[m] \in [Ids -> Session \cup {None}]
    BY <1>1 DEF TypeOK
  <2> QED
    BY <2>1, <2>2, FactsMonotone
<1>3. QueuedGenuine(signed', incoming)
  BY <1>2 DEF QueuedGenuine
<1>4. s \in Session /\ stored \in SUBSET SigShare
  BY <1>1 DEF TypeOK, SigShare
<1>5. CASE known
  <2>1. /\ pendingIncoming' = [pendingIncoming EXCEPT ![n] = incoming]
        /\ UNCHANGED <<recSigs, sigShares>>
    BY <1>5 DEF ProcessSigShare
  <2>2. SharesGenuine'
    BY <1>1, <1>2, <1>3, <2>1 DEF SharesGenuine, TypeOK
  <2>3. NoStuckSession'
    BY <1>1, <2>1 DEF NoStuckSession
  <2> QED
    BY <1>2, <2>1, <2>2, <2>3
<1>6. ~known => /\ StoredGenuine(signed', stored)
                /\ \A u \in Session : u # s => CountForSignHash(stored, u) < Threshold
  <2> SUFFICES ASSUME ~known
               PROVE  /\ StoredGenuine(signed', stored)
                      /\ \A u \in Session : u # s => CountForSignHash(stored, u) < Threshold
    OBVIOUS
  <2>1. StoredGenuine(signed', stored)
    BY <1>2 DEF StoredGenuine
  <2>2. \A u \in Session : u # s => CountForSignHash(stored, u) < Threshold
    <3> SUFFICES ASSUME NEW u \in Session, u # s
                 PROVE  CountForSignHash(stored, u) < Threshold
      OBVIOUS
    <3>1. CountForSignHash(stored, u) = CountForSignHash(sigShares[n], u)
      BY CountWithShare
    <3> QED
      BY <1>1, <3>1 DEF NoStuckSession
  <2> QED
    BY <2>1, <2>2
<1>7. CASE /\ ~known
           /\ CountForSignHash(stored, s) < Threshold
           /\ sigShares' = [sigShares EXCEPT ![n] = stored]
           /\ pendingIncoming' = [pendingIncoming EXCEPT ![n] = incoming]
           /\ UNCHANGED recSigs
  <2>1. /\ sigShares' = [sigShares EXCEPT ![n] = stored]
        /\ pendingIncoming' = [pendingIncoming EXCEPT ![n] = incoming]
        /\ recSigs' = recSigs
    BY <1>7
  <2>2. SharesGenuine'
    BY <1>1, <1>2, <1>3, <1>6, <1>7, <2>1 DEF SharesGenuine, TypeOK
  <2>3. NoStuckSession'
    BY <1>1, <1>6, <1>7, <2>1 DEF NoStuckSession, TypeOK
  <2> QED
    BY <1>2, <2>1, <2>2, <2>3
<1>8. CASE ~known /\ CountForSignHash(stored, s) >= Threshold /\ ProcessRecoveredSig(n, s, stored, incoming)
  <2>1. RecoverableFrom(signed', s)
    BY <1>4, <1>6, <1>8, SharesRecover DEF StoredGenuine
  <2> QED
    BY <1>4, <1>6, <1>8, <2>1, ProcessRecoveredSigKeeps
<1> QED
  BY <1>5, <1>7, <1>8 DEF ProcessSigShare

-----------------------------------------------------------------------------
(* The inductive invariant. *)

\* Dropping received shares keeps what is known about them.
LEMMA BanNodeKeeps ==
  ASSUME IndInv, NEW n \in Honest, NEW p \in Faulty,
         NEW incoming \in SUBSET pendingIncoming[n], BanNode(n, p, incoming),
         UNCHANGED <<sigShares, signed>>
  PROVE  SharesGenuine' /\ HonestNeverBanned' /\ NoStuckSession'
<1> USE DEF Honest
<1>1. TypeOK /\ SharesGenuine /\ HonestNeverBanned /\ NoStuckSession
  BY DEF IndInv
<1>2. QueuedGenuine(signed, {e \in incoming : e.from # p})
  BY <1>1 DEF SharesGenuine, QueuedGenuine
<1>3. SharesGenuine'
  BY <1>1, <1>2 DEF SharesGenuine, BanNode, TypeOK
<1>4. HonestNeverBanned'
  BY <1>1 DEF HonestNeverBanned, BanNode, TypeOK
<1>5. NoStuckSession'
  BY <1>1 DEF NoStuckSession
<1> QED
  BY <1>3, <1>4, <1>5

\* Queueing a genuine share, or a backed signature, keeps the queue so.
LEMMA QueueShare ==
  ASSUME NEW S, NEW queue, NEW e, QueuedGenuine(S, queue),
         IsValidMember(e.share.member, e.share.session.quorum),
         e.share.valid => e.share.member \in Faulty \/ e.share \in S,
         ~e.share.valid => e.from \in Faulty
  PROVE  QueuedGenuine(S, queue \cup {e})
  BY DEF QueuedGenuine

LEMMA QueueRecSig ==
  ASSUME NEW S, NEW queue, NEW r, QueuedBacked(S, queue),
         r.valid => RecoverableFrom(S, r.session),
         ~r.valid => r.from \in Faulty
  PROVE  QueuedBacked(S, queue \cup {r})
  BY DEF QueuedBacked

\* Every action keeps the inductive invariant.
LEMMA IndStep == IndInv /\ [Next]_vars => IndInv'
<1> SUFFICES ASSUME IndInv, [Next]_vars PROVE IndInv'
  OBVIOUS
<1> USE DEF Honest
<1>0. /\ TypeOK /\ VotesBind /\ SharesGenuine /\ RecSigsBacked
      /\ HonestNeverBanned /\ NoStuckSession
  BY DEF IndInv
<1>t. TypeOK'
  BY <1>0, TypeStep
<1>s. /\ \A k \in Honest : \A u \in pendingSigns[k] : u.id \in Ids /\ u.msgHash \in MsgHashes
      /\ \A t \in signed : /\ t.session.id \in Ids /\ t.session.msgHash \in MsgHashes
                           /\ t.member \in Nodes
  <2>1. pendingSigns \in [Nodes -> SUBSET Session] /\ signed \in SUBSET SigShare
    BY <1>0 DEF TypeOK
  <2>2. \A u \in Session : u.id \in Ids /\ u.msgHash \in MsgHashes
    BY DEF Session
  <2>3. \A t \in SigShare : t.session \in Session /\ t.member \in Nodes
    BY DEF SigShare
  <2> QED
    BY <2>1, <2>2, <2>3
<1>1. ASSUME NEW n \in Honest, NEW id \in Ids, NEW m \in MsgHashes,
             NEW r \in BOOLEAN, NEW q \in Quorums, AsyncSignIfMember(n, id, m, r, q)
      PROVE IndInv'
  <2> DEFINE s == [quorum |-> q, id |-> id, msgHash |-> m]
  <2>1. \A k \in Nodes, i \in Ids : votes[k][i] # None => votes'[k][i] = votes[k][i]
    BY <1>0, <1>1 DEF AsyncSignIfMember, HasVotedOnId, TypeOK
  <2>2. votes'[n][id] = m
    BY <1>0, <1>1 DEF AsyncSignIfMember, TypeOK
  <2>3. \A k \in Honest : \A u \in pendingSigns'[k] :
          u \in pendingSigns[k] \/ (k = n /\ u = s /\ IsValidMember(n, q))
    BY <1>0, <1>1 DEF AsyncSignIfMember, TypeOK
  <2>4. VotesBind'
    <3>1. ASSUME NEW k \in Honest, NEW u \in pendingSigns'[k]
          PROVE  /\ IsValidMember(k, u.quorum)
                 /\ u.id \notin cleaned' => votes'[k][u.id] = u.msgHash
      <4>1. CASE k = n /\ u = s /\ IsValidMember(n, q)
        BY <2>2, <4>1
      <4>2. CASE u \in pendingSigns[k]
        <5>1. u.id \in Ids /\ u.msgHash \in MsgHashes /\ u.msgHash # None
          BY <1>s, <4>2, SigningAssumption
        <5>2. IsValidMember(k, u.quorum) /\ (u.id \notin cleaned => votes[k][u.id] = u.msgHash)
          BY <1>0, <4>2 DEF VotesBind
        <5>3. cleaned' = cleaned
          BY <1>1 DEF AsyncSignIfMember
        <5> QED
          BY <2>1, <5>1, <5>2, <5>3
      <4> QED
        BY <2>3, <4>1, <4>2
    <3>2. ASSUME NEW t \in signed'
          PROVE  /\ t.valid /\ t.member \in Honest
                 /\ t.session.id \notin cleaned' =>
                      votes'[t.member][t.session.id] = t.session.msgHash
      <4>1. t \in signed
        BY <1>1 DEF AsyncSignIfMember
      <4>2. /\ t.session.id \in Ids /\ t.member \in Nodes
            /\ t.session.msgHash \in MsgHashes /\ t.session.msgHash # None
        BY <1>s, <4>1, SigningAssumption
      <4>3. /\ t.valid /\ t.member \in Honest
            /\ t.session.id \notin cleaned =>
                 votes[t.member][t.session.id] = t.session.msgHash
        BY <1>0, <4>1 DEF VotesBind
      <4>4. cleaned' = cleaned
        BY <1>1 DEF AsyncSignIfMember
      <4> QED
        BY <2>1, <4>2, <4>3, <4>4
    <3> QED
      BY <3>1, <3>2 DEF VotesBind, IsValidMember
  <2>5. UNCHANGED <<recSigs, sigShares, pendingIncoming, pendingRecovered, banned, signed>>
    BY <1>1 DEF AsyncSignIfMember
  <2> QED
    BY <1>0, <1>t, <2>4, <2>5
    DEF IndInv, SharesGenuine, RecSigsBacked, HonestNeverBanned, NoStuckSession
<1>2. ASSUME NEW n \in Honest, NEW s \in pendingSigns[n], SignPendingSigShare(n, s)
      PROVE IndInv'
  <2> DEFINE share == ValidShare(s, n)
  <2>1. /\ share \in SigShare /\ s \in Session
        /\ share.valid /\ share.member = n /\ share.session = s
    BY <1>0 DEF TypeOK, ValidShare, SigShare
  <2>2. /\ signed' = signed \cup {share}
        /\ pendingSigns' = [pendingSigns EXCEPT ![n] = @ \ {s}]
        /\ ProcessSigShare(n, share, pendingIncoming[n])
        /\ UNCHANGED <<votes, pendingRecovered, banned, cleaned>>
    BY <1>2 DEF SignPendingSigShare
  <2>3. IsValidMember(n, s.quorum) /\ (s.id \notin cleaned => votes[n][s.id] = s.msgHash)
    BY <1>0 DEF VotesBind
  <2>4. VotesBind'
    <3>1. \A k \in Honest : pendingSigns'[k] \subseteq pendingSigns[k]
      BY <1>0, <2>2 DEF TypeOK
    <3> QED
      BY <1>0, <2>1, <2>2, <2>3, <3>1 DEF VotesBind, IsValidMember
  <2>5. StoredGenuine(signed', {share})
    BY <2>1, <2>2, <2>3 DEF StoredGenuine
  <2>6. /\ SharesGenuine'
        /\ \A m \in Honest : StoredBacked(signed', recSigs'[m])
        /\ NoStuckSession'
    BY <2>1, <2>2, <2>5, ProcessSigShareKeeps
  <2>7. \A m \in Honest : QueuedBacked(signed', pendingRecovered'[m])
    BY <1>0, <2>2, FactsMonotone DEF RecSigsBacked, TypeOK
  <2> QED
    BY <1>0, <1>t, <2>2, <2>4, <2>6, <2>7 DEF IndInv, RecSigsBacked, HonestNeverBanned
<1>3. ASSUME NEW n \in Honest, NEW e \in pendingIncoming[n], ProcessPendingSigShare(n, e)
      PROVE IndInv'
  <2> DEFINE incoming == pendingIncoming[n] \ {e}
             known == HasSigShare(n, e.share) \/ HasRecoveredSigForId(n, e.share.session.id)
  <2>1. e.share \in SigShare /\ e.from \in Nodes
    BY <1>0 DEF TypeOK, IncomingShare
  <2>2. /\ IsValidMember(e.share.member, e.share.session.quorum)
        /\ e.share.valid => e.share.member \in Faulty \/ e.share \in signed
        /\ ~e.share.valid => e.from \in Faulty
    BY <1>0 DEF SharesGenuine, QueuedGenuine
  <2>3. UNCHANGED <<votes, pendingSigns, pendingRecovered, signed, cleaned>>
    BY <1>3 DEF ProcessPendingSigShare
  <2>4. VotesBind'
    BY <1>0, <2>3 DEF VotesBind
  <2>5. CASE /\ e.share.valid \/ known
             /\ ProcessSigShare(n, e.share, incoming)
             /\ UNCHANGED banned
    <3>1. known \/ StoredGenuine(signed', {e.share})
      BY <2>2, <2>3, <2>5 DEF StoredGenuine
    <3>2. /\ SharesGenuine'
          /\ \A m \in Honest : StoredBacked(signed', recSigs'[m])
          /\ NoStuckSession'
      <4>1. \/ HasRecoveredSigForId(n, e.share.session.id)
            \/ HasSigShare(n, e.share)
            \/ StoredGenuine(signed', {e.share})
        BY <3>1
      <4>2. incoming \in SUBSET pendingIncoming[n]
        OBVIOUS
      <4>3. ProcessSigShare(n, e.share, incoming)
        BY <2>5
      <4>4. signed \subseteq signed'
        BY <2>3
      <4> HIDE DEF incoming, known
      <4> QED
        BY <2>1, <4>1, <4>2, <4>3, <4>4, ProcessSigShareKeeps
    <3> QED
      BY <1>0, <1>t, <2>3, <2>4, <2>5, <3>2 DEF IndInv, RecSigsBacked, HonestNeverBanned
  <2>6. CASE /\ ~e.share.valid
             /\ BanNode(n, e.from, incoming)
             /\ UNCHANGED <<recSigs, sigShares>>
    <3>1. SharesGenuine' /\ HonestNeverBanned' /\ NoStuckSession'
      BY <2>2, <2>3, <2>6, BanNodeKeeps
    <3> QED
      BY <1>0, <1>t, <2>3, <2>4, <2>6, <3>1 DEF IndInv, RecSigsBacked
  <2> QED
    BY <1>3, <2>5, <2>6 DEF ProcessPendingSigShare
<1>4. ASSUME NEW n \in Honest, NEW r \in pendingRecovered[n], ProcessPendingRecoveredSig(n, r)
      PROVE IndInv'
  <2>1. r.session \in Session /\ r.from \in Nodes /\ sigShares[n] \in SUBSET SigShare
    BY <1>0 DEF TypeOK, IncomingRecSig
  <2>2. /\ r.valid => RecoverableFrom(signed, r.session)
        /\ ~r.valid => r.from \in Faulty
    BY <1>0 DEF RecSigsBacked, QueuedBacked
  <2>3. UNCHANGED <<votes, pendingSigns, signed, cleaned>>
    BY <1>4 DEF ProcessPendingRecoveredSig
  <2>4. VotesBind'
    BY <1>0, <2>3 DEF VotesBind
  <2>5. \A m \in Honest : pendingRecovered'[m] \subseteq pendingRecovered[m]
    <3>1. DOMAIN pendingRecovered = Nodes
      BY <1>0 DEF TypeOK
    <3>2. CASE r.valid
      <4>1. pendingRecovered' = [pendingRecovered EXCEPT ![n] = @ \ {r}]
        BY <1>4, <3>2 DEF ProcessPendingRecoveredSig
      <4> QED
        BY <3>1, <4>1
    <3>3. CASE ~r.valid
      <4>1. pendingRecovered' =
              [pendingRecovered EXCEPT ![n] = {o \in @ : o.from # r.from}]
        BY <1>4, <3>3 DEF ProcessPendingRecoveredSig
      <4> QED
        BY <3>1, <4>1
    <3> QED
      BY <3>2, <3>3
  <2>6. \A m \in Honest : QueuedBacked(signed', pendingRecovered'[m])
    BY <1>0, <2>3, <2>5 DEF RecSigsBacked, QueuedBacked
  <2>7. CASE r.valid
    <3>1. /\ StoredGenuine(signed', sigShares[n])
          /\ \A u \in Session : CountForSignHash(sigShares[n], u) < Threshold
      BY <1>0, <2>3 DEF SharesGenuine, NoStuckSession
    <3>2. /\ ProcessRecoveredSig(n, r.session, sigShares[n], pendingIncoming[n])
          /\ UNCHANGED banned
      BY <1>4, <2>7 DEF ProcessPendingRecoveredSig
    <3>3. /\ SharesGenuine'
          /\ \A m \in Honest : StoredBacked(signed', recSigs'[m])
          /\ NoStuckSession'
      BY <2>1, <2>2, <2>3, <2>7, <3>1, <3>2, ProcessRecoveredSigKeeps
    <3> QED
      BY <1>0, <1>t, <2>4, <2>6, <3>2, <3>3 DEF IndInv, RecSigsBacked, HonestNeverBanned
  <2>8. CASE ~r.valid
    <3>1. /\ BanNode(n, r.from, pendingIncoming[n])
          /\ UNCHANGED <<recSigs, sigShares>>
      BY <1>4, <2>8 DEF ProcessPendingRecoveredSig
    <3>2. SharesGenuine' /\ HonestNeverBanned' /\ NoStuckSession'
      BY <2>2, <2>3, <2>8, <3>1, BanNodeKeeps
    <3> QED
      BY <1>0, <1>t, <2>3, <2>4, <2>6, <3>1, <3>2 DEF IndInv, RecSigsBacked
  <2> QED
    BY <2>7, <2>8
<1>5. ASSUME NEW n \in Honest, NEW s \in Session, CleanupSession(n, s)
      PROVE IndInv'
  <2>1. /\ sigShares' = [sigShares EXCEPT ![n] = WithoutSession(@, s)]
        /\ pendingIncoming' = [pendingIncoming EXCEPT ![n] = WithoutIncoming(@, s)]
        /\ UNCHANGED <<votes, recSigs, pendingSigns, pendingRecovered, banned, signed, cleaned>>
    BY <1>5 DEF CleanupSession, stores
  <2>2. /\ StoredGenuine(signed, WithoutSession(sigShares[n], s))
        /\ QueuedGenuine(signed, WithoutIncoming(pendingIncoming[n], s))
    BY <1>0 DEF SharesGenuine, StoredGenuine, QueuedGenuine, WithoutSession, WithoutIncoming
  <2>3. SharesGenuine'
    BY <1>0, <2>1, <2>2 DEF SharesGenuine, TypeOK
  <2>4. \A u \in Session : CountForSignHash(WithoutSession(sigShares[n], s), u) < Threshold
    <3> TAKE u \in Session
    <3>1. CountForSignHash(WithoutSession(sigShares[n], s), u) =
            IF u = s THEN 0 ELSE CountForSignHash(sigShares[n], u)
      BY CountWithoutSession
    <3> QED
      BY <1>0, <3>1, SigningAssumption DEF NoStuckSession
  <2>5. NoStuckSession'
    BY <1>0, <2>1, <2>4 DEF NoStuckSession, TypeOK
  <2> QED
    BY <1>0, <1>t, <2>1, <2>3, <2>5 DEF IndInv, VotesBind, RecSigsBacked, HonestNeverBanned
<1>6. ASSUME NEW n \in Honest, NEW id \in Ids, CleanupOldVote(n, id)
      PROVE IndInv'
  <2>1. /\ votes' = [votes EXCEPT ![n][id] = None]
        /\ cleaned' = cleaned \cup {id}
        /\ UNCHANGED <<recSigs, pendingSigns, sigShares, pendingIncoming, pendingRecovered,
                       banned, signed>>
    BY <1>6 DEF CleanupOldVote, memory
  <2>2. \A k \in Nodes, i \in Ids : i # id => votes'[k][i] = votes[k][i]
    BY <1>0, <2>1 DEF TypeOK
  <2>3. VotesBind'
    <3>1. ASSUME NEW k \in Honest, NEW u \in pendingSigns'[k]
          PROVE  /\ IsValidMember(k, u.quorum)
                 /\ u.id \notin cleaned' => votes'[k][u.id] = u.msgHash
      <4>1. u \in pendingSigns[k]
        BY <2>1
      <4>2. IsValidMember(k, u.quorum) /\ (u.id \notin cleaned => votes[k][u.id] = u.msgHash)
        BY <1>0, <4>1 DEF VotesBind
      <4>3. u.id \in Ids
        BY <1>s, <4>1
      <4> QED
        BY <2>1, <2>2, <4>2, <4>3
    <3>2. ASSUME NEW t \in signed'
          PROVE  /\ t.valid /\ t.member \in Honest
                 /\ t.session.id \notin cleaned' =>
                      votes'[t.member][t.session.id] = t.session.msgHash
      <4>1. t \in signed
        BY <2>1
      <4>2. /\ t.valid /\ t.member \in Honest
            /\ t.session.id \notin cleaned =>
                 votes[t.member][t.session.id] = t.session.msgHash
        BY <1>0, <4>1 DEF VotesBind
      <4>3. t.session.id \in Ids /\ t.member \in Nodes
        BY <1>s, <4>1
      <4> QED
        BY <2>1, <2>2, <4>2, <4>3
    <3> QED
      BY <3>1, <3>2 DEF VotesBind, IsValidMember
  <2> QED
    BY <1>0, <1>t, <2>1, <2>3
    DEF IndInv, SharesGenuine, RecSigsBacked, HonestNeverBanned, NoStuckSession
<1>7. ASSUME NEW n \in Honest, NEW id \in Ids, RemoveRecoveredSig(n, id)
      PROVE IndInv'
  <2>1. /\ recSigs' = [recSigs EXCEPT ![n][id] = None]
        /\ UNCHANGED <<votes, pendingSigns, sigShares, pendingIncoming, pendingRecovered,
                       banned, signed, cleaned>>
    BY <1>7 DEF RemoveRecoveredSig, memory
  <2>2. \A k \in Nodes, i \in Ids : recSigs'[k][i] # None => recSigs'[k][i] = recSigs[k][i]
    BY <1>0, <2>1 DEF TypeOK
  <2>3. RecSigsBacked'
    <3>1. ASSUME NEW k \in Honest
          PROVE  /\ StoredBacked(signed', recSigs'[k])
                 /\ QueuedBacked(signed', pendingRecovered'[k])
      <4>1. StoredBacked(signed, recSigs[k]) /\ QueuedBacked(signed, pendingRecovered[k])
        BY <1>0 DEF RecSigsBacked
      <4>2. signed' = signed /\ pendingRecovered' = pendingRecovered
        BY <2>1
      <4>3. StoredBacked(signed, recSigs'[k])
        BY <2>2, <4>1 DEF StoredBacked
      <4> QED
        BY <4>1, <4>2, <4>3
    <3> QED
      BY <3>1 DEF RecSigsBacked
  <2> QED
    BY <1>0, <1>t, <2>1, <2>3
    DEF IndInv, VotesBind, SharesGenuine, HonestNeverBanned, NoStuckSession
<1>8. ASSUME NEW n \in Honest, NEW p \in Nodes, NEW t \in ShareOffers(p),
             ReceiveSigShare(n, p, t)
      PROVE IndInv'
  <2>1. UNCHANGED <<votes, recSigs, pendingSigns, sigShares, pendingRecovered, signed, cleaned>>
    BY <1>8 DEF ReceiveSigShare, stores
  <2>2. VotesBind' /\ RecSigsBacked'
    BY <1>0, <2>1 DEF VotesBind, RecSigsBacked
  <2>3. /\ p \notin Faulty => t \in sigShares[p]
        /\ p \in Faulty => (t.valid => t.member \in Faulty \/ t \in signed)
    BY DEF ShareOffers
  <2>4. p \notin Faulty => /\ t.valid
                           /\ IsValidMember(t.member, t.session.quorum)
                           /\ t.member \in Faulty \/ t \in signed
    BY <1>0, <2>3 DEF SharesGenuine, StoredGenuine
  <2>5. CASE /\ ~IsValidMember(t.member, t.session.quorum)
             /\ BanNode(n, p, pendingIncoming[n])
    <3>1. SharesGenuine' /\ HonestNeverBanned' /\ NoStuckSession'
      BY <2>1, <2>4, <2>5, BanNodeKeeps
    <3> QED
      BY <1>t, <2>2, <3>1 DEF IndInv
  <2>6. CASE /\ IsValidMember(t.member, t.session.quorum)
             /\ pendingIncoming' = [pendingIncoming EXCEPT
                                      ![n] = @ \cup {[from |-> p, share |-> t]}]
             /\ UNCHANGED banned
    <3>1. QueuedGenuine(signed, pendingIncoming[n] \cup {[from |-> p, share |-> t]})
      <4>1. QueuedGenuine(signed, pendingIncoming[n])
        BY <1>0 DEF SharesGenuine
      <4> DEFINE e == [from |-> p, share |-> t]
      <4>2. e.from = p /\ e.share = t
        OBVIOUS
      <4>3. /\ IsValidMember(t.member, t.session.quorum)
            /\ t.valid => t.member \in Faulty \/ t \in signed
            /\ ~t.valid => p \in Faulty
        BY <2>3, <2>4, <2>6
      <4> HIDE DEF e
      <4>4. QueuedGenuine(signed, pendingIncoming[n] \cup {e})
        BY <4>1, <4>2, <4>3, QueueShare
      <4> QED
        BY <4>4 DEF e
    <3>2. SharesGenuine'
      BY <1>0, <2>1, <2>6, <3>1 DEF SharesGenuine, TypeOK
    <3> QED
      BY <1>0, <1>t, <2>1, <2>2, <2>6, <3>2 DEF IndInv, HonestNeverBanned, NoStuckSession
  <2> QED
    BY <1>8, <2>5, <2>6 DEF ReceiveSigShare
<1>9. ASSUME NEW n \in Honest, NEW p \in Nodes, NEW r \in RecSigOffers(p),
             ReceiveRecoveredSig(n, p, r)
      PROVE IndInv'
  <2> DEFINE item == [from |-> p, session |-> r.session, valid |-> r.valid]
  <2>1. /\ UNCHANGED <<votes, recSigs, pendingSigns, sigShares, pendingIncoming, banned,
                       signed, cleaned>>
        /\ pendingRecovered' = [pendingRecovered EXCEPT ![n] = @ \cup {item}]
    BY <1>9 DEF ReceiveRecoveredSig, stores
  <2>2. /\ r.valid => RecoverableFrom(signed, r.session)
        /\ ~r.valid => p \in Faulty
    <3>1. CASE p \in Faulty
      BY <3>1 DEF RecSigOffers, Recoverable
    <3>2. CASE p \notin Faulty
      <4>1. PICK i \in {j \in Ids : HasRecoveredSigForId(p, j)} :
               r = [session |-> recSigs[p][i], valid |-> TRUE]
        BY <3>2, Zenon DEF RecSigOffers
      <4> QED
        BY <1>0, <3>2, <4>1 DEF RecSigsBacked, StoredBacked, HasRecoveredSigForId
    <3> QED
      BY <3>1, <3>2
  <2>3. QueuedBacked(signed, pendingRecovered[n] \cup {item})
    <3>1. QueuedBacked(signed, pendingRecovered[n])
      BY <1>0 DEF RecSigsBacked
    <3>2. item.from = p /\ item.session = r.session /\ item.valid = r.valid
      OBVIOUS
    <3> HIDE DEF item
    <3> QED
      BY <2>2, <3>1, <3>2, QueueRecSig
  <2>4. RecSigsBacked'
    BY <1>0, <2>1, <2>3 DEF RecSigsBacked, TypeOK
  <2> QED
    BY <1>0, <1>t, <2>1, <2>4
    DEF IndInv, VotesBind, SharesGenuine, HonestNeverBanned, NoStuckSession
<1>10. ASSUME NEW n \in Honest, NEW s \in Session, PushReconstructedRecoveredSig(n, s)
       PROVE IndInv'
  <2> DEFINE item == [from |-> n, session |-> s, valid |-> TRUE]
  <2>1. /\ UNCHANGED <<votes, recSigs, pendingSigns, sigShares, pendingIncoming, banned,
                       signed, cleaned>>
        /\ pendingRecovered' = [pendingRecovered EXCEPT ![n] = @ \cup {item}]
        /\ RecoverableFrom(signed, s)
    BY <1>10 DEF PushReconstructedRecoveredSig, stores, Recoverable
  <2>2. QueuedBacked(signed, pendingRecovered[n] \cup {item})
    <3>1. QueuedBacked(signed, pendingRecovered[n]) /\ RecoverableFrom(signed, s)
      BY <1>0, <2>1 DEF RecSigsBacked
    <3>2. item.session = s /\ item.valid
      OBVIOUS
    <3> HIDE DEF item
    <3> QED
      BY <3>1, <3>2, QueueRecSig
  <2>3. RecSigsBacked'
    BY <1>0, <2>1, <2>2 DEF RecSigsBacked, TypeOK
  <2> QED
    BY <1>0, <1>t, <2>1, <2>3
    DEF IndInv, VotesBind, SharesGenuine, HonestNeverBanned, NoStuckSession
<1>11. ASSUME NEW n \in Honest, Restart(n)
       PROVE IndInv'
  <2>1. /\ pendingSigns' = [pendingSigns EXCEPT ![n] = {}]
        /\ sigShares' = [sigShares EXCEPT ![n] = {}]
        /\ pendingIncoming' = [pendingIncoming EXCEPT ![n] = {}]
        /\ pendingRecovered' = [pendingRecovered EXCEPT ![n] = {}]
        /\ UNCHANGED <<votes, recSigs, banned, signed, cleaned>>
    BY <1>11 DEF Restart, stores
  <2>2. VotesBind'
    BY <1>0, <2>1 DEF VotesBind, TypeOK
  <2>3. SharesGenuine'
    BY <1>0, <2>1 DEF SharesGenuine, StoredGenuine, QueuedGenuine, TypeOK
  <2>4. RecSigsBacked'
    BY <1>0, <2>1 DEF RecSigsBacked, QueuedBacked, TypeOK
  <2>5. \A u \in Session : CountForSignHash({}, u) < Threshold
    <3> TAKE u \in Session
    <3>1. CountForSignHash({}, u) = 0
      BY CountNone
    <3> QED
      BY <3>1, SigningAssumption
  <2>6. NoStuckSession'
    BY <1>0, <2>1, <2>5 DEF NoStuckSession, TypeOK
  <2> QED
    BY <1>0, <1>t, <2>1, <2>2, <2>3, <2>4, <2>6 DEF IndInv, HonestNeverBanned
<1>12. CASE UNCHANGED vars
  BY <1>0, <1>t, <1>12
  DEF IndInv, VotesBind, SharesGenuine, RecSigsBacked, HonestNeverBanned, NoStuckSession,
      vars, stores, memory
<1> QED
  BY <1>1, <1>2, <1>3, <1>4, <1>5, <1>6, <1>7, <1>8, <1>9, <1>10, <1>11, <1>12
  DEF Next, Request, Worker, Aging, Receive

\* The inductive invariant holds initially.
LEMMA IndInit == Init => IndInv
<1> SUFFICES ASSUME Init PROVE IndInv
  OBVIOUS
<1>1. TypeOK
  BY DEF Init, TypeOK
<1>2. VotesBind /\ SharesGenuine /\ RecSigsBacked /\ HonestNeverBanned
  BY DEF Init, VotesBind, SharesGenuine, StoredGenuine, QueuedGenuine, RecSigsBacked,
         StoredBacked, QueuedBacked, HonestNeverBanned, Honest
<1>3. NoStuckSession
  <2> SUFFICES ASSUME NEW n \in Honest, NEW u \in Session
               PROVE  CountForSignHash(sigShares[n], u) < Threshold
    BY DEF NoStuckSession
  <2>1. sigShares[n] = {}
    BY DEF Init, Honest
  <2>2. CountForSignHash({}, u) = 0
    BY CountNone
  <2> QED
    BY <2>1, <2>2, SigningAssumption
<1> QED
  BY <1>1, <1>2, <1>3 DEF IndInv

\* The inductive invariant holds in every reachable state.
THEOREM Invariance == Spec => []IndInv
BY IndInit, IndStep, PTL DEF Spec

-----------------------------------------------------------------------------
(* The properties. *)

\* Two recovered signatures that share an honest backer agree.
LEMMA IndImpliesAgreement == IndInv => Agreement
<1> SUFFICES ASSUME IndInv, NEW n \in Honest, NEW m \in Honest, NEW id \in Ids,
                    recSigs[n][id] # None, recSigs[m][id] # None,
                    <<recSigs[n][id].quorum, recSigs[m][id].quorum>> \in OverlapPairs,
                    id \notin cleaned
             PROVE  recSigs[n][id].msgHash = recSigs[m][id].msgHash
  BY DEF Agreement
<1> DEFINE r == recSigs[n][id]
           t == recSigs[m][id]
           A == Backers(signed, r)
           B == Backers(signed, t)
<1>1. r \in Session /\ t \in Session
  BY DEF IndInv, TypeOK, Honest
<1>2. /\ r.id = id /\ Cardinality(A) >= Threshold
      /\ t.id = id /\ Cardinality(B) >= Threshold
  BY DEF IndInv, RecSigsBacked, StoredBacked, RecoverableFrom
<1>3. A \in SUBSET Members[r.quorum] /\ B \in SUBSET Members[t.quorum]
  BY DEF Backers
<1>4. (A \cap B) \ Faulty # {}
  <2>1. \A p \in OverlapPairs : \A C \in SUBSET Members[p[1]], D \in SUBSET Members[p[2]] :
          Cardinality(C) >= Threshold /\ Cardinality(D) >= Threshold => (C \cap D) \ Faulty # {}
    BY Zenon DEF OverlapPairs
  <2> DEFINE p == <<r.quorum, t.quorum>>
  <2>2. p \in OverlapPairs /\ p[1] = r.quorum /\ p[2] = t.quorum
    OBVIOUS
  <2> HIDE DEF p, A, B, r, t
  <2>3. A \in SUBSET Members[p[1]] /\ B \in SUBSET Members[p[2]]
    BY <1>3, <2>2, Zenon
  <2> QED
    BY <1>2, <2>1, <2>2, <2>3, Zenon
<1>5. PICK k \in A \cap B : k \notin Faulty
  BY <1>4
<1>6. ValidShare(r, k) \in signed /\ ValidShare(t, k) \in signed
  BY <1>5 DEF Backers
<1>7. /\ ValidShare(r, k).session = r /\ ValidShare(r, k).member = k
      /\ ValidShare(t, k).session = t /\ ValidShare(t, k).member = k
  BY DEF ValidShare
<1>8. votes[k][id] = r.msgHash /\ votes[k][id] = t.msgHash
  <2>1. VotesBind
    BY DEF IndInv
  <2>2. \A u \in signed : u.session.id \notin cleaned => votes[u.member][u.session.id] = u.session.msgHash
    BY <2>1 DEF VotesBind
  <2> HIDE DEF r, t
  <2> QED
    BY <1>2, <1>6, <1>7, <2>2
<1> QED
  BY <1>8

\* No two honest nodes ever hold conflicting recovered signatures of overlapping
\* quorums on an id whose votes have not expired, for every number of nodes,
\* quorums and requests, with Byzantine members, restarts and re-signing
\* (the vote check of AsyncSignIfMember).
THEOREM AgreementHolds == Spec => []Agreement
BY Invariance, IndImpliesAgreement, PTL

\* Every stored recovered signature has Threshold backers (ProcessRecoveredSig).
THEOREM RecoveredSigBackedHolds == Spec => []RecoveredSigBacked
<1>1. IndInv => RecoveredSigBacked
  BY DEF IndInv, RecSigsBacked, StoredBacked, RecoveredSigBacked, Recoverable
<1> QED
  BY <1>1, Invariance, PTL

\* An honest member signs one msgHash per id as long as votes do not expire,
\* across restarts (the votes are on disk before a share can exist).
THEOREM SignsOncePerIdHolds == Spec => []SignsOncePerId
<1>1. IndInv => SignsOncePerId
  BY DEF IndInv, VotesBind, SignsOncePerId
<1> QED
  BY <1>1, Invariance, PTL

\* Honest nodes never ban each other (verification before relaying).
THEOREM HonestNeverBannedHolds == Spec => []HonestNeverBanned
<1>1. IndInv => HonestNeverBanned
  BY DEF IndInv
<1> QED
  BY <1>1, Invariance, PTL

\* No session sits at the threshold unrecovered (TryRecoverSig is called by the
\* share that completes the session).
THEOREM NoStuckSessionHolds == Spec => []NoStuckSession
<1>1. IndInv => NoStuckSession
  BY DEF IndInv
<1> QED
  BY <1>1, Invariance, PTL

\* A recovered signature is stored only where none is stored.
LEMMA ProcessRecoveredSigOnce ==
  ASSUME TypeOK, NEW n \in Nodes, NEW s \in Session, NEW shares, NEW incoming,
         ProcessRecoveredSig(n, s, shares, incoming)
  PROVE  \A m \in Nodes, id \in Ids : recSigs[m][id] # None => recSigs'[m][id] = recSigs[m][id]
<1>1. s.id \in Ids
  BY DEF Session
<1>2. recSigs \in [Nodes -> [Ids -> Session \cup {None}]]
  BY DEF TypeOK
<1>3. CASE HasRecoveredSigForId(n, s.id)
  BY <1>3 DEF ProcessRecoveredSig
<1>4. CASE ~HasRecoveredSigForId(n, s.id)
  <2>1. recSigs' = [recSigs EXCEPT ![n][s.id] = s] /\ recSigs[n][s.id] = None
    BY <1>4 DEF ProcessRecoveredSig, HasRecoveredSigForId
  <2> QED
    BY <1>1, <1>2, <2>1
<1> QED
  BY <1>3, <1>4

\* No step replaces a stored recovered signature by another one; only removal by
\* age makes room (the HasRecoveredSigForId check of ProcessRecoveredSig).
THEOREM RecoveredSigNotReplacedHolds == Spec => RecoveredSigNotReplaced
<1> DEFINE Keeps == \A n \in Nodes, id \in Ids :
              recSigs[n][id] # None => recSigs'[n][id] \in {recSigs[n][id], None}
<1>1. TypeOK /\ [Next]_vars => [Keeps]_vars
  <2> SUFFICES ASSUME TypeOK, Next PROVE Keeps
    OBVIOUS
  <2> USE DEF Honest
  <2>1. ASSUME NEW n \in Honest, Request(n) PROVE Keeps
    BY <2>1 DEF Request, AsyncSignIfMember
  <2>2. ASSUME NEW n \in Honest, NEW share \in SigShare, NEW incoming,
               ProcessSigShare(n, share, incoming)
        PROVE Keeps
    <3>1. share.session \in Session
      BY DEF SigShare
    <3>2. CASE UNCHANGED recSigs
      BY <3>2
    <3>3. CASE ProcessRecoveredSig(n, share.session, sigShares[n] \cup {share}, incoming)
      BY <3>1, <3>3, ProcessRecoveredSigOnce
    <3> QED
      BY <2>2, <3>2, <3>3 DEF ProcessSigShare
  <2>3. ASSUME NEW n \in Honest, NEW s \in pendingSigns[n], SignPendingSigShare(n, s)
        PROVE Keeps
    <3>1. ValidShare(s, n) \in SigShare
      BY DEF TypeOK, ValidShare, SigShare
    <3> QED
      BY <2>2, <2>3, <3>1 DEF SignPendingSigShare
  <2>4. ASSUME NEW n \in Honest, NEW e \in pendingIncoming[n], ProcessPendingSigShare(n, e)
        PROVE Keeps
    <3>1. e.share \in SigShare
      BY DEF TypeOK, IncomingShare
    <3>2. CASE UNCHANGED recSigs
      BY <3>2
    <3>3. CASE ProcessSigShare(n, e.share, pendingIncoming[n] \ {e})
      BY <2>2, <3>1, <3>3
    <3> QED
      BY <2>4, <3>2, <3>3 DEF ProcessPendingSigShare
  <2>5. ASSUME NEW n \in Honest, NEW r \in pendingRecovered[n],
               ProcessPendingRecoveredSig(n, r)
        PROVE Keeps
    <3>1. r.session \in Session
      BY DEF TypeOK, IncomingRecSig
    <3>2. CASE UNCHANGED recSigs
      BY <3>2
    <3>3. CASE ProcessRecoveredSig(n, r.session, sigShares[n], pendingIncoming[n])
      BY <3>1, <3>3, ProcessRecoveredSigOnce
    <3> QED
      BY <2>5, <3>2, <3>3 DEF ProcessPendingRecoveredSig
  <2>6. ASSUME NEW n \in Honest, Aging(n) PROVE Keeps
    <3>1. CASE UNCHANGED recSigs
      BY <3>1
    <3>2. ASSUME NEW id \in Ids, RemoveRecoveredSig(n, id) PROVE Keeps
      BY <3>2 DEF RemoveRecoveredSig, TypeOK
    <3> QED
      BY <2>6, <3>1, <3>2 DEF Aging, CleanupSession, CleanupOldVote, stores
  <2>7. ASSUME NEW n \in Honest, Receive(n) \/ Restart(n) PROVE Keeps
    <3>1. UNCHANGED recSigs
      BY <2>7 DEF Receive, Restart, ReceiveSigShare, ReceiveRecoveredSig,
                  PushReconstructedRecoveredSig, stores
    <3> QED
      BY <3>1
  <2> QED
    BY <2>1, <2>3, <2>4, <2>5, <2>6, <2>7 DEF Next, Worker
<1> QED
  BY <1>1, TypeCorrect, PTL DEF Spec, RecoveredSigNotReplaced
=============================================================================
