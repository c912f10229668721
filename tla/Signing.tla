------------------------------ MODULE Signing ------------------------------
(***************************************************************************)
(* Threshold signing by LLMQs: CSigningManager (quorums_signing.cpp) with  *)
(* the part of CSigSharesManager (quorums_signing_shares.cpp) that creates,*)
(* verifies, stores and combines signature shares.                         *)
(*                                                                         *)
(* Each masternode has a persistent store of votes ("rs_v") and recovered  *)
(* signatures ("rs_r"), and in-memory queues served by one worker thread   *)
(* (WorkThreadMain).  Message handlers and callers of AsyncSignIfMember    *)
(* run in other threads and only append to the queues, so every action     *)
(* below is one critical section or one item handled by the worker.        *)
(*                                                                         *)
(* A signing session (the code's signHash) is a quorum, an id and a        *)
(* msgHash.  BLS is ideal: a share or a recovered signature is valid or    *)
(* not, a valid share needs its member, a valid recovered signature needs  *)
(* the shares of Threshold members.                                        *)
(***************************************************************************)
EXTENDS Integers, FiniteSets

CONSTANTS Nodes,        \* the masternodes
          Faulty,       \* the ones that do not run this code
          Quorums,      \* active quorums of one LLMQ type
          Members,      \* Members[q]: the valid members of quorum q
          Threshold,    \* params.threshold
          Ids,          \* request ids
          MsgHashes,    \* messages that may be signed
          None,         \* absent database entry
          MaxPending,   \* bound: received items waiting, on all nodes together
          MaxDisruptions   \* bound: restarts, timeouts and removals by age together

ASSUME SigningAssumption ==
  /\ IsFiniteSet(Nodes)
  /\ Faulty \subseteq Nodes
  /\ Members \in [Quorums -> SUBSET Nodes]
  /\ Threshold \in Nat \ {0}
  /\ MaxPending \in Nat
  /\ MaxDisruptions \in Nat
  /\ None \notin MsgHashes
  /\ None \notin [quorum : Quorums, id : Ids, msgHash : MsgHashes]

Honest == Nodes \ Faulty

Session == [quorum : Quorums, id : Ids, msgHash : MsgHashes]

\* CSigShare; valid abstracts the outcome of the BLS verification.
SigShare == [session : Session, member : Nodes, valid : BOOLEAN]

\* A share waiting for the worker, filed under the peer it came from.
IncomingShare == [from : Nodes, share : SigShare]

\* A recovered signature waiting for the worker; from is the node itself for
\* signatures queued by PushReconstructedRecoveredSig.
IncomingRecSig == [from : Nodes, session : Session, valid : BOOLEAN]

VARIABLES
  votes,             \* votes[n][id]: msgHash voted for (persistent)
  recSigs,           \* recSigs[n][id]: session of the recovered sig (persistent)
  pendingSigns,      \* pendingSigns[n]: sessions AsyncSign queued
  sigShares,         \* sigShares[n]: verified shares
  pendingIncoming,   \* pendingIncoming[n]: received, unverified shares
  pendingRecovered,  \* pendingRecovered[n]: received recovered signatures
  banned,            \* banned[n]: peers n has banned
  signed,            \* history: shares created by honest members
  cleaned,           \* history: ids some node has removed its vote for
  disruptions        \* restarts, timeouts and removals so far

stores == <<votes, recSigs>>
memory == <<pendingSigns, sigShares, pendingIncoming, pendingRecovered>>
vars == <<stores, memory, banned, signed, cleaned, disruptions>>

TypeOK ==
  /\ votes \in [Nodes -> [Ids -> MsgHashes \cup {None}]]
  /\ recSigs \in [Nodes -> [Ids -> Session \cup {None}]]
  /\ pendingSigns \in [Nodes -> SUBSET Session]
  /\ sigShares \in [Nodes -> SUBSET SigShare]
  /\ pendingIncoming \in [Nodes -> SUBSET IncomingShare]
  /\ pendingRecovered \in [Nodes -> SUBSET IncomingRecSig]
  /\ banned \in [Nodes -> SUBSET Nodes]
  /\ signed \in SUBSET SigShare
  /\ cleaned \in SUBSET Ids
  /\ disruptions \in Nat

Init ==
  /\ votes = [n \in Nodes |-> [id \in Ids |-> None]]
  /\ recSigs = [n \in Nodes |-> [id \in Ids |-> None]]
  /\ pendingSigns = [n \in Nodes |-> {}]
  /\ sigShares = [n \in Nodes |-> {}]
  /\ pendingIncoming = [n \in Nodes |-> {}]
  /\ pendingRecovered = [n \in Nodes |-> {}]
  /\ banned = [n \in Nodes |-> {}]
  /\ signed = {}
  /\ cleaned = {}
  /\ disruptions = 0

-----------------------------------------------------------------------------
(* Queries and helpers. *)

\* A store that forgets.
NoRecoveredSig(n, id) == FALSE

HasRecoveredSigForId(n, id) == recSigs[n][id] # None

\* The vote is not looked up.
NeverVoted(n, id) == FALSE

HasVotedOnId(n, id) == votes[n][id] # None

IsValidMember(n, q) == n \in Members[q]

\* A share that is filed before it is signed.
UnsignedShare(s, m) == [session |-> s, member |-> m]

ValidShare(s, m) == [session |-> s, member |-> m, valid |-> TRUE]

\* sigShares.Has(key): the key is the session and the member.
HasSigShare(n, share) ==
  \E t \in sigShares[n] : t.session = share.session /\ t.member = share.member

SharesForSignHash(shares, s) == {t \in shares : t.session = s}

CountForSignHash(shares, s) == Cardinality({t.member : t \in SharesForSignHash(shares, s)})

\* The shares of a recovered session are kept.
WithSession(shares, s) == shares

\* RemoveSigSharesForSession: the stored shares and the received ones.
WithoutSession(shares, s) == shares \ SharesForSignHash(shares, s)
WithoutIncoming(incoming, s) == {e \in incoming : e.share.session # s}

\* The members that can contribute to a signature of session s when the honest
\* ones have created the shares S.
Backers(S, s) == {m \in Members[s.quorum] : m \in Faulty \/ ValidShare(s, m) \in S}

RecoverableFrom(S, s) == Cardinality(Backers(S, s)) >= Threshold

Recoverable(s) == RecoverableFrom(signed, s)

\* The bound on received items counts those of all nodes.
InFlight ==
  Cardinality(UNION {{n} \X pendingIncoming[n] : n \in Nodes})
    + Cardinality(UNION {{n} \X pendingRecovered[n] : n \in Nodes})

\* The bound on what makes a node forget something.
Disruption ==
  /\ disruptions < MaxDisruptions
  /\ disruptions' = disruptions + 1

-----------------------------------------------------------------------------
(* Requests to sign. *)

\* AsyncSignIfMember.  The vote is written before the quorum is selected and
\* stays when the node turns out not to be a member.  q is whatever
\* SelectQuorumForSigning answers at the current tip; the returns that leave
\* the state alone are not steps.
AsyncSignIfMember(n, id, msgHash, allowReSign, q) ==
  /\ HasVotedOnId(n, id) => votes[n][id] = msgHash /\ allowReSign
  /\ ~HasRecoveredSigForId(n, id)
  /\ votes' = [votes EXCEPT ![n][id] = msgHash]
  /\ pendingSigns' = IF IsValidMember(n, q)
                     THEN [pendingSigns EXCEPT ![n] =
                             @ \cup {[quorum |-> q, id |-> id, msgHash |-> msgHash]}]
                     ELSE pendingSigns
  /\ UNCHANGED <<recSigs, sigShares, pendingIncoming, pendingRecovered,
                 banned, signed, cleaned, disruptions>>

-----------------------------------------------------------------------------
(* The worker thread. *)

\* ProcessRecoveredSig with the listener CSigSharesManager::HandleNewRecoveredSig;
\* shares and incoming are the node's shares on entry.
ProcessRecoveredSig(n, s, shares, incoming) ==
  IF HasRecoveredSigForId(n, s.id)
  THEN /\ sigShares' = [sigShares EXCEPT ![n] = shares]
       /\ pendingIncoming' = [pendingIncoming EXCEPT ![n] = incoming]
       /\ UNCHANGED recSigs
  ELSE /\ recSigs' = [recSigs EXCEPT ![n][s.id] = s]
       /\ sigShares' = [sigShares EXCEPT ![n] = WithoutSession(shares, s)]
       /\ pendingIncoming' = [pendingIncoming EXCEPT ![n] = WithoutIncoming(incoming, s)]

\* ProcessSigShare and TryRecoverSig for a verified share.
ProcessSigShare(n, share, incoming) ==
  LET s == share.session
      stored == sigShares[n] \cup {share}
      known == HasRecoveredSigForId(n, s.id) \/ HasSigShare(n, share)
  IN  \/ /\ known
         /\ pendingIncoming' = [pendingIncoming EXCEPT ![n] = incoming]
         /\ UNCHANGED <<recSigs, sigShares>>
      \/ /\ ~known
         /\ CountForSignHash(stored, s) < Threshold
         /\ sigShares' = [sigShares EXCEPT ![n] = stored]
         /\ pendingIncoming' = [pendingIncoming EXCEPT ![n] = incoming]
         /\ UNCHANGED recSigs
      \/ /\ ~known
         /\ CountForSignHash(stored, s) >= Threshold
         /\ ProcessRecoveredSig(n, s, stored, incoming)

\* SignPendingSigShares and Sign for one queued session.  The share exists from
\* here on, whether or not ProcessSigShare keeps it.
SignPendingSigShare(n, s) ==
  /\ s \in pendingSigns[n]
  /\ pendingSigns' = [pendingSigns EXCEPT ![n] = @ \ {s}]
  /\ signed' = signed \cup {ValidShare(s, n)}
  /\ ProcessSigShare(n, ValidShare(s, n), pendingIncoming[n])
  /\ UNCHANGED <<votes, pendingRecovered, banned, cleaned, disruptions>>

\* BanNode and RemoveBannedNodeStates, which the worker runs before it looks at
\* the queue again: everything the peer sent and is still queued is dropped.
BanNode(n, p, incoming) ==
  /\ banned' = [banned EXCEPT ![n] = @ \cup {p}]
  /\ pendingIncoming' = [pendingIncoming EXCEPT ![n] = {e \in incoming : e.from # p}]

\* The member named in a bad share is banned, not the peer that sent it.
BlameMember(n, e) ==
  /\ e \in pendingIncoming[n]
  /\ LET incoming == pendingIncoming[n] \ {e}
         skip == HasSigShare(n, e.share) \/ HasRecoveredSigForId(n, e.share.session.id)
     IN  \/ /\ e.share.valid \/ skip
            /\ ProcessSigShare(n, e.share, incoming)
            /\ UNCHANGED banned
         \/ /\ ~e.share.valid /\ ~skip
            /\ BanNode(n, e.share.member, incoming)
            /\ UNCHANGED <<recSigs, sigShares>>
  /\ UNCHANGED <<votes, pendingSigns, pendingRecovered, signed, cleaned, disruptions>>

\* CollectPendingSigSharesToVerify, ProcessPendingSigShares and
\* ProcessPendingSigSharesFromNode for one received share.
ProcessPendingSigShare(n, e) ==
  /\ e \in pendingIncoming[n]
  /\ LET incoming == pendingIncoming[n] \ {e}
         skip == HasSigShare(n, e.share) \/ HasRecoveredSigForId(n, e.share.session.id)
     IN  \/ /\ e.share.valid \/ skip
            /\ ProcessSigShare(n, e.share, incoming)
            /\ UNCHANGED banned
         \/ /\ ~e.share.valid /\ ~skip
            /\ BanNode(n, e.from, incoming)
            /\ UNCHANGED <<recSigs, sigShares>>
  /\ UNCHANGED <<votes, pendingSigns, pendingRecovered, signed, cleaned, disruptions>>

\* A received signature is stored without being verified.
UnverifiedRecoveredSig(n, r) ==
  /\ r \in pendingRecovered[n]
  /\ pendingRecovered' = [pendingRecovered EXCEPT ![n] = @ \ {r}]
  /\ ProcessRecoveredSig(n, r.session, sigShares[n], pendingIncoming[n])
  /\ UNCHANGED <<votes, pendingSigns, banned, signed, cleaned, disruptions>>

\* ProcessPendingRecoveredSigs and ProcessPendingReconstructedRecoveredSigs for
\* one queued recovered signature.  A peer that sent an invalid one is banned
\* and all it sent for this round is skipped.
ProcessPendingRecoveredSig(n, r) ==
  /\ r \in pendingRecovered[n]
  /\ \/ /\ r.valid
        /\ pendingRecovered' = [pendingRecovered EXCEPT ![n] = @ \ {r}]
        /\ ProcessRecoveredSig(n, r.session, sigShares[n], pendingIncoming[n])
        /\ UNCHANGED banned
     \/ /\ ~r.valid
        /\ pendingRecovered' = [pendingRecovered EXCEPT
                                  ![n] = {o \in @ : o.from # r.from}]
        /\ BanNode(n, r.from, pendingIncoming[n])
        /\ UNCHANGED <<recSigs, sigShares>>
  /\ UNCHANGED <<votes, pendingSigns, signed, cleaned, disruptions>>

\* CSigSharesManager::Cleanup of one session: its quorum became inactive, it
\* was recovered, or SESSION_NEW_SHARES_TIMEOUT passed without a new share.
CleanupSession(n, s) ==
  /\ SharesForSignHash(sigShares[n], s) # {}
  /\ sigShares' = [sigShares EXCEPT ![n] = WithoutSession(@, s)]
  /\ pendingIncoming' = [pendingIncoming EXCEPT ![n] = WithoutIncoming(@, s)]
  /\ Disruption
  /\ UNCHANGED <<stores, pendingSigns, pendingRecovered, banned, signed, cleaned>>

\* CSigningManager::Cleanup: a vote older than -recsigsmaxage is removed.
CleanupOldVote(n, id) ==
  /\ HasVotedOnId(n, id)
  /\ votes' = [votes EXCEPT ![n][id] = None]
  /\ cleaned' = cleaned \cup {id}
  /\ Disruption
  /\ UNCHANGED <<recSigs, memory, banned, signed>>

\* CleanupOldRecoveredSigs, and RemoveRecoveredSig called by InstantSend when a
\* ChainLock overrides a lock.
RemoveRecoveredSig(n, id) ==
  /\ HasRecoveredSigForId(n, id)
  /\ recSigs' = [recSigs EXCEPT ![n][id] = None]
  /\ Disruption
  /\ UNCHANGED <<votes, memory, banned, signed, cleaned>>

-----------------------------------------------------------------------------
(* Messages.  An honest peer sends what it holds; a message that is lost is a *)
(* step not taken, and the queues keep what is under way.                     *)

\* What peer p can put into a QBSIGSHARES message.
ShareOffers(p) ==
  IF p \in Faulty
  THEN {t \in SigShare : t.valid => t.member \in Faulty \/ t \in signed}
  ELSE sigShares[p]

\* ProcessMessageBatchedSigShares and PreVerifyBatchedSigShares for one share of
\* a batch: a member index outside the quorum bans the peer at once.
ReceiveSigShare(n, p, share) ==
  /\ p # n /\ p \notin banned[n]
  /\ IsValidMember(n, share.session.quorum)
  /\ share \in ShareOffers(p)
  /\ \/ /\ ~IsValidMember(share.member, share.session.quorum)
        /\ BanNode(n, p, pendingIncoming[n])
     \/ /\ IsValidMember(share.member, share.session.quorum)
        /\ InFlight < MaxPending
        /\ ~HasSigShare(n, share)
        /\ ~HasRecoveredSigForId(n, share.session.id)
        /\ pendingIncoming' = [pendingIncoming EXCEPT
                                 ![n] = @ \cup {[from |-> p, share |-> share]}]
        /\ UNCHANGED banned
  /\ UNCHANGED <<stores, pendingSigns, sigShares, pendingRecovered, signed, cleaned, disruptions>>

\* A peer only passes on signatures for ids it has voted on itself.
OffersVoted(p) ==
  {[session |-> recSigs[p][id], valid |-> TRUE] :
     id \in {i \in Ids : HasRecoveredSigForId(p, i) /\ HasVotedOnId(p, i)}}

\* What peer p can answer to a request for a recovered signature.
RecSigOffers(p) ==
  IF p \in Faulty
  THEN {r \in [session : Session, valid : BOOLEAN] : r.valid => Recoverable(r.session)}
  ELSE {[session |-> recSigs[p][id], valid |-> TRUE] :
          id \in {i \in Ids : HasRecoveredSigForId(p, i)}}

\* ProcessMessageRecoveredSig: a signature already stored is not queued.
ReceiveRecoveredSig(n, p, r) ==
  /\ p # n /\ p \notin banned[n]
  /\ r \in RecSigOffers(p)
  /\ InFlight < MaxPending
  /\ ~(r.valid /\ recSigs[n][r.session.id] = r.session)
  /\ pendingRecovered' = [pendingRecovered EXCEPT
                            ![n] = @ \cup {[from |-> p, session |-> r.session, valid |-> r.valid]}]
  /\ UNCHANGED <<stores, pendingSigns, sigShares, pendingIncoming, banned, signed,
                 cleaned, disruptions>>

\* PushReconstructedRecoveredSig: InstantSend took the signature out of a
\* verified ISLOCK.
PushReconstructedRecoveredSig(n, s) ==
  /\ Recoverable(s)
  /\ ~HasRecoveredSigForId(n, s.id)
  /\ InFlight < MaxPending
  /\ pendingRecovered' = [pendingRecovered EXCEPT
                            ![n] = @ \cup {[from |-> n, session |-> s, valid |-> TRUE]}]
  /\ UNCHANGED <<stores, pendingSigns, sigShares, pendingIncoming, banned, signed,
                 cleaned, disruptions>>

\* Votes are lost in a restart.
RestartForgets(n) ==
  /\ Disruption
  /\ votes' = [votes EXCEPT ![n] = [id \in Ids |-> None]]
  /\ pendingSigns' = [pendingSigns EXCEPT ![n] = {}]
  /\ sigShares' = [sigShares EXCEPT ![n] = {}]
  /\ pendingIncoming' = [pendingIncoming EXCEPT ![n] = {}]
  /\ pendingRecovered' = [pendingRecovered EXCEPT ![n] = {}]
  /\ UNCHANGED <<recSigs, banned, signed, cleaned>>

\* A node stops and starts again: the database survives, the queues do not.
Restart(n) ==
  /\ Disruption
  /\ pendingSigns' = [pendingSigns EXCEPT ![n] = {}]
  /\ sigShares' = [sigShares EXCEPT ![n] = {}]
  /\ pendingIncoming' = [pendingIncoming EXCEPT ![n] = {}]
  /\ pendingRecovered' = [pendingRecovered EXCEPT ![n] = {}]
  /\ UNCHANGED <<stores, banned, signed, cleaned>>

-----------------------------------------------------------------------------
Request(n) ==
  \E id \in Ids, m \in MsgHashes, r \in BOOLEAN, q \in Quorums :
    AsyncSignIfMember(n, id, m, r, q)

Worker(n) ==
  \/ \E s \in pendingSigns[n] : SignPendingSigShare(n, s)
  \/ \E e \in pendingIncoming[n] : ProcessPendingSigShare(n, e)
  \/ \E r \in pendingRecovered[n] : ProcessPendingRecoveredSig(n, r)

Aging(n) ==
  \/ \E s \in Session : CleanupSession(n, s)
  \/ \E id \in Ids : CleanupOldVote(n, id)
  \/ \E id \in Ids : RemoveRecoveredSig(n, id)

Receive(n) ==
  \/ \E p \in Nodes : \E share \in ShareOffers(p) : ReceiveSigShare(n, p, share)
  \/ \E p \in Nodes : \E r \in RecSigOffers(p) : ReceiveRecoveredSig(n, p, r)
  \/ \E s \in Session : PushReconstructedRecoveredSig(n, s)

Next ==
  \E n \in Honest :
    \/ Request(n)
    \/ Worker(n)
    \/ Aging(n)
    \/ Receive(n)
    \/ Restart(n)

Spec == Init /\ [][Next]_vars

\* The worker loop never stops and every round serves each queue
\* (WorkThreadMain); connected peers keep exchanging inventory of recovered
\* signatures (PushInventory and getdata).
Fairness ==
  /\ \A n \in Honest :
       /\ WF_vars(\E s \in pendingSigns[n] : SignPendingSigShare(n, s))
       /\ WF_vars(\E e \in pendingIncoming[n] : ProcessPendingSigShare(n, e))
       /\ WF_vars(\E r \in pendingRecovered[n] : ProcessPendingRecoveredSig(n, r))
  /\ \A n, p \in Honest, s \in Session :
       WF_vars(ReceiveRecoveredSig(n, p, [session |-> s, valid |-> TRUE]))

FairSpec == Spec /\ Fairness

-----------------------------------------------------------------------------
(* Properties. *)

\* Quorums of which any two groups of Threshold members share an honest member.
OverlapPairs ==
  {p \in Quorums \X Quorums :
     \A A \in SUBSET Members[p[1]], B \in SUBSET Members[p[2]] :
        Cardinality(A) >= Threshold /\ Cardinality(B) >= Threshold
          => (A \cap B) \ Faulty # {}}

\* Two honest nodes never hold recovered signatures of different msgHashes for
\* one id, when the quorums overlap and no vote on the id has expired: the
\* promise of the vote check in AsyncSignIfMember, across disruptions, relays and
\* re-signing (quorums_signing.cpp:754-781).
Agreement ==
  \A n, m \in Honest, id \in Ids :
    LET r == recSigs[n][id]
        t == recSigs[m][id]
    IN  r # None /\ t # None /\ <<r.quorum, t.quorum>> \in OverlapPairs /\ id \notin cleaned
          => r.msgHash = t.msgHash

\* A recovered signature stored by an honest node, or offered by one, was signed
\* by Threshold members of its quorum: no queue, relay or recovery turns
\* something else into a stored signature (ProcessRecoveredSig).
RecoveredSigBacked ==
  \A n \in Honest, id \in Ids : recSigs[n][id] # None => Recoverable(recSigs[n][id])

\* An honest member has signed two different msgHashes for an id only if its
\* vote expired in between, whatever was queued when it restarted (Sign does not
\* look at the vote again).
SignsOncePerId ==
  \A s, t \in signed :
    /\ s.member = t.member
    /\ s.session.id = t.session.id
    /\ s.session.id \notin cleaned
    => s.session.msgHash = t.session.msgHash

\* No honest node bans another: what an honest node stores and relays always
\* passes its peers' verification (ProcessPendingSigShares, PreVerifyBatchedSigShares).
HonestNeverBanned == \A n \in Honest : banned[n] \subseteq Faulty

\* A session never sits at the threshold unrecovered: the share that completes it
\* recovers it in the same step (ProcessSigShare, TryRecoverSig).
NoStuckSession ==
  \A n \in Honest, s \in Session : CountForSignHash(sigShares[n], s) < Threshold

\* The inductive invariant behind the properties above, in parts.

\* What a node is about to sign, or has signed, is what it has voted for.
VotesBind ==
  /\ \A n \in Honest : \A s \in pendingSigns[n] :
       /\ IsValidMember(n, s.quorum)
       /\ s.id \notin cleaned => votes[n][s.id] = s.msgHash
  /\ \A t \in signed :
       /\ t.valid
       /\ t.member \in Honest
       /\ t.session.id \notin cleaned => votes[t.member][t.session.id] = t.session.msgHash

\* Stored shares are valid shares of members, when S are the honest ones.
StoredGenuine(S, shares) ==
  \A t \in shares :
    /\ t.valid
    /\ IsValidMember(t.member, t.session.quorum)
    /\ t.member \in Faulty \/ t \in S

\* A queued share that is valid is genuine; an invalid one came from a faulty peer.
QueuedGenuine(S, incoming) ==
  \A e \in incoming :
    /\ IsValidMember(e.share.member, e.share.session.quorum)
    /\ e.share.valid => e.share.member \in Faulty \/ e.share \in S
    /\ ~e.share.valid => e.from \in Faulty

SharesGenuine ==
  \A n \in Honest :
    StoredGenuine(signed, sigShares[n]) /\ QueuedGenuine(signed, pendingIncoming[n])

\* Stored and queued recovered signatures have Threshold backers.
StoredBacked(S, sigs) ==
  \A id \in Ids : sigs[id] # None => sigs[id].id = id /\ RecoverableFrom(S, sigs[id])

QueuedBacked(S, recovered) ==
  \A r \in recovered :
    /\ r.valid => RecoverableFrom(S, r.session)
    /\ ~r.valid => r.from \in Faulty

RecSigsBacked ==
  \A n \in Honest :
    StoredBacked(signed, recSigs[n]) /\ QueuedBacked(signed, pendingRecovered[n])

IndInv ==
  /\ TypeOK
  /\ VotesBind
  /\ SharesGenuine
  /\ RecSigsBacked
  /\ HonestNeverBanned
  /\ NoStuckSession

\* A stored recovered signature is removed by age but never replaced by another
\* one (the HasRecoveredSigForId check of ProcessRecoveredSig).
RecoveredSigNotReplaced ==
  [][\A n \in Nodes, id \in Ids :
       recSigs[n][id] # None => recSigs'[n][id] \in {recSigs[n][id], None}]_vars

\* While one honest node keeps a recovered signature for an id, every other honest
\* node gets one again and again (relay by PushInventory, AlreadyHave).
RecoveredSigSpreads ==
  \A n, m \in Honest, id \in Ids :
    <>[](recSigs[n][id] # None) => []<>(recSigs[m][id] # None)
=============================================================================
