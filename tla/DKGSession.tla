----------------------------- MODULE DKGSession -----------------------------
(***************************************************************************)
(* One distributed key generation of a quorum (llmq/quorums_dkgsession.cpp *)
(* run by the phase handler of llmq/quorums_dkgsessionhandler.cpp).  Every *)
(* honest member goes through the phases Contribute, Complain, Justify and *)
(* Commit at its own pace, as its own chain tip tells it.  In each phase   *)
(* it handles messages of that phase only, first while it sleeps, then     *)
(* runs the phase's start function, then handles messages again until the  *)
(* phase is over; what it has not handled by then it never will.           *)
(*                                                                         *)
(* Faulty members sign whatever FaultyMessages allows.  A verification     *)
(* vector is a value, a secret share is the vector it fits, and a quorum   *)
(* key is the function from the valid members to their vectors: equal keys *)
(* come from equal vectors.                                                *)
(*                                                                         *)
(* Messages are handled one at a time before the start function of a phase *)
(* where it can tell them apart (Complain and Justify).  All others are    *)
(* handled in one or two steps, one message of each sender in a step: the  *)
(* effects for different senders do not depend on their order.             *)
(***************************************************************************)
EXTENDS Integers, FiniteSets

CONSTANTS
    Members,               \* the masternodes of the quorum
    Honest,                \* the members that run this code
    Vvecs,                 \* verification vectors
    None,                  \* no vector, no share, no key
    minSize,               \* params.minSize
    dkgBadVotesThreshold,  \* params.dkgBadVotesThreshold
    FaultyMessages,        \* what the other members may sign
    MaxSigned,             \* bound: messages signed by faulty members
    MaxFaults              \* bound: lost or late messages and aborted members

VARIABLES
    phase,     \* of each honest member: a QuorumPhase, or Aborted
    started,   \* has the start function of the phase run?
    member,    \* member[n][m]: what n knows of m (CDKGMember and the database)
    seen,      \* messages of the current phase that n has handled
    valid,     \* validCommitments of n
    sent,      \* the key n sent a premature commitment for, or None
    final,     \* what FinalizeCommitments returned at n
    msgs,      \* messages of phases that some honest member has not left
    signed,    \* number of messages that faulty members have signed
    faults     \* messages lost or late so far, and members aborted

vars == <<phase, started, member, seen, valid, sent, final, msgs, signed, faults>>

Faulty == Members \ Honest

Aborted == 0
PhaseContribute == 2
PhaseComplain == 3
PhaseJustify == 4
PhaseCommit == 5
PhaseFinalize == 6

\* An honest member's own contribution: the vector it generated.
OwnVvec == CHOOSE v \in Vvecs : TRUE

ASSUME DKGAssumption ==
    /\ IsFiniteSet(Members) /\ Honest \subseteq Members
    /\ None \notin Vvecs /\ Vvecs # {}
    /\ minSize \in Nat /\ dkgBadVotesThreshold \in Nat
    /\ MaxSigned \in Nat /\ MaxFaults \in Nat
    /\ \A x \in FaultyMessages : x.from \in Members \ Honest

Keys == UNION {[V -> Vvecs] : V \in SUBSET Members}

Contributions == [phase : {PhaseContribute}, from : Members, vvec : Vvecs,
                  fits : SUBSET Members]
Complaints == [phase : {PhaseComplain}, from : Members,
               bad : SUBSET Members, complain : SUBSET Members]
Justifications == [phase : {PhaseJustify}, from : Members,
                   shares : UNION {[V -> Vvecs \cup {None}] : V \in SUBSET Members}]
Commitments == [phase : {PhaseCommit}, from : Members, key : Keys, sig : BOOLEAN]
Messages == Contributions \cup Complaints \cup Justifications \cup Commitments

\* Other messages are dropped when they are deserialized or by PreVerifyMessage.
ASSUME MessagesAssumption == FaultyMessages \subseteq Messages /\ None \notin Keys

FinalCommitments == [key : Keys, signers : SUBSET Members, sig : BOOLEAN]

\* What a member knows of another: the vector it received (receivedVvecs and
\* DB_VVEC), whether the share that came with it fits, the share it verified
\* (DB_SKCONTRIB), weComplain, bad, the number of its complaints,
\* badMemberVotes, complaintsFromOthers, and whether its first complaint is
\* about us.
MemberState == [vvec : Vvecs \cup {None}, fits : BOOLEAN, sk : Vvecs \cup {None},
                weComplain : BOOLEAN, bad : BOOLEAN, complaints : 0 .. 2,
                badMemberVotes : SUBSET Members, complaintsFromOthers : SUBSET Members,
                aboutUs : BOOLEAN]

NewMember == [vvec |-> None, fits |-> FALSE, sk |-> None, weComplain |-> FALSE,
              bad |-> FALSE, complaints |-> 0, badMemberVotes |-> {},
              complaintsFromOthers |-> {}, aboutUs |-> FALSE]

Init ==
    /\ phase = [n \in Honest |-> PhaseContribute]
    /\ started = [n \in Honest |-> FALSE]
    /\ member = [n \in Honest |-> [m \in Members |-> NewMember]]
    /\ seen = [n \in Honest |-> {}]
    /\ valid = [n \in Honest |-> {}]
    /\ sent = [n \in Honest |-> None]
    /\ final = [n \in Honest |-> {}]
    /\ msgs = {}
    /\ signed = 0
    /\ faults = 0

-----------------------------------------------------------------------------
(* Handling messages: PreVerifyMessage and ReceiveMessage of each kind.  A  *)
(* third message of one kind from one member is dropped.                    *)

From(S, m) == {x \in S : x.from = m}

Pending(n) ==
    {x \in msgs \ seen[n] : x.phase = phase[n] /\ Cardinality(From(seen[n], x.from)) < 2}

Batches(n) ==
    {S \in SUBSET Pending(n) : \A x, y \in S : x.from = y.from => x = y}

MarkBadMember(mem) == [mem EXCEPT !.bad = TRUE]

\* The first contribution is stored, a second one makes its sender bad.
ReceiveContribution(n, c, mem) ==
    IF From(seen[n], c.from) # {}
    THEN MarkBadMember(mem)
    ELSE [mem EXCEPT !.vvec = c.vvec, !.fits = n \in c.fits]

ReceiveContributions(n, S) ==
    [m \in Members |->
        IF From(S, m) = {} THEN member[n][m]
        ELSE ReceiveContribution(n, CHOOSE c \in From(S, m) : TRUE, member[n][m])]

\* The first complaint of a member counts: its bad votes and its complaints.
ReceiveComplaints(n, S) ==
    LET first == {c \in S : From(seen[n], c.from) = {}}
    IN  [m \in Members |->
            [member[n][m] EXCEPT
                !.complaints = @ + Cardinality(From(S, m)),
                !.bad = @ \/ From(S \ first, m) # {},
                !.badMemberVotes = @ \cup {c.from : c \in {d \in first : m \in d.bad}},
                !.complaintsFromOthers =
                    @ \cup {c.from : c \in {d \in first : m \in d.complain}},
                !.aboutUs = @ \/ \E c \in From(first, m) : n \in c.complain]]

\* Variant: a complaint stays open when it was answered.
LeaveComplaints(n, j, mem) ==
    LET for == DOMAIN j.shares
        fitting == {x \in for : j.shares[x] = mem.vvec}
    IN  IF From(seen[n], j.from) # {} \/ ~ for \subseteq mem.complaintsFromOthers
        THEN MarkBadMember(mem)
        ELSE [mem EXCEPT !.bad = @ \/ fitting # for,
                         !.sk = IF n \in fitting /\ ~mem.bad THEN j.shares[n] ELSE @]

\* Variant: the share in a justification is verified, but not stored.
ForgetShare(n, j, mem) ==
    LET for == DOMAIN j.shares
        fitting == {x \in for : j.shares[x] = mem.vvec}
    IN  IF From(seen[n], j.from) # {} \/ ~ for \subseteq mem.complaintsFromOthers
        THEN MarkBadMember(mem)
        ELSE [mem EXCEPT !.bad = @ \/ fitting # for,
                         !.complaintsFromOthers = @ \ fitting]

\* A justification must answer complaints only, each with a share that fits the
\* vector its sender contributed.
ReceiveJustification(n, j, mem) ==
    LET for == DOMAIN j.shares
        fitting == {x \in for : j.shares[x] = mem.vvec}
    IN  CASE From(seen[n], j.from) # {} -> MarkBadMember(mem)
          [] From(seen[n], j.from) = {} /\ mem.bad -> mem
          [] From(seen[n], j.from) = {} /\ ~mem.bad
                /\ ~ for \subseteq mem.complaintsFromOthers -> MarkBadMember(mem)
          [] OTHER ->
                [mem EXCEPT
                    !.bad = fitting # for,
                    !.complaintsFromOthers = @ \ fitting,
                    !.weComplain = @ /\ n \notin fitting,
                    !.sk = IF n \in fitting THEN j.shares[n] ELSE @]

ReceiveJustifications(n, S) ==
    [m \in Members |->
        IF From(S, m) = {} THEN member[n][m]
        ELSE ReceiveJustification(n, CHOOSE j \in From(S, m) : TRUE, member[n][m])]

\* A premature commitment that names fewer than minSize valid members is
\* dropped.  If all vectors are known it must agree with them and its share of
\* the quorum signature must verify; if not, it is taken as it is.
ReceiveCommitments(n, S) ==
    {c \in S :
        LET V == DOMAIN c.key
        IN  /\ Cardinality(V) >= minSize
            /\ (\A m \in V : member[n][m].vvec # None) =>
                   c.sig /\ \A m \in V : member[n][m].vvec = c.key[m]}

\* ProcessPendingMessageBatch: the state of the members once S is handled.
ProcessPending(n, S) ==
    CASE phase[n] = PhaseContribute -> ReceiveContributions(n, S)
      [] phase[n] = PhaseComplain -> ReceiveComplaints(n, S)
      [] phase[n] = PhaseJustify -> ReceiveJustifications(n, S)
      [] phase[n] = PhaseCommit -> member[n]

ProcessPendingCommitments(n, S) ==
    IF phase[n] = PhaseCommit THEN valid[n] \cup ReceiveCommitments(n, S) ELSE valid[n]

-----------------------------------------------------------------------------
(* The steps of a phase.                                                    *)

Fault(k) ==
    /\ faults + k <= MaxFaults
    /\ faults' = faults + k

\* Members that have not started n's phase when n leaves it: what they send in
\* it comes too late for n.
Behind(n) ==
    {h \in Honest : /\ phase[h] # Aborted
                    /\ phase[h] = phase[n] /\ ~started[h]}

\* Nothing of a phase happens before every member has reached it: messages of
\* the phase would wait for the members that have not, so nothing is lost by it.
Reached(p) == \A h \in Honest : phase[h] = Aborted \/ phase[h] >= p

\* Messages handled while n sleeps before the start function, or after it while
\* it waits for the next phase.
Receive(n, S) ==
    /\ member' = [member EXCEPT ![n] = ProcessPending(n, S)]
    /\ valid' = [valid EXCEPT ![n] = ProcessPendingCommitments(n, S)]
    /\ seen' = [seen EXCEPT ![n] = @ \cup S]
    /\ UNCHANGED <<phase, started, sent, final, msgs, signed, faults>>

Twice(x) == \E y \in msgs : y # x /\ y.phase = x.phase /\ y.from = x.from

\* Before the start function.  A single complaint changes nothing that
\* VerifyAndComplain reads.
SleepBeforePhase(n) ==
    /\ phase[n] \in {PhaseComplain, PhaseJustify} /\ ~started[n] /\ Reached(phase[n])
    /\ \E x \in Pending(n) :
        /\ phase[n] = PhaseComplain => Twice(x)
        /\ Receive(n, {x})

\* After it, before the messages handled last: one of a sender's several.
WhileWait(n) ==
    /\ phase[n] \in PhaseContribute .. PhaseCommit /\ started[n]
    /\ \E x \in Pending(n) : Twice(x) /\ Receive(n, {x})

\* The phase starts at n: n's members become mem, and n sends the messages out,
\* one or none.
StartPhase(n, mem, out) ==
    /\ ~started[n] /\ Reached(phase[n])
    /\ started' = [started EXCEPT ![n] = TRUE]
    /\ member' = [member EXCEPT ![n] = mem]
    /\ msgs' = msgs \cup out
    /\ UNCHANGED <<phase, seen, valid, final, signed, faults>>

Contribute(n) ==
    /\ phase[n] = PhaseContribute
    /\ StartPhase(n, member[n],
           {[phase |-> PhaseContribute, from |-> n, vvec |-> OwnVvec, fits |-> Members]})
    /\ UNCHANGED sent

\* Variant: a share is stored as it comes.
StoreUnverified(mem) ==
    IF mem.bad \/ mem.vvec = None THEN mem
    ELSE [mem EXCEPT !.sk = IF mem.fits THEN mem.vvec ELSE CHOOSE v \in Vvecs : v # mem.vvec]

\* VerifyPendingContributions for one member: a share that fits is stored, one
\* that does not (or could not be decrypted) is complained about.
VerifyPendingContribution(mem) ==
    IF mem.bad \/ mem.vvec = None THEN mem
    ELSE [mem EXCEPT !.sk = IF mem.fits THEN mem.vvec ELSE @,
                     !.weComplain = ~mem.fits]

VerifyAndComplain(n) ==
    LET mem == [m \in Members |->
                   LET v == VerifyPendingContribution(member[n][m])
                   IN  [v EXCEPT !.bad = @ \/ v.vvec = None]]
        bad == {m \in Members : mem[m].bad}
        complain == {m \in Members \ bad : mem[m].weComplain}
    IN  /\ phase[n] = PhaseComplain
        /\ StartPhase(n, mem,
               IF bad = {} /\ complain = {} THEN {}
               ELSE {[phase |-> PhaseComplain, from |-> n, bad |-> bad,
                      complain |-> complain]})
        /\ UNCHANGED sent

VerifyAndJustify(n) ==
    LET mem == [m \in Members |->
                   [member[n][m] EXCEPT
                       !.bad = @ \/ Cardinality(member[n][m].badMemberVotes)
                                        >= dkgBadVotesThreshold]]
        justifyFor == {m \in Members : ~mem[m].bad /\ mem[m].complaints = 1 /\ mem[m].aboutUs}
    IN  /\ phase[n] = PhaseJustify
        /\ StartPhase(n, mem,
               IF justifyFor = {} THEN {}
               ELSE {[phase |-> PhaseJustify, from |-> n,
                      shares |-> [m \in justifyFor |-> OwnVvec]]})
        /\ UNCHANGED sent

\* A member with an open complaint is bad for good.
CloseComplaints(mem) ==
    [m \in Members |-> [mem[m] EXCEPT !.bad = @ \/ mem[m].complaintsFromOthers # {}]]

\* Variant: the key is made of the vectors of all members.
KeyOfAllMembers(mem) ==
    IF Cardinality({m \in Members : ~mem[m].bad}) >= minSize
    THEN [m \in Members |-> mem[m].vvec]
    ELSE None

\* SendCommitment: the key of the valid members, or None when there are too few
\* of them or a vector or a secret share of one is missing.
SendCommitment(mem) ==
    LET V == {m \in Members : ~mem[m].bad}
    IN  IF /\ Cardinality(V) >= minSize
           /\ \A m \in V : mem[m].vvec # None /\ mem[m].sk # None
        THEN [m \in V |-> mem[m].vvec]
        ELSE None

VerifyAndCommit(n) ==
    LET mem == CloseComplaints(member[n])
        key == SendCommitment(mem)
    IN  /\ phase[n] = PhaseCommit
        /\ StartPhase(n, mem,
               IF key = None THEN {}
               ELSE {[phase |-> PhaseCommit, from |-> n, key |-> key, sig |-> TRUE]})
        /\ sent' = [sent EXCEPT ![n] = key]

\* A member serves and handles messages of its own phase only.
Useful(S) == {x \in S : \E h \in Honest : phase'[h] # Aborted /\ phase'[h] <= x.phase}

\* The phase ends at n after it has handled S; the rest of it is lost to n.
EndPhase(n, S) ==
    /\ started[n]
    /\ phase' = [phase EXCEPT ![n] = @ + 1]
    /\ started' = [started EXCEPT ![n] = FALSE]
    /\ seen' = [seen EXCEPT ![n] = {}]
    /\ msgs' = Useful(msgs)
    /\ Fault(Cardinality(Pending(n) \ S) + Cardinality(Behind(n)))
    /\ UNCHANGED <<sent, signed>>

WaitForNextPhase(n) ==
    /\ phase[n] \in PhaseContribute .. PhaseJustify
    /\ \E S \in Batches(n) :
        /\ EndPhase(n, S)
        /\ member' = [member EXCEPT ![n] = ProcessPending(n, S)]
    /\ UNCHANGED <<valid, final>>

\* The final commitment for the commitments C that name the same valid members,
\* with first the one the others are compared with.  Recovering the quorum
\* signature fails when a member signed twice.
FinalCommitment(C, first) ==
    LET same == {c \in C : c.key = first.key}
    IN  IF \A c, d \in same : c.from = d.from => c = d
        THEN {[key |-> first.key, signers |-> {c.from : c \in same},
               sig |-> \A c \in same : c.sig]}
        ELSE {}

FinalizeCommitments(n) ==
    /\ phase[n] = PhaseCommit
    /\ \E S \in Batches(n) :
        LET all == ProcessPendingCommitments(n, S)
            Group(V) == {c \in all : DOMAIN c.key = V}
            Large == {V \in {DOMAIN c.key : c \in all} : Cardinality(Group(V)) >= minSize}
        IN  /\ EndPhase(n, S)
            /\ valid' = [valid EXCEPT ![n] = all]
            /\ \E first \in [Large -> all] :
                /\ \A V \in Large : first[V] \in Group(V)
                /\ final' = [final EXCEPT ![n] =
                                UNION {FinalCommitment(Group(V), first[V]) : V \in Large}]
    /\ UNCHANGED member

\* The phase jumps, the quorum block is reorganized away, or the node stops.
AbortPhase(n) ==
    /\ phase[n] \in PhaseContribute .. PhaseCommit
    /\ phase' = [phase EXCEPT ![n] = Aborted]
    /\ seen' = [seen EXCEPT ![n] = {}]
    /\ msgs' = Useful(msgs)
    /\ Fault(1)
    /\ UNCHANGED <<started, member, valid, sent, final, signed>>

\* A faulty member signs a message before the first honest member handles or
\* sends one of that phase: pending messages wait, so a later one adds nothing.
FaultySend ==
    \E x \in FaultyMessages :
        /\ \E h \in Honest : phase[h] = x.phase
        /\ \A h \in Honest :
            /\ phase[h] <= x.phase
            /\ phase[h] = x.phase => ~started[h] /\ seen[h] = {}
        /\ x \notin msgs
        /\ signed < MaxSigned
        /\ signed' = signed + 1
        /\ msgs' = msgs \cup {x}
        /\ UNCHANGED <<phase, started, member, seen, valid, sent, final, faults>>

Next ==
    \/ \E n \in Honest :
        \/ SleepBeforePhase(n) \/ WhileWait(n) \/ WaitForNextPhase(n) \/ AbortPhase(n)
        \/ Contribute(n) \/ VerifyAndComplain(n) \/ VerifyAndJustify(n)
        \/ VerifyAndCommit(n) \/ FinalizeCommitments(n)
    \/ FaultySend

Spec == Init /\ [][Next]_vars

-----------------------------------------------------------------------------
\* Variant: the signers are not counted.
VerifyAnySigners(f) == Cardinality(DOMAIN f.key) >= minSize /\ f.sig

\* CFinalCommitment::Verify: what other nodes require of a final commitment.
Verify(f) ==
    Cardinality(DOMAIN f.key) >= minSize /\ Cardinality(f.signers) >= minSize /\ f.sig

\* Every honest member's view of the session is well formed.
TypeOK ==
    /\ phase \in [Honest -> {Aborted} \cup PhaseContribute .. PhaseFinalize]
    /\ started \in [Honest -> BOOLEAN]
    /\ member \in [Honest -> [Members -> MemberState]]
    /\ seen \in [Honest -> SUBSET Messages]
    /\ valid \in [Honest -> SUBSET Commitments]
    /\ sent \in [Honest -> Keys \cup {None}]
    /\ final \in [Honest -> SUBSET FinalCommitments]
    /\ msgs \in SUBSET Messages
    /\ signed \in 0 .. MaxSigned
    /\ faults \in 0 .. MaxFaults

\* Every message of a phase has reached every honest member in it, and no member
\* is seen to have complained twice.
Undisturbed ==
    faults = 0 /\ \A n \in Honest, m \in Members : member[n][m].complaints < 2

\* As long as every message reaches every honest member in its phase and no
\* member complains twice, an honest member takes another for bad only over an
\* open complaint of a member that is bad itself: VerifyAndJustify does not
\* answer those, VerifyAndCommit counts them.
HonestStayValid ==
    Undisturbed /\ dkgBadVotesThreshold > Cardinality(Faulty) =>
        \A n, h \in Honest : member[n][h].bad =>
            \E x \in member[n][h].complaintsFromOthers : member[n][x].bad

\* As long as every message reaches every honest member in its phase, no member
\* complained twice and the honest members are valid and enough, a member that is
\* through with the session has a final commitment that verifies, whatever the
\* faulty members contribute, complain, justify and commit.
SessionSucceeds ==
    /\ Undisturbed
    /\ Cardinality(Honest) >= minSize
    /\ \A n, h \in Honest : ~member[n][h].bad
    => \A n \in Honest : phase[n] = PhaseFinalize => \E f \in final[n] : Verify(f)

\* The key of a final commitment that verifies can sign: at least minSize
\* members less the faulty ones hold a share of it from every valid member,
\* verified against the vectors the key is made of, even when messages are lost.
KeyHeld ==
    \A n \in Honest : \A f \in final[n] : Verify(f) =>
        Cardinality({h \in Honest : \A m \in DOMAIN f.key :
                        member[h][m].vvec = f.key[m] /\ member[h][m].sk = f.key[m]})
            >= minSize - Cardinality(Faulty)

\* Two final commitments that verify, of any two members, are for one key when
\* two sets of minSize signers share an honest member.
OneFinalKey ==
    2 * minSize > Cardinality(Members) + Cardinality(Faulty) =>
        \A n, h \in Honest : \A f \in final[n], g \in final[h] :
            Verify(f) /\ Verify(g) => f.key = g.key

=============================================================================
