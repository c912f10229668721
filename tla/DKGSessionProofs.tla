-------------------------- MODULE DKGSessionProofs --------------------------
(***************************************************************************)
(* Whatever is lost or late and whatever the faulty members sign, a final  *)
(* commitment that verifies is for a key that enough honest members hold   *)
(* (KeyHeld), and no two are for different keys when two sets of minSize   *)
(* signers share an honest member (OneFinalKey).  And in a session without *)
(* losses the honest members come to one verdict on every member, so that  *)
(* none of them is called bad by mistake (HonestStayValid) and enough of   *)
(* them make a quorum (SessionSucceeds).                                   *)
(***************************************************************************)
EXTENDS DKGSession, FiniteSetTheorems, TLAPS

\* The members of CDKGMember.
Fields == DOMAIN NewMember

\* What a member knows of the others: a share is stored only with the vector it
\* fits.
Sound(mem) ==
    /\ DOMAIN mem = Members
    /\ \A m \in Members : DOMAIN mem[m] = Fields /\ mem[m].sk \in {None, mem[m].vvec}

\* No share has been checked yet.
NoShares(mem) == \A m \in Members : mem[m].sk = None

\* A commitment in the name of an honest member is the one it sent.
Authentic(c) ==
    /\ c.from \in Members
    /\ c.from \in Honest => sent[c.from] # None /\ c.key = sent[c.from]

\* h holds the vectors and shares that make the quorum key.
Holds(h, key) ==
    \A m \in DOMAIN key : member[h][m].vvec = key[m] /\ member[h][m].sk = key[m]

\* The inductive invariant behind KeyHeld and OneFinalKey: a member commits at most
\* once, to vectors and shares it holds and keeps.
IndInv ==
    /\ DOMAIN phase = Honest /\ DOMAIN started = Honest /\ DOMAIN member = Honest
    /\ DOMAIN seen = Honest /\ DOMAIN valid = Honest /\ DOMAIN sent = Honest
    /\ DOMAIN final = Honest
    /\ \A n \in Honest :
        /\ Sound(member[n])
        /\ phase[n] = PhaseContribute => NoShares(member[n])
        /\ \/ phase[n] \in PhaseContribute .. PhaseJustify
           \/ phase[n] = PhaseCommit /\ ~started[n]
           => sent[n] = None
        /\ sent[n] # None => Holds(n, sent[n])
        /\ \A c \in valid[n] : Authentic(c)
        /\ \A f \in final[n] :
            f.signers \subseteq Members /\ \A h \in f.signers \cap Honest :
                sent[h] # None /\ sent[h] = f.key
    /\ \A x \in msgs : x.from \in Members /\ (x.phase = PhaseCommit => Authentic(x))

-----------------------------------------------------------------------------
\* Init satisfies the invariant.
LEMMA IndInit == Init => IndInv
  BY DEF Init, IndInv, Sound, NoShares, Fields, NewMember, PhaseContribute, PhaseCommit,
         PhaseJustify, Authentic, Holds

-----------------------------------------------------------------------------
(* The steps, by what they share.                                           *)

\* Every step keeps the invariant.
LEMMA IndStep == IndInv /\ [Next]_vars => IndInv'
\* What the invariant says of one member.
<1>MemberFacts.
  ASSUME IndInv, NEW h \in Honest
  PROVE  /\ Sound(member[h])
         /\ phase[h] = PhaseContribute => NoShares(member[h])
         /\ sent[h] # None => Holds(h, sent[h])
         /\ \A c \in valid[h] : Authentic(c)
         /\ \/ phase[h] \in PhaseContribute .. PhaseJustify
            \/ phase[h] = PhaseCommit /\ ~started[h]
            => sent[h] = None
  BY <1>MemberFacts, Zenon DEF IndInv
\* A member whose knowledge and key stay the same keeps its part.
<1>KnowledgeKept.
  ASSUME IndInv, NEW h \in Honest, member'[h] = member[h], sent'[h] = sent[h]
  PROVE  /\ Sound(member[h])'
         /\ (sent[h] # None => Holds(h, sent[h]))'
         /\ phase[h] = PhaseContribute => NoShares(member[h])'
  <2> USE <1>KnowledgeKept
  <2>1. Sound(member[h])'
    BY <1>MemberFacts DEF Sound
  <2>2. (sent[h] # None => Holds(h, sent[h]))'
    BY <1>MemberFacts, Zenon DEF Holds
  <2>3. phase[h] = PhaseContribute => NoShares(member[h])'
    BY <1>MemberFacts, Zenon DEF NoShares
  <2> QED
    BY <2>1, <2>2, <2>3, Zenon
\* Handling messages keeps what a member knows sound: contributions bring no
\* share, and a justification only one that fits.
<1>ProcessPendingSound.
  ASSUME NEW n \in Honest, NEW S, Sound(member[n]),
         phase[n] = PhaseContribute => NoShares(member[n]),
         phase[n] \in PhaseContribute .. PhaseCommit
  PROVE  /\ Sound(ProcessPending(n, S))
         /\ phase[n] = PhaseContribute => NoShares(ProcessPending(n, S))
         /\ phase[n] = PhaseCommit => ProcessPending(n, S) = member[n]
  <2> USE <1>ProcessPendingSound
  <2> USE DEF PhaseContribute, PhaseComplain, PhaseJustify, PhaseCommit
  <2>0. phase[n] \in {2, 3, 4, 5}
    OBVIOUS
  <2>1. CASE phase[n] = PhaseContribute
    <3>1. ProcessPending(n, S) = ReceiveContributions(n, S)
      BY <2>1 DEF ProcessPending
    <3>2. ASSUME NEW m \in Members
          PROVE  /\ DOMAIN ReceiveContributions(n, S)[m] = Fields
                 /\ ReceiveContributions(n, S)[m].sk = None
      <4>1. /\ DOMAIN member[n][m] = Fields
            /\ member[n][m].sk = None
        BY <2>1, Zenon DEF Sound, NoShares
      <4>2. ASSUME NEW c
            PROVE  /\ DOMAIN ReceiveContribution(n, c, member[n][m]) = Fields
                   /\ ReceiveContribution(n, c, member[n][m]).sk = None
        BY <4>1, Zenon DEF ReceiveContribution, MarkBadMember, Fields, NewMember
      <4> QED
        BY <4>1, <4>2, Zenon DEF ReceiveContributions
    <3> QED
      BY <2>1, <3>1, <3>2 DEF Sound, NoShares, ReceiveContributions
  <2>2. CASE phase[n] = PhaseComplain
    <3>1. ProcessPending(n, S) = ReceiveComplaints(n, S)
      BY <2>2 DEF ProcessPending
    <3>2. ASSUME NEW m \in Members
          PROVE  /\ DOMAIN ReceiveComplaints(n, S)[m] = Fields
                 /\ ReceiveComplaints(n, S)[m].sk = member[n][m].sk
                 /\ ReceiveComplaints(n, S)[m].vvec = member[n][m].vvec
      <4>1. DOMAIN member[n][m] = Fields
        BY Zenon DEF Sound
      <4> QED
        BY <4>1, Zenon DEF ReceiveComplaints, Fields, NewMember
    <3>3. DOMAIN ReceiveComplaints(n, S) = Members
      BY Zenon DEF ReceiveComplaints
    <3> QED
      BY <2>2, <3>1, <3>2, <3>3 DEF Sound
  <2>3. CASE phase[n] = PhaseJustify
    <3>1. ProcessPending(n, S) = ReceiveJustifications(n, S)
      BY <2>3 DEF ProcessPending
    <3>2. ASSUME NEW m \in Members
          PROVE  /\ DOMAIN ReceiveJustifications(n, S)[m] = Fields
                 /\ ReceiveJustifications(n, S)[m].sk
                       \in {None, ReceiveJustifications(n, S)[m].vvec}
      <4>1. /\ DOMAIN member[n][m] = Fields
            /\ member[n][m].sk \in {None, member[n][m].vvec}
        BY Zenon DEF Sound
      <4>2. ASSUME NEW j
            PROVE  /\ DOMAIN ReceiveJustification(n, j, member[n][m]) = Fields
                   /\ ReceiveJustification(n, j, member[n][m]).sk
                         \in {None, ReceiveJustification(n, j, member[n][m]).vvec}
        BY <4>1, Zenon DEF ReceiveJustification, MarkBadMember, Fields, NewMember
      <4> QED
        BY <4>1, <4>2, Zenon DEF ReceiveJustifications
    <3>3. DOMAIN ReceiveJustifications(n, S) = Members
      BY Zenon DEF ReceiveJustifications
    <3> QED
      BY <2>3, <3>1, <3>2, <3>3 DEF Sound
  <2>4. CASE phase[n] = PhaseCommit
    BY <2>4 DEF ProcessPending
  <2> QED
    BY <2>0, <2>1, <2>2, <2>3, <2>4, Zenon
\* Handling pending messages.
<1>ReceiveStep.
  ASSUME IndInv, NEW n \in Honest, NEW S \in SUBSET Pending(n),
         phase[n] \in PhaseContribute .. PhaseCommit, Receive(n, S)
  PROVE  IndInv'
  <2> USE <1>ReceiveStep
  <2> USE DEF PhaseContribute, PhaseComplain, PhaseJustify, PhaseCommit
  <2>1. /\ Sound(ProcessPending(n, S))
        /\ phase[n] = PhaseContribute => NoShares(ProcessPending(n, S))
        /\ phase[n] = PhaseCommit => ProcessPending(n, S) = member[n]
    BY <1>ProcessPendingSound, Zenon DEF IndInv
  <2>2. /\ UNCHANGED <<phase, started, sent, final, msgs>>
        /\ member' = [member EXCEPT ![n] = ProcessPending(n, S)]
        /\ valid' = [valid EXCEPT ![n] = ProcessPendingCommitments(n, S)]
        /\ seen' = [seen EXCEPT ![n] = @ \cup S]
    BY Zenon DEF Receive
  <2>3. \A c \in ProcessPendingCommitments(n, S) : Authentic(c)
    <3>1. ASSUME NEW c \in S, phase[n] = PhaseCommit PROVE Authentic(c)
      BY <3>1, Zenon DEF IndInv, Pending
    <3> QED
      BY <3>1, Zenon DEF ProcessPendingCommitments, ReceiveCommitments, IndInv
  <2>4. \A c : Authentic(c) => Authentic(c)'
    BY <2>2, Zenon DEF Authentic
  <2>5. ASSUME NEW h \in Honest
        PROVE  /\ Sound(member[h])'
               /\ (phase[h] = PhaseContribute => NoShares(member[h]))'
               /\ (sent[h] # None => Holds(h, sent[h]))'
               /\ \A c \in valid'[h] : Authentic(c)'
    <3>1. CASE h = n
      <4>1. member'[n] = ProcessPending(n, S) /\ valid'[n] = ProcessPendingCommitments(n, S)
        BY <2>2, Zenon DEF IndInv
      <4>2. sent[n] # None => member'[n] = member[n]
        BY <2>1, <4>1 DEF IndInv
      <4>3. (sent[n] # None => Holds(n, sent[n]))'
        BY <4>2, <2>2 DEF IndInv, Holds
      <4> QED
        BY <2>1, <2>2, <2>3, <2>4, <3>1, <4>1, <4>3, Zenon DEF Sound, NoShares
    <3>2. CASE h # n
      <4>1. member'[h] = member[h] /\ valid'[h] = valid[h]
        BY <2>2, <3>2, Zenon DEF IndInv
      <4>2. \A c \in valid'[h] : Authentic(c)'
        BY <2>4, <4>1, <1>MemberFacts, Zenon
      <4> QED
        BY <2>2, <4>1, <4>2, <1>KnowledgeKept, Zenon
    <3> QED
      BY <3>1, <3>2, Zenon
  <2>6. \A x \in msgs : x.from \in Members /\ (x.phase = PhaseCommit => Authentic(x))
    BY Zenon DEF IndInv
  <2>7. /\ DOMAIN phase' = Honest /\ DOMAIN started' = Honest /\ DOMAIN member' = Honest
        /\ DOMAIN seen' = Honest /\ DOMAIN valid' = Honest /\ DOMAIN sent' = Honest
        /\ DOMAIN final' = Honest
    BY <2>2, Zenon DEF IndInv
  <2>8. \A h \in Honest :
          /\ \/ phase[h] \in PhaseContribute .. PhaseJustify
             \/ phase[h] = PhaseCommit /\ ~started[h]
             => sent[h] = None
          /\ \A f \in final[h] :
              f.signers \subseteq Members /\ \A k \in f.signers \cap Honest :
                  sent[k] # None /\ sent[k] = f.key
    BY Zenon DEF IndInv
  <2> QED
    BY <2>2, <2>4, <2>5, <2>6, <2>7, <2>8, Zenon DEF IndInv
\* The start function of a phase before Commit.
<1>StartStep.
  ASSUME IndInv, NEW n \in Honest, NEW mem, NEW out,
         StartPhase(n, mem, out), UNCHANGED sent,
         phase[n] \in PhaseContribute .. PhaseJustify, Sound(mem),
         phase[n] = PhaseContribute => NoShares(mem),
         \A x \in out : x.from = n /\ x.phase # PhaseCommit
  PROVE  IndInv'
  <2> USE <1>StartStep
  <2> USE DEF PhaseContribute, PhaseComplain, PhaseJustify, PhaseCommit
  <2>1. /\ started' = [started EXCEPT ![n] = TRUE]
        /\ member' = [member EXCEPT ![n] = mem]
        /\ msgs' = msgs \cup out
        /\ UNCHANGED <<phase, seen, valid, final, sent>>
    BY Zenon DEF StartPhase
  <2>2. \A c : Authentic(c) => Authentic(c)'
    BY <2>1, Zenon DEF Authentic
  <2>3. \A x \in msgs' : x.from \in Members /\ (x.phase = PhaseCommit => Authentic(x)')
    BY <2>1, <2>2, DKGAssumption DEF IndInv
  <2>4. ASSUME NEW h \in Honest
        PROVE  /\ Sound(member[h])'
               /\ (phase[h] = PhaseContribute => NoShares(member[h]))'
               /\ (sent[h] # None => Holds(h, sent[h]))'
               /\ \A c \in valid'[h] : Authentic(c)'
               /\ (\/ phase[h] \in PhaseContribute .. PhaseJustify
                   \/ phase[h] = PhaseCommit /\ ~started[h]
                   => sent[h] = None)'
    <3>1. CASE h = n
      <4>1. member'[n] = mem /\ sent[n] = None
        BY <2>1, Zenon DEF IndInv
      <4> QED
        BY <2>1, <2>2, <3>1, <4>1, Zenon DEF IndInv, Sound, NoShares
    <3>2. CASE h # n
      <4>1. member'[h] = member[h] /\ started'[h] = started[h]
        BY <2>1, <3>2, Zenon DEF IndInv
      <4>2. \A c \in valid'[h] : Authentic(c)'
        BY <2>1, <2>2, <1>MemberFacts, Zenon
      <4>3. (\/ phase[h] \in PhaseContribute .. PhaseJustify
             \/ phase[h] = PhaseCommit /\ ~started[h]
             => sent[h] = None)'
        BY <2>1, <4>1, <1>MemberFacts, Zenon
      <4> QED
        BY <2>1, <4>1, <4>2, <4>3, <1>KnowledgeKept, Zenon
    <3> QED
      BY <3>1, <3>2, Zenon
  <2>5. \A h \in Honest : \A f \in final'[h] :
          f.signers \subseteq Members /\ \A k \in f.signers \cap Honest :
              sent'[k] # None /\ sent'[k] = f.key
    BY <2>1 DEF IndInv
  <2>6. /\ DOMAIN phase' = Honest /\ DOMAIN started' = Honest /\ DOMAIN member' = Honest
        /\ DOMAIN seen' = Honest /\ DOMAIN valid' = Honest /\ DOMAIN sent' = Honest
        /\ DOMAIN final' = Honest
    BY <2>1, Zenon DEF IndInv
  <2> QED
    BY <2>3, <2>4, <2>5, <2>6, Zenon DEF IndInv
\* Contribute changes nothing that n knows.
<1>ContributeStep.
  ASSUME IndInv, NEW n \in Honest, Contribute(n)
  PROVE  IndInv'
  <2> USE <1>ContributeStep
  <2> DEFINE out == {[phase |-> PhaseContribute, from |-> n, vvec |-> OwnVvec, fits |-> Members]}
  <2>1. StartPhase(n, member[n], out) /\ UNCHANGED sent /\ phase[n] = PhaseContribute
    BY Zenon DEF Contribute
  <2>2. Sound(member[n]) /\ NoShares(member[n])
    BY <2>1, Zenon DEF IndInv
  <2>3. \A x \in out : x.from = n /\ x.phase # PhaseCommit
    BY DEF PhaseContribute, PhaseCommit
  <2>4. phase[n] \in PhaseContribute .. PhaseJustify
    BY <2>1 DEF PhaseContribute, PhaseJustify
  <2> HIDE DEF out
  <2> QED
    BY <2>1, <2>2, <2>3, <2>4, <1>StartStep, Zenon
\* VerifyAndComplain stores shares that fit.
<1>VerifyAndComplainStep.
  ASSUME IndInv, NEW n \in Honest, VerifyAndComplain(n)
  PROVE  IndInv'
  <2> USE <1>VerifyAndComplainStep
  <2> DEFINE mem == [m \in Members |->
                       LET v == VerifyPendingContribution(member[n][m])
                       IN  [v EXCEPT !.bad = @ \/ v.vvec = None]]
             bad == {m \in Members : mem[m].bad}
             complain == {m \in Members \ bad : mem[m].weComplain}
             out == IF bad = {} /\ complain = {} THEN {}
                    ELSE {[phase |-> PhaseComplain, from |-> n, bad |-> bad,
                           complain |-> complain]}
  <2>0. phase[n] = PhaseComplain
    BY Zenon DEF VerifyAndComplain
  <2>1. StartPhase(n, mem, out) /\ UNCHANGED sent
    BY Zenon DEF VerifyAndComplain
  <2>2. ASSUME NEW m \in Members
        PROVE  DOMAIN mem[m] = Fields /\ mem[m].sk \in {None, mem[m].vvec}
    <3>1. DOMAIN member[n][m] = Fields /\ member[n][m].sk \in {None, member[n][m].vvec}
      BY Zenon DEF IndInv, Sound
    <3>2. /\ DOMAIN VerifyPendingContribution(member[n][m]) = Fields
          /\ VerifyPendingContribution(member[n][m]).sk
                \in {None, VerifyPendingContribution(member[n][m]).vvec}
      BY <3>1, Zenon DEF VerifyPendingContribution, Fields, NewMember
    <3> QED
      BY <3>2, Zenon DEF Fields, NewMember
  <2>3. Sound(mem)
    BY <2>2, Zenon DEF Sound
  <2> HIDE DEF mem, bad, complain
  <2>4. \A x \in out : x.from = n /\ x.phase # PhaseCommit
    BY DEF PhaseComplain, PhaseCommit
  <2> HIDE DEF out
  <2>5. phase[n] \in PhaseContribute .. PhaseJustify /\ phase[n] # PhaseContribute
    BY <2>0 DEF PhaseContribute, PhaseComplain, PhaseJustify
  <2> QED
    BY <2>1, <2>3, <2>4, <2>5, <1>StartStep, Zenon
\* VerifyAndJustify marks members bad.
<1>VerifyAndJustifyStep.
  ASSUME IndInv, NEW n \in Honest, VerifyAndJustify(n)
  PROVE  IndInv'
  <2> USE <1>VerifyAndJustifyStep
  <2> DEFINE mem == [m \in Members |->
                       [member[n][m] EXCEPT
                           !.bad = @ \/ Cardinality(member[n][m].badMemberVotes)
                                            >= dkgBadVotesThreshold]]
             justifyFor == {m \in Members :
                              ~mem[m].bad /\ mem[m].complaints = 1 /\ mem[m].aboutUs}
             out == IF justifyFor = {} THEN {}
                    ELSE {[phase |-> PhaseJustify, from |-> n,
                           shares |-> [m \in justifyFor |-> OwnVvec]]}
  <2>0. phase[n] = PhaseJustify
    BY Zenon DEF VerifyAndJustify
  <2>1. StartPhase(n, mem, out) /\ UNCHANGED sent
    BY Zenon DEF VerifyAndJustify
  <2>2. ASSUME NEW m \in Members
        PROVE  DOMAIN mem[m] = Fields /\ mem[m].sk \in {None, mem[m].vvec}
    <3>1. DOMAIN member[n][m] = Fields /\ member[n][m].sk \in {None, member[n][m].vvec}
      BY Zenon DEF IndInv, Sound
    <3> QED
      BY <3>1, Zenon DEF Fields, NewMember
  <2>3. Sound(mem)
    BY <2>2, Zenon DEF Sound
  <2> HIDE DEF mem, justifyFor
  <2>4. \A x \in out : x.from = n /\ x.phase # PhaseCommit
    BY DEF PhaseJustify, PhaseCommit
  <2> HIDE DEF out
  <2>5. phase[n] \in PhaseContribute .. PhaseJustify /\ phase[n] # PhaseContribute
    BY <2>0 DEF PhaseContribute, PhaseJustify
  <2> QED
    BY <2>1, <2>3, <2>4, <2>5, <1>StartStep, Zenon
\* VerifyAndCommit: n commits once, to a key whose shares it holds.
<1>VerifyAndCommitStep.
  ASSUME IndInv, NEW n \in Honest, VerifyAndCommit(n)
  PROVE  IndInv'
  <2> USE <1>VerifyAndCommitStep
  <2> USE DEF PhaseContribute, PhaseComplain, PhaseJustify, PhaseCommit
  <2> DEFINE mem == CloseComplaints(member[n])
             key == SendCommitment(mem)
             out == IF key = None THEN {}
                    ELSE {[phase |-> PhaseCommit, from |-> n, key |-> key, sig |-> TRUE]}
  <2>1. phase[n] = PhaseCommit /\ ~started[n] /\ sent[n] = None
    BY Zenon DEF VerifyAndCommit, StartPhase, IndInv
  <2>2. /\ started' = [started EXCEPT ![n] = TRUE]
        /\ member' = [member EXCEPT ![n] = mem]
        /\ msgs' = msgs \cup out
        /\ sent' = [sent EXCEPT ![n] = key]
        /\ UNCHANGED <<phase, seen, valid, final>>
    BY Zenon DEF VerifyAndCommit, StartPhase
  <2>3. Sound(mem)
    <3>1. \A m \in Members : DOMAIN member[n][m] = Fields
                               /\ member[n][m].sk \in {None, member[n][m].vvec}
      BY Zenon DEF IndInv, Sound
    <3> QED
      BY <3>1, Zenon DEF CloseComplaints, Sound, Fields, NewMember
  <2>4. key # None => \A m \in DOMAIN key : mem[m].vvec = key[m] /\ mem[m].sk = key[m]
    <3> HIDE DEF mem
    <3>1. \A m \in Members : mem[m].sk \in {None, mem[m].vvec}
      BY <2>3, Zenon DEF Sound
    <3> QED
      BY <3>1, Zenon DEF SendCommitment
  <2> HIDE DEF mem, key
  <2>5. \A c : Authentic(c) => Authentic(c)'
    BY <2>1, <2>2, Zenon DEF Authentic, IndInv
  <2>6. \A x \in out : x.from = n /\ Authentic(x)'
    <3>1. ASSUME NEW x \in out PROVE x.from = n /\ x.key = key /\ key # None
      OBVIOUS
    <3>2. sent'[n] = key
      BY <2>2, Zenon DEF IndInv
    <3> QED
      BY <3>1, <3>2, DKGAssumption, Zenon DEF Authentic
  <2> HIDE DEF out
  <2>7. \A x \in msgs' : x.from \in Members /\ (x.phase = PhaseCommit => Authentic(x)')
    <3>1. \A x \in msgs : x.from \in Members /\ (x.phase = PhaseCommit => Authentic(x))
      BY Zenon DEF IndInv
    <3>2. n \in Members
      BY DKGAssumption, Zenon
    <3> QED
      BY <2>2, <2>5, <2>6, <3>1, <3>2, Zenon
  <2>8. ASSUME NEW h \in Honest
        PROVE  /\ Sound(member[h])'
               /\ (phase[h] = PhaseContribute => NoShares(member[h]))'
               /\ (sent[h] # None => Holds(h, sent[h]))'
               /\ \A c \in valid'[h] : Authentic(c)'
               /\ (\/ phase[h] \in PhaseContribute .. PhaseJustify
                   \/ phase[h] = PhaseCommit /\ ~started[h]
                   => sent[h] = None)'
    <3>1. CASE h = n
      <4>1. member'[n] = mem /\ sent'[n] = key /\ started'[n] = TRUE /\ phase'[n] = PhaseCommit
        BY <2>1, <2>2, Zenon DEF IndInv
      <4>2. (sent[n] # None => Holds(n, sent[n]))'
        BY <2>4, <4>1, Zenon DEF Holds
      <4>3. Sound(member[n])'
        BY <2>3, <4>1, Zenon DEF Sound
      <4>4. \A c \in valid'[n] : Authentic(c)'
        BY <2>2, <2>5, Zenon DEF IndInv
      <4> QED
        BY <3>1, <4>1, <4>2, <4>3, <4>4
    <3>2. CASE h # n
      <4>1. member'[h] = member[h] /\ started'[h] = started[h] /\ sent'[h] = sent[h]
        BY <2>2, <3>2, Zenon DEF IndInv
      <4>2. Sound(member[h])' /\ (sent[h] # None => Holds(h, sent[h]))'
        BY <4>1, <1>KnowledgeKept, Zenon
      <4>3. (phase[h] = PhaseContribute => NoShares(member[h]))'
        BY <2>2, <4>1, <1>KnowledgeKept, Zenon
      <4>4. \A c \in valid'[h] : Authentic(c)'
        BY <2>2, <2>5, <1>MemberFacts, Zenon
      <4>5. (\/ phase[h] \in PhaseContribute .. PhaseJustify
             \/ phase[h] = PhaseCommit /\ ~started[h]
             => sent[h] = None)'
        BY <2>2, <4>1, <1>MemberFacts, Zenon
      <4> QED
        BY <4>2, <4>3, <4>4, <4>5, Zenon
    <3> QED
      BY <3>1, <3>2, Zenon
  <2>9. \A h \in Honest : \A f \in final'[h] :
          f.signers \subseteq Members /\ \A k \in f.signers \cap Honest :
              sent'[k] # None /\ sent'[k] = f.key
    BY <2>1, <2>2 DEF IndInv
  <2>10. /\ DOMAIN phase' = Honest /\ DOMAIN started' = Honest /\ DOMAIN member' = Honest
         /\ DOMAIN seen' = Honest /\ DOMAIN valid' = Honest /\ DOMAIN sent' = Honest
         /\ DOMAIN final' = Honest
    BY <2>2, Zenon DEF IndInv
  <2> QED
    BY <2>7, <2>8, <2>9, <2>10, Zenon DEF IndInv
\* WaitForNextPhase: the last messages of a phase are handled before n leaves it.
<1>WaitForNextPhaseStep.
  ASSUME IndInv, NEW n \in Honest, WaitForNextPhase(n)
  PROVE  IndInv'
  <2> USE <1>WaitForNextPhaseStep
  <2> USE DEF PhaseContribute, PhaseComplain, PhaseJustify, PhaseCommit
  <2>1. PICK S \in Batches(n) :
          /\ EndPhase(n, S)
          /\ member' = [member EXCEPT ![n] = ProcessPending(n, S)]
    BY Zenon DEF WaitForNextPhase
  <2>2. /\ phase[n] \in 2 .. 4
        /\ phase' = [phase EXCEPT ![n] = @ + 1]
        /\ started' = [started EXCEPT ![n] = FALSE]
        /\ seen' = [seen EXCEPT ![n] = {}]
        /\ msgs' \subseteq msgs
        /\ UNCHANGED <<sent, valid, final>>
    BY <2>1, Zenon DEF WaitForNextPhase, EndPhase, Useful
  <2>3. Sound(ProcessPending(n, S)) /\ sent[n] = None
    <3>1. Sound(member[n]) /\ (phase[n] = PhaseContribute => NoShares(member[n]))
      BY Zenon DEF IndInv
    <3>2. phase[n] \in PhaseContribute .. PhaseCommit
      BY <2>2
    <3>3. Sound(ProcessPending(n, S))
      BY <3>1, <3>2, <1>ProcessPendingSound, Zenon
    <3>4. sent[n] = None
      BY <2>2, Zenon DEF IndInv
    <3> QED
      BY <3>3, <3>4, Zenon
  <2>4. \A c : Authentic(c) => Authentic(c)'
    BY <2>2, Zenon DEF Authentic
  <2>5. ASSUME NEW h \in Honest
        PROVE  /\ Sound(member[h])'
               /\ (phase[h] = PhaseContribute => NoShares(member[h]))'
               /\ (sent[h] # None => Holds(h, sent[h]))'
               /\ \A c \in valid'[h] : Authentic(c)'
               /\ (\/ phase[h] \in PhaseContribute .. PhaseJustify
                   \/ phase[h] = PhaseCommit /\ ~started[h]
                   => sent[h] = None)'
    <3>1. CASE h = n
      <4>1. member'[n] = ProcessPending(n, S) /\ phase'[n] = phase[n] + 1
        BY <2>1, <2>2, Zenon DEF IndInv
      <4>2. Sound(member[n])'
        BY <2>3, <4>1, Zenon DEF Sound
      <4>3. phase'[n] # PhaseContribute /\ sent'[n] = None /\ valid'[n] = valid[n]
        BY <2>2, <2>3, <4>1
      <4>4. \A c \in valid'[n] : Authentic(c)'
        BY <2>4, <4>3, Zenon DEF IndInv
      <4> QED
        BY <3>1, <4>2, <4>3, <4>4, Zenon
    <3>2. CASE h # n
      <4>1. member'[h] = member[h] /\ started'[h] = started[h] /\ phase'[h] = phase[h]
        BY <2>1, <2>2, <3>2, Zenon DEF IndInv
      <4>2. sent'[h] = sent[h] /\ valid'[h] = valid[h]
        BY <2>2, Zenon
      <4>3. Sound(member[h])' /\ (sent[h] # None => Holds(h, sent[h]))'
        BY <4>1, <4>2, <1>KnowledgeKept, Zenon
      <4>4. (phase[h] = PhaseContribute => NoShares(member[h]))'
        BY <4>1, <4>2, <1>KnowledgeKept, Zenon
      <4>5. \A c \in valid'[h] : Authentic(c)'
        BY <2>4, <4>2, <1>MemberFacts, Zenon
      <4>6. (\/ phase[h] \in PhaseContribute .. PhaseJustify
             \/ phase[h] = PhaseCommit /\ ~started[h]
             => sent[h] = None)'
        BY <4>1, <4>2, <1>MemberFacts, Zenon
      <4> QED
        BY <4>3, <4>4, <4>5, <4>6, Zenon
    <3> QED
      BY <3>1, <3>2, Zenon
  <2>6. \A x \in msgs' : x.from \in Members /\ (x.phase = PhaseCommit => Authentic(x)')
    BY <2>2, <2>4, Zenon DEF IndInv
  <2>7. \A h \in Honest : \A f \in final'[h] :
          f.signers \subseteq Members /\ \A k \in f.signers \cap Honest :
              sent'[k] # None /\ sent'[k] = f.key
    BY <2>2, Zenon DEF IndInv
  <2>8. /\ DOMAIN phase' = Honest /\ DOMAIN started' = Honest /\ DOMAIN member' = Honest
        /\ DOMAIN seen' = Honest /\ DOMAIN valid' = Honest /\ DOMAIN sent' = Honest
        /\ DOMAIN final' = Honest
    BY <2>1, <2>2, Zenon DEF IndInv
  <2> QED
    BY <2>5, <2>6, <2>7, <2>8, Zenon DEF IndInv
\* FinalizeCommitments: the signers of a final commitment sent its key.
<1>FinalizeCommitmentsStep.
  ASSUME IndInv, NEW n \in Honest, FinalizeCommitments(n)
  PROVE  IndInv'
  <2> USE <1>FinalizeCommitmentsStep
  <2> USE DEF PhaseContribute, PhaseComplain, PhaseJustify, PhaseCommit
  <2>0. phase[n] = PhaseCommit /\ UNCHANGED member
    BY Zenon DEF FinalizeCommitments
  <2>1. PICK S \in Batches(n) :
          LET all == ProcessPendingCommitments(n, S)
              Group(V) == {c \in all : DOMAIN c.key = V}
              Large == {V \in {DOMAIN c.key : c \in all} : Cardinality(Group(V)) >= minSize}
          IN  /\ EndPhase(n, S)
              /\ valid' = [valid EXCEPT ![n] = all]
              /\ \E first \in [Large -> all] :
                  /\ \A V \in Large : first[V] \in Group(V)
                  /\ final' = [final EXCEPT ![n] =
                                  UNION {FinalCommitment(Group(V), first[V]) : V \in Large}]
    BY Zenon DEF FinalizeCommitments
  <2> DEFINE all == ProcessPendingCommitments(n, S)
             Group(V) == {c \in all : DOMAIN c.key = V}
             Large == {V \in {DOMAIN c.key : c \in all} : Cardinality(Group(V)) >= minSize}
  <2>2. PICK first \in [Large -> all] :
          final' = [final EXCEPT ![n] =
                       UNION {FinalCommitment(Group(V), first[V]) : V \in Large}]
    BY <2>1, Zenon
  <2>3. /\ valid' = [valid EXCEPT ![n] = all]
        /\ phase' = [phase EXCEPT ![n] = @ + 1]
        /\ started' = [started EXCEPT ![n] = FALSE]
        /\ seen' = [seen EXCEPT ![n] = {}]
        /\ msgs' \subseteq msgs
        /\ UNCHANGED <<sent, member>>
    BY <2>0, <2>1, Zenon DEF EndPhase, Useful
  <2>4. \A c \in all : Authentic(c)
    <3>1. S \subseteq Pending(n)
      BY Zenon DEF Batches
    <3>2. ASSUME NEW c \in S PROVE Authentic(c)
      BY <2>0, <3>1, <3>2, Zenon DEF IndInv, Pending
    <3> QED
      BY <3>2, Zenon DEF ProcessPendingCommitments, ReceiveCommitments, IndInv
  <2>5. ASSUME NEW f \in final'[n]
        PROVE  /\ f.signers \subseteq Members
               /\ \A k \in f.signers \cap Honest : sent[k] # None /\ sent[k] = f.key
    <3>1. final'[n] = UNION {FinalCommitment(Group(V), first[V]) : V \in Large}
      BY <2>2, Zenon DEF IndInv
    <3>2. PICK V \in Large : f \in FinalCommitment(Group(V), first[V])
      BY <3>1, Zenon
    <3> DEFINE same == {c \in Group(V) : c.key = first[V].key}
    <3>3. f.key = first[V].key /\ f.signers = {c.from : c \in same}
      <4>1. f \in {[key |-> first[V].key, signers |-> {c.from : c \in same},
                     sig |-> \A c \in same : c.sig]}
        BY <3>2, Zenon DEF FinalCommitment
      <4> HIDE DEF same, Group
      <4> QED
        BY <4>1
    <3>4. \A c \in same : Authentic(c) /\ c.key = f.key
      BY <2>4, <3>3, Zenon
    <3> HIDE DEF same
    <3> QED
      BY <3>3, <3>4, Zenon DEF Authentic
  <2> HIDE DEF all, Group, Large
  <2>d. /\ DOMAIN phase = Honest /\ DOMAIN started = Honest
        /\ DOMAIN valid = Honest /\ DOMAIN final = Honest
    BY Zenon DEF IndInv
  <2>6. \A c : Authentic(c) => Authentic(c)'
    BY <2>3, Zenon DEF Authentic
  <2>7. ASSUME NEW h \in Honest
        PROVE  /\ Sound(member[h])'
               /\ (phase[h] = PhaseContribute => NoShares(member[h]))'
               /\ (sent[h] # None => Holds(h, sent[h]))'
               /\ \A c \in valid'[h] : Authentic(c)'
               /\ (\/ phase[h] \in PhaseContribute .. PhaseJustify
                   \/ phase[h] = PhaseCommit /\ ~started[h]
                   => sent[h] = None)'
               /\ \A f \in final'[h] :
                   f.signers \subseteq Members /\ \A k \in f.signers \cap Honest :
                       sent'[k] # None /\ sent'[k] = f.key
    <3>1. Sound(member[h])' /\ (sent[h] # None => Holds(h, sent[h]))'
      BY <2>3, <1>KnowledgeKept, Zenon
    <3>2. CASE h = n
      <4>1. phase'[n] = 6 /\ valid'[n] = all
        BY <2>0, <2>3, <2>d
      <4>2. \A c \in valid'[n] : Authentic(c)'
        BY <2>4, <2>6, <4>1, Zenon
      <4>3. \A f \in final'[n] :
              f.signers \subseteq Members /\ \A k \in f.signers \cap Honest :
                  sent'[k] # None /\ sent'[k] = f.key
        BY <2>3, <2>5, Zenon
      <4>4. phase'[n] # PhaseContribute /\ phase'[n] \notin PhaseContribute .. PhaseJustify
            /\ phase'[n] # PhaseCommit
        BY <4>1
      <4> QED
        BY <3>1, <3>2, <4>2, <4>3, <4>4, Zenon
    <3>3. CASE h # n
      <4>1. /\ valid'[h] = valid[h] /\ started'[h] = started[h] /\ phase'[h] = phase[h]
            /\ final'[h] = final[h]
        BY <2>2, <2>3, <2>d, <3>3, Zenon
      <4>2. (phase[h] = PhaseContribute => NoShares(member[h]))'
        BY <2>3, <4>1, <1>KnowledgeKept, Zenon
      <4>3. \A c \in valid'[h] : Authentic(c)'
        BY <2>6, <4>1, <1>MemberFacts, Zenon
      <4>4. (\/ phase[h] \in PhaseContribute .. PhaseJustify
             \/ phase[h] = PhaseCommit /\ ~started[h]
             => sent[h] = None)'
        BY <2>3, <4>1, <1>MemberFacts, Zenon
      <4>5. \A f \in final'[h] :
              f.signers \subseteq Members /\ \A k \in f.signers \cap Honest :
                  sent'[k] # None /\ sent'[k] = f.key
        BY <2>3, <4>1, Zenon DEF IndInv
      <4> QED
        BY <3>1, <4>2, <4>3, <4>4, <4>5, Zenon
    <3> QED
      BY <3>2, <3>3, Zenon
  <2>8. \A x \in msgs' : x.from \in Members /\ (x.phase = PhaseCommit => Authentic(x)')
    BY <2>3, <2>6, Zenon DEF IndInv
  <2>9. /\ DOMAIN phase' = Honest /\ DOMAIN started' = Honest /\ DOMAIN member' = Honest
        /\ DOMAIN seen' = Honest /\ DOMAIN valid' = Honest /\ DOMAIN sent' = Honest
        /\ DOMAIN final' = Honest
    BY <2>2, <2>3, Zenon DEF IndInv
  <2> QED
    BY <2>7, <2>8, <2>9, Zenon DEF IndInv
\* AbortPhase: an aborted member takes no further part.
<1>AbortPhaseStep.
  ASSUME IndInv, NEW n \in Honest, AbortPhase(n)
  PROVE  IndInv'
  <2> USE <1>AbortPhaseStep
  <2> USE DEF PhaseContribute, PhaseJustify, PhaseCommit, Aborted
  <2>1. /\ phase' = [phase EXCEPT ![n] = 0]
        /\ seen' = [seen EXCEPT ![n] = {}]
        /\ msgs' \subseteq msgs
        /\ UNCHANGED <<started, member, valid, sent, final>>
    BY Zenon DEF AbortPhase, Useful
  <2>2. \A c : Authentic(c) <=> Authentic(c)'
    BY <2>1, Zenon DEF Authentic
  <2>3. \A h \in Honest : phase'[h] = phase[h] \/ phase'[h] = 0
    BY <2>1, Zenon DEF IndInv
  <2>4. ASSUME NEW h \in Honest
        PROVE  /\ Sound(member[h])'
               /\ (phase[h] = PhaseContribute => NoShares(member[h]))'
               /\ (sent[h] # None => Holds(h, sent[h]))'
               /\ \A c \in valid'[h] : Authentic(c)'
               /\ (\/ phase[h] \in PhaseContribute .. PhaseJustify
                   \/ phase[h] = PhaseCommit /\ ~started[h]
                   => sent[h] = None)'
               /\ \A f \in final'[h] :
                   f.signers \subseteq Members /\ \A k \in f.signers \cap Honest :
                       sent'[k] # None /\ sent'[k] = f.key
    <3>1. Sound(member[h])'
      BY <2>1, <1>KnowledgeKept, Zenon
    <3>2. (sent[h] # None => Holds(h, sent[h]))'
      BY <2>1, <1>KnowledgeKept, Zenon
    <3>3. (phase[h] = PhaseContribute => NoShares(member[h]))'
      BY <2>1, <2>3, <1>KnowledgeKept
    <3>4. \A c \in valid'[h] : Authentic(c)'
      BY <2>1, <2>2, <1>MemberFacts, Zenon
    <3>5. (\/ phase[h] \in PhaseContribute .. PhaseJustify
           \/ phase[h] = PhaseCommit /\ ~started[h]
           => sent[h] = None)'
      BY <2>1, <2>3, <1>MemberFacts
    <3>6. \A f \in final'[h] :
            f.signers \subseteq Members /\ \A k \in f.signers \cap Honest :
                sent'[k] # None /\ sent'[k] = f.key
      BY <2>1, Zenon DEF IndInv
    <3> QED
      BY <3>1, <3>2, <3>3, <3>4, <3>5, <3>6, Zenon
  <2>5. \A x \in msgs' : x.from \in Members /\ (x.phase = PhaseCommit => Authentic(x)')
    BY <2>1, <2>2, Zenon DEF IndInv
  <2>6. /\ DOMAIN phase' = Honest /\ DOMAIN started' = Honest /\ DOMAIN member' = Honest
        /\ DOMAIN seen' = Honest /\ DOMAIN valid' = Honest /\ DOMAIN sent' = Honest
        /\ DOMAIN final' = Honest
    BY <2>1, Zenon DEF IndInv
  <2> QED
    BY <2>4, <2>5, <2>6, Zenon DEF IndInv
\* FaultySend: a message of a faulty member is in nobody else's name.
<1>FaultySendStep.
  ASSUME IndInv, FaultySend
  PROVE  IndInv'
  <2> USE <1>FaultySendStep
  <2>1. PICK x \in FaultyMessages :
          /\ msgs' = msgs \cup {x}
          /\ UNCHANGED <<phase, started, member, seen, valid, sent, final>>
    BY Zenon DEF FaultySend
  <2>2. x.from \in Members \ Honest
    BY DKGAssumption, Zenon
  <2>3. \A c : Authentic(c) <=> Authentic(c)'
    BY <2>1, Zenon DEF Authentic
  <2>4. Authentic(x)
    BY <2>2, Zenon DEF Authentic
  <2>5. \A h \in Honest : /\ Sound(member[h])' <=> Sound(member[h])
                          /\ NoShares(member[h])' <=> NoShares(member[h])
                          /\ (sent[h] # None => Holds(h, sent[h]))'
    BY <2>1, Zenon DEF Sound, NoShares, Holds, IndInv
  <2> QED
    BY <2>1, <2>2, <2>3, <2>4, <2>5, Zenon DEF IndInv
<1> SUFFICES ASSUME IndInv, [Next]_vars PROVE IndInv'
  BY Zenon
<1>1. ASSUME NEW n \in Honest, SleepBeforePhase(n) PROVE IndInv'
  <2>1. PICK x \in Pending(n) : Receive(n, {x})
    BY <1>1, Zenon DEF SleepBeforePhase
  <2>2. phase[n] \in PhaseContribute .. PhaseCommit
    BY <1>1 DEF SleepBeforePhase, PhaseContribute, PhaseComplain, PhaseJustify, PhaseCommit
  <2> QED
    BY <2>1, <2>2, {x} \in SUBSET Pending(n), <1>ReceiveStep, Zenon
<1>2. ASSUME NEW n \in Honest, WhileWait(n) PROVE IndInv'
  <2>1. PICK x \in Pending(n) : Receive(n, {x})
    BY <1>2, Zenon DEF WhileWait
  <2>2. phase[n] \in PhaseContribute .. PhaseCommit
    BY <1>2, Zenon DEF WhileWait
  <2> QED
    BY <2>1, <2>2, {x} \in SUBSET Pending(n), <1>ReceiveStep, Zenon
<1>3. CASE UNCHANGED vars
  <2>1. \A c : Authentic(c) <=> Authentic(c)'
    BY <1>3, Zenon DEF Authentic, vars
  <2>2. \A h \in Honest : /\ Sound(member[h])' <=> Sound(member[h])
                          /\ NoShares(member[h])' <=> NoShares(member[h])
                          /\ (sent[h] # None => Holds(h, sent[h]))'
    BY <1>3 DEF Sound, NoShares, Holds, IndInv, vars
  <2> QED
    BY <1>3, <2>1, <2>2, Zenon DEF IndInv, vars
<1> QED
  BY <1>1, <1>2, <1>3, <1>ContributeStep, <1>VerifyAndComplainStep, <1>VerifyAndJustifyStep,
     <1>VerifyAndCommitStep, <1>WaitForNextPhaseStep, <1>FinalizeCommitmentsStep, <1>AbortPhaseStep,
     <1>FaultySendStep, Zenon DEF Next

\* The invariant holds in every reachable state.
THEOREM Invariance == Spec => []IndInv
  BY IndInit, IndStep, PTL DEF Spec

-----------------------------------------------------------------------------

\* KeyHeld for every quorum size, however messages are lost: a final commitment
\* that CFinalCommitment::Verify accepts is for a key that at least minSize less
\* the number of faulty members hold verified shares of.
THEOREM KeyHeldHolds == Spec => []KeyHeld
\* The honest signers of a final commitment hold its key.
<1>SignersHold.
  ASSUME IndInv, NEW n \in Honest, NEW f \in final[n], Verify(f)
  PROVE  Cardinality({h \in Honest : Holds(h, f.key)}) >= minSize - Cardinality(Faulty)
  <2> USE <1>SignersHold
  <2> DEFINE H == {h \in Honest : Holds(h, f.key)}
  <2>1. f.signers \subseteq H \cup Faulty
    <3>1. \A h \in f.signers \cap Honest : sent[h] # None /\ sent[h] = f.key
      BY Zenon DEF IndInv
    <3>2. \A h \in f.signers \cap Honest : Holds(h, f.key)
      BY <3>1, Zenon DEF IndInv
    <3>3. f.signers \subseteq Members
      BY Zenon DEF IndInv
    <3> QED
      BY <3>2, <3>3, Zenon DEF Faulty
  <2>2. IsFiniteSet(H) /\ IsFiniteSet(Faulty)
    BY DKGAssumption, FS_Subset, Zenon DEF Faulty
  <2> HIDE DEF H
  <2>3. /\ IsFiniteSet(H \cup Faulty)
        /\ Cardinality(H \cup Faulty) = Cardinality(H) + Cardinality(Faulty)
                                          - Cardinality(H \cap Faulty)
    BY <2>2, FS_Union, Zenon
  <2>4. IsFiniteSet(H \cap Faulty)
    BY <2>2, FS_Subset, H \cap Faulty \subseteq H, Zenon
  <2>5. /\ Cardinality(H) \in Nat /\ Cardinality(Faulty) \in Nat
        /\ Cardinality(H \cap Faulty) \in Nat
    BY <2>2, <2>4, FS_CardinalityType, Zenon
  <2>6. Cardinality(f.signers) <= Cardinality(H \cup Faulty) /\ IsFiniteSet(f.signers)
    BY <2>1, <2>3, FS_Subset, Zenon
  <2>7. Cardinality(f.signers) >= minSize /\ Cardinality(f.signers) \in Nat /\ minSize \in Nat
    BY <2>6, FS_CardinalityType, DKGAssumption, Zenon DEF Verify
  <2>8. Cardinality(H) + Cardinality(Faulty) >= minSize
    <3>1. Cardinality(H \cup Faulty) <= Cardinality(H) + Cardinality(Faulty)
      BY <2>3, <2>5
    <3>2. Cardinality(H \cup Faulty) \in Nat
      BY <2>3, FS_CardinalityType, Zenon
    <3>3. minSize <= Cardinality(H \cup Faulty)
      BY <2>6, <2>7, <3>2
    <3> QED
      BY <2>5, <2>7, <3>1, <3>2, <3>3
  <2>9. Cardinality(H) >= minSize - Cardinality(Faulty)
    BY <2>5, <2>7, <2>8
  <2> QED
    BY <2>9, Zenon DEF H
<1>1. IndInv => KeyHeld
  <2> SUFFICES ASSUME IndInv, NEW n \in Honest, NEW f \in final[n], Verify(f)
               PROVE  Cardinality({h \in Honest : \A m \in DOMAIN f.key :
                          member[h][m].vvec = f.key[m] /\ member[h][m].sk = f.key[m]})
                        >= minSize - Cardinality(Faulty)
    BY Zenon DEF KeyHeld
  <2> QED
    BY <1>SignersHold, Zenon DEF Holds
<1> QED
  BY <1>1, Invariance, PTL

\* OneFinalKey for every quorum size, however messages are lost: two final
\* commitments of FinalizeCommitments that CFinalCommitment::Verify accepts have
\* one key when two sets of minSize signers share an honest member.
THEOREM OneFinalKeyHolds == Spec => []OneFinalKey
<1>1. IndInv => OneFinalKey
  <2> SUFFICES ASSUME IndInv, 2 * minSize > Cardinality(Members) + Cardinality(Faulty),
                      NEW n \in Honest, NEW h \in Honest,
                      NEW f \in final[n], NEW g \in final[h], Verify(f), Verify(g)
               PROVE  f.key = g.key
    BY DEF OneFinalKey
  <2> DEFINE A == f.signers
             B == g.signers
  <2>1. A \subseteq Members /\ B \subseteq Members
    BY Zenon DEF IndInv
  <2>2. /\ \A k \in A \cap Honest : sent[k] = f.key
        /\ \A k \in B \cap Honest : sent[k] = g.key
    BY Zenon DEF IndInv
  <2>3. Cardinality(A) >= minSize /\ Cardinality(B) >= minSize
    BY Zenon DEF Verify
  <2> HIDE DEF A, B
  <2>4. IsFiniteSet(A) /\ IsFiniteSet(B) /\ IsFiniteSet(Faulty) /\ IsFiniteSet(Members)
    BY <2>1, DKGAssumption, FS_Subset, Zenon DEF Faulty
  <2>5. Cardinality(A \cup B) = Cardinality(A) + Cardinality(B) - Cardinality(A \cap B)
    BY <2>4, FS_Union, Zenon
  <2>6. Cardinality(A \cup B) <= Cardinality(Members)
    BY <2>1, <2>4, FS_Subset, A \cup B \subseteq Members, Zenon
  <2>7. /\ IsFiniteSet(A \cap B) /\ IsFiniteSet(A \cup B)
    BY <2>1, <2>4, FS_Subset, A \cap B \subseteq Members, A \cup B \subseteq Members, Zenon
  <2>8. /\ Cardinality(A) \in Nat /\ Cardinality(B) \in Nat
        /\ Cardinality(A \cap B) \in Nat /\ Cardinality(A \cup B) \in Nat
        /\ Cardinality(Faulty) \in Nat /\ Cardinality(Members) \in Nat
    BY <2>4, <2>7, FS_CardinalityType, Zenon
  <2>9. Cardinality(A \cap B) > Cardinality(Faulty)
    <3>1. minSize \in Nat
      BY DKGAssumption, Zenon
    <3>2. Cardinality(A \cap B) >= Cardinality(A) + Cardinality(B) - Cardinality(Members)
      BY <2>5, <2>6, <2>8
    <3>3. Cardinality(A) + Cardinality(B) >= 2 * minSize
      BY <2>3, <2>8, <3>1
    <3> QED
      BY <2>8, <3>1, <3>2, <3>3
  <2>10. ~ (A \cap B \subseteq Faulty)
    <3> SUFFICES ASSUME A \cap B \subseteq Faulty PROVE FALSE
      BY Zenon
    <3>1. Cardinality(A \cap B) <= Cardinality(Faulty)
      BY <2>4, FS_Subset, Zenon
    <3> QED
      BY <2>8, <2>9, <3>1
  <2>11. PICK k \in A \cap B : k \notin Faulty
    BY <2>10, Zenon
  <2> QED
    BY <2>1, <2>2, <2>11 DEF Faulty
<1> QED
  BY <1>1, Invariance, PTL


-----------------------------------------------------------------------------
(* Type correctness.                                                        *)

\* A member counts the complaints it handles, at most two of a sender.
Counting(p, mem, T) ==
    /\ p = PhaseContribute => \A m \in Members : mem[m].complaints = 0
    /\ p = PhaseComplain => \A m \in Members : mem[m].complaints = Cardinality(From(T, m))

\* The type invariant with what it needs: the messages are finitely many, and the
\* counter of complaints is the number of complaints handled.
TypeInv ==
    /\ TypeOK
    /\ IsFiniteSet(msgs)
    /\ \A n \in Honest :
        /\ IsFiniteSet(seen[n])
        /\ Counting(phase[n], member[n], seen[n])

\* A message of a phase is of the kind of that phase.
LEMMA MessageKinds ==
  ASSUME NEW x \in Messages
  PROVE  /\ x.from \in Members /\ x.phase \in PhaseContribute .. PhaseCommit
         /\ x.phase = PhaseContribute => x \in Contributions
         /\ x.phase = PhaseComplain => x \in Complaints
         /\ x.phase = PhaseJustify => x \in Justifications
         /\ x.phase = PhaseCommit => x \in Commitments
  BY DEF Messages, Contributions, Complaints, Justifications, Commitments,
         PhaseContribute, PhaseComplain, PhaseJustify, PhaseCommit

\* The messages of one sender in a batch: one or none.
LEMMA BatchFrom ==
  ASSUME NEW S, NEW m, \A x, y \in S : x.from = y.from => x = y
  PROVE  From(S, m) = {} \/ \E c \in S : From(S, m) = {c} /\ c.from = m
<1>1. CASE From(S, m) # {}
  <2>1. PICK c : c \in From(S, m)
    BY <1>1, Zenon
  <2>2. \A x \in From(S, m) : x = c
    BY <2>1, Zenon DEF From
  <2>3. From(S, m) = {c}
    BY <2>1, <2>2, Zenon
  <2> QED
    BY <2>1, <2>3, Zenon DEF From
<1> QED
  BY <1>1, Zenon

\* S may be handled after T: it has one message of a sender, and T at most one of
\* the same sender.
Addable(T, S) ==
    /\ IsFiniteSet(T) /\ IsFiniteSet(S) /\ S \cap T = {}
    /\ \A x, y \in S : x.from = y.from => x = y
    /\ \A x \in S : Cardinality(From(T, x.from)) < 2

\* The messages of m in T and in S add up, to two at most.
CountsAdd(T, S, m) ==
    /\ Cardinality(From(T \cup S, m)) = Cardinality(From(T, m)) + Cardinality(From(S, m))
    /\ Cardinality(From(T, m)) \in 0 .. 2 => Cardinality(From(T \cup S, m)) \in 0 .. 2
    /\ Cardinality(From(S, m)) \in Nat

\* Two handled messages of a sender are enough: no third one is handled.
LEMMA FromCounts ==
  ASSUME NEW T, NEW S, Addable(T, S), NEW m
  PROVE  CountsAdd(T, S, m)
<1> USE DEF Addable, CountsAdd
<1>1. /\ From(T \cup S, m) = From(T, m) \cup From(S, m)
      /\ From(T, m) \cap From(S, m) = {}
      /\ From(T, m) \subseteq T /\ From(S, m) \subseteq S
  BY Zenon DEF From
<1>2. IsFiniteSet(From(T, m)) /\ IsFiniteSet(From(S, m))
  BY <1>1, FS_Subset, Zenon
<1>3. /\ Cardinality(From(T, m) \cup From(S, m))
           = Cardinality(From(T, m)) + Cardinality(From(S, m)) - Cardinality(From(T, m) \cap From(S, m))
  BY <1>2, FS_Union, Zenon
<1>4. Cardinality({}) = 0
  BY FS_EmptySet, Zenon
<1>5. Cardinality(From(T, m)) \in Nat /\ Cardinality(From(S, m)) \in Nat
  BY <1>2, FS_CardinalityType, Zenon
<1>6. Cardinality(From(T \cup S, m)) = Cardinality(From(T, m)) + Cardinality(From(S, m))
  <2>1. /\ Cardinality(From(T \cup S, m)) = Cardinality(From(T, m) \cup From(S, m))
        /\ Cardinality(From(T, m) \cap From(S, m)) = 0
    BY <1>1, <1>4, Zenon
  <2> QED
    BY <1>3, <1>5, <2>1
<1>7. CASE From(S, m) = {}
  BY <1>4, <1>5, <1>6, <1>7
<1>8. CASE From(S, m) # {}
  <2>1. PICK c \in S : From(S, m) = {c} /\ c.from = m
    BY <1>8, BatchFrom, Zenon
  <2>2. Cardinality(From(S, m)) = 1 /\ Cardinality(From(T, m)) < 2
    BY <2>1, FS_Singleton, Zenon
  <2> QED
    BY <1>5, <1>6, <2>2
<1> QED
  BY <1>7, <1>8, Zenon

\* The records a handler makes of a member's record are well formed.
LEMMA RecordsTyped ==
  ASSUME NEW r \in MemberState
  PROVE  /\ [r EXCEPT !.bad = TRUE] \in MemberState
         /\ \A v \in Vvecs, b \in BOOLEAN :
              /\ [r EXCEPT !.vvec = v, !.fits = b] \in MemberState
              /\ [r EXCEPT !.vvec = v, !.fits = b].complaints = r.complaints
         /\ \A k \in 0 .. 2, b, a \in BOOLEAN, V, C \in SUBSET Members :
              [r EXCEPT !.complaints = k, !.bad = b, !.badMemberVotes = V,
                        !.complaintsFromOthers = C, !.aboutUs = a] \in MemberState
         /\ \A b, w \in BOOLEAN, C \in SUBSET Members, s \in Vvecs \cup {None} :
              [r EXCEPT !.bad = b, !.complaintsFromOthers = C, !.weComplain = w,
                        !.sk = s] \in MemberState
<1>1. [r EXCEPT !.bad = TRUE] \in MemberState
  BY Zenon DEF MemberState
<1>2. ASSUME NEW v \in Vvecs, NEW b \in BOOLEAN
      PROVE  /\ [r EXCEPT !.vvec = v, !.fits = b] \in MemberState
             /\ [r EXCEPT !.vvec = v, !.fits = b].complaints = r.complaints
  BY Zenon DEF MemberState
<1>3. ASSUME NEW k \in 0 .. 2, NEW b \in BOOLEAN, NEW a \in BOOLEAN,
             NEW V \in SUBSET Members, NEW C \in SUBSET Members
      PROVE  [r EXCEPT !.complaints = k, !.bad = b, !.badMemberVotes = V,
                       !.complaintsFromOthers = C, !.aboutUs = a] \in MemberState
  BY Zenon DEF MemberState
<1>4. ASSUME NEW b \in BOOLEAN, NEW w \in BOOLEAN, NEW C \in SUBSET Members,
             NEW s \in Vvecs \cup {None}
      PROVE  [r EXCEPT !.bad = b, !.complaintsFromOthers = C, !.weComplain = w,
                       !.sk = s] \in MemberState
  BY Zenon DEF MemberState
<1> QED
  BY <1>1, <1>2, <1>3, <1>4, Zenon

\* Handling messages keeps what a member knows well formed.
LEMMA HandledTyped ==
  ASSUME TypeInv, NEW n \in Honest, NEW S \in Batches(n),
         phase[n] \in PhaseContribute .. PhaseCommit
  PROVE  /\ ProcessPending(n, S) \in [Members -> MemberState]
         /\ Counting(phase[n], ProcessPending(n, S), seen[n] \cup S)
         /\ ProcessPendingCommitments(n, S) \in SUBSET Commitments
         /\ seen[n] \cup S \in SUBSET Messages
         /\ IsFiniteSet(seen[n] \cup S)
<1> USE DEF PhaseContribute, PhaseComplain, PhaseJustify, PhaseCommit
<1>1. /\ member[n] \in [Members -> MemberState]
      /\ valid[n] \in SUBSET Commitments
      /\ seen[n] \in SUBSET Messages
      /\ msgs \in SUBSET Messages
      /\ IsFiniteSet(msgs) /\ IsFiniteSet(seen[n])
      /\ Counting(phase[n], member[n], seen[n])
  BY Zenon DEF TypeInv, TypeOK
<1>2. /\ S \subseteq msgs /\ S \cap seen[n] = {}
      /\ \A x, y \in S : x.from = y.from => x = y
      /\ \A x \in S : x.phase = phase[n] /\ Cardinality(From(seen[n], x.from)) < 2
  BY Zenon DEF Batches, Pending
<1>3. IsFiniteSet(S)
  BY <1>1, <1>2, FS_Subset, Zenon
<1>4. seen[n] \cup S \in SUBSET Messages /\ IsFiniteSet(seen[n] \cup S)
  BY <1>1, <1>2, <1>3, FS_Union, Zenon
<1>5. \A x \in S : /\ phase[n] = PhaseContribute => x \in Contributions
                   /\ phase[n] = PhaseComplain => x \in Complaints
                   /\ phase[n] = PhaseJustify => x \in Justifications
                   /\ phase[n] = PhaseCommit => x \in Commitments
  BY <1>1, <1>2, MessageKinds, Zenon
<1>6. ProcessPendingCommitments(n, S) \in SUBSET Commitments
  BY <1>1, <1>5, Zenon DEF ProcessPendingCommitments, ReceiveCommitments
<1>7. \A m \in Members : member[n][m] \in MemberState
  BY <1>1, Zenon
<1>a. SUFFICES /\ ProcessPending(n, S) \in [Members -> MemberState]
               /\ Counting(phase[n], ProcessPending(n, S), seen[n] \cup S)
  BY <1>4, <1>6, Zenon
<1>8. CASE phase[n] = PhaseContribute
  <2>1. ProcessPending(n, S) = ReceiveContributions(n, S)
    BY <1>8 DEF ProcessPending
  <2>2. ASSUME NEW m \in Members
        PROVE  /\ ReceiveContributions(n, S)[m] \in MemberState
               /\ ReceiveContributions(n, S)[m].complaints = 0
    <3>1. member[n][m] \in MemberState /\ member[n][m].complaints = 0
      BY <1>1, <1>7, <1>8, Zenon DEF Counting
    <3>2. ASSUME NEW c \in Contributions
          PROVE  /\ ReceiveContribution(n, c, member[n][m]) \in MemberState
                 /\ ReceiveContribution(n, c, member[n][m]).complaints = 0
      <4>1. (n \in c.fits) \in BOOLEAN
        OBVIOUS
      <4>2. c.vvec \in Vvecs
        BY Zenon DEF Contributions
      <4>3. /\ MarkBadMember(member[n][m]) \in MemberState
            /\ MarkBadMember(member[n][m]).complaints = 0
        BY <3>1, Zenon DEF MarkBadMember, MemberState
      <4>4. ReceiveContribution(n, c, member[n][m])
               \in {MarkBadMember(member[n][m]),
                    [member[n][m] EXCEPT !.vvec = c.vvec, !.fits = n \in c.fits]}
        BY Zenon DEF ReceiveContribution
      <4>5. /\ [member[n][m] EXCEPT !.vvec = c.vvec, !.fits = n \in c.fits] \in MemberState
            /\ [member[n][m] EXCEPT !.vvec = c.vvec, !.fits = n \in c.fits].complaints
                  = member[n][m].complaints
        BY <3>1, <4>1, <4>2, RecordsTyped, Zenon
      <4> QED
        BY <3>1, <4>3, <4>4, <4>5, Zenon
    <3>3. From(S, m) # {} => (CHOOSE c \in From(S, m) : TRUE) \in Contributions
      BY <1>5, <1>8, Zenon DEF From
    <3> QED
      BY <3>1, <3>2, <3>3, Zenon DEF ReceiveContributions
  <2>3. ReceiveContributions(n, S) \in [Members -> MemberState]
    BY <2>2, Zenon DEF ReceiveContributions
  <2> QED
    BY <1>8, <2>1, <2>2, <2>3 DEF Counting
<1>9. CASE phase[n] = PhaseComplain
  <2>1. ProcessPending(n, S) = ReceiveComplaints(n, S)
    BY <1>9 DEF ProcessPending
  <2>2. ASSUME NEW m \in Members
        PROVE  /\ ReceiveComplaints(n, S)[m] \in MemberState
               /\ ReceiveComplaints(n, S)[m].complaints = Cardinality(From(seen[n] \cup S, m))
    <3>1. /\ member[n][m] \in MemberState
          /\ member[n][m].complaints = Cardinality(From(seen[n], m))
      BY <1>1, <1>7, <1>9, Zenon DEF Counting
    <3>2. member[n][m].complaints \in 0 .. 2
      BY <3>1, Zenon DEF MemberState
    <3>3. /\ member[n][m].complaints + Cardinality(From(S, m))
               = Cardinality(From(seen[n] \cup S, m))
          /\ Cardinality(From(seen[n] \cup S, m)) \in 0 .. 2
      <4>1. /\ Cardinality(From(seen[n] \cup S, m))
                 = Cardinality(From(seen[n], m)) + Cardinality(From(S, m))
            /\ Cardinality(From(seen[n], m)) \in 0 .. 2
                 => Cardinality(From(seen[n] \cup S, m)) \in 0 .. 2
        <5>1. Addable(seen[n], S)
          BY <1>1, <1>2, <1>3, Zenon DEF Addable
        <5>2. CountsAdd(seen[n], S, m)
          BY <5>1, FromCounts, Zenon
        <5> QED
          BY <5>2, Zenon DEF CountsAdd
      <4> QED
        BY <3>1, <3>2, <4>1, Zenon
    <3>4. \A c \in S : c.from \in Members
      BY <1>5, <1>9, Zenon DEF Complaints
    <3>5. PICK k \in 0 .. 2 : k = member[n][m].complaints + Cardinality(From(S, m))
      BY <3>3, Zenon
    <3> DEFINE first == {c \in S : From(seen[n], c.from) = {}}
               r == member[n][m]
               b == r.bad \/ From(S \ first, m) # {}
               a == r.aboutUs \/ \E c \in From(first, m) : n \in c.complain
               V == r.badMemberVotes \cup {c.from : c \in {d \in first : m \in d.bad}}
               C == r.complaintsFromOthers \cup {c.from : c \in {d \in first : m \in d.complain}}
    <3>6. b \in BOOLEAN /\ a \in BOOLEAN
      BY Zenon
    <3>7. V \in SUBSET Members /\ C \in SUBSET Members
      BY <3>1, <3>4 DEF MemberState
    <3>8. ReceiveComplaints(n, S)[m] =
            [r EXCEPT !.complaints = r.complaints + Cardinality(From(S, m)), !.bad = b,
                      !.badMemberVotes = V, !.complaintsFromOthers = C, !.aboutUs = a]
      BY <3>1, Zenon DEF MemberState, ReceiveComplaints
    <3> HIDE DEF first, b, a, V, C
    <3>9. ReceiveComplaints(n, S)[m] =
            [r EXCEPT !.complaints = k, !.bad = b,
                      !.badMemberVotes = V, !.complaintsFromOthers = C, !.aboutUs = a]
      BY <3>5, <3>8, Zenon
    <3>10. ReceiveComplaints(n, S)[m] \in MemberState
      <4>1. \A k0 \in 0 .. 2, b0, a0 \in BOOLEAN, V0, C0 \in SUBSET Members :
              [r EXCEPT !.complaints = k0, !.bad = b0, !.badMemberVotes = V0,
                        !.complaintsFromOthers = C0, !.aboutUs = a0] \in MemberState
        BY <3>1, RecordsTyped, Zenon
      <4> HIDE DEF r
      <4>2. [r EXCEPT !.complaints = k, !.bad = b, !.badMemberVotes = V,
                      !.complaintsFromOthers = C, !.aboutUs = a] \in MemberState
        BY <3>5, <3>6, <3>7, <4>1, Zenon
      <4> QED
        BY <3>9, <4>2, Zenon
    <3>11. ReceiveComplaints(n, S)[m].complaints = k
      BY <3>1, <3>9, Zenon DEF MemberState
    <3> QED
      BY <3>3, <3>5, <3>10, <3>11, Zenon
  <2>3. ReceiveComplaints(n, S) \in [Members -> MemberState]
    BY <2>2, Zenon DEF ReceiveComplaints
  <2>4. Counting(phase[n], ReceiveComplaints(n, S), seen[n] \cup S)
    <3>1. \A m \in Members :
            ReceiveComplaints(n, S)[m].complaints = Cardinality(From(seen[n] \cup S, m))
      BY <2>2, Zenon
    <3>2. phase[n] # PhaseContribute
      BY <1>9
    <3> QED
      BY <3>1, <3>2, Zenon DEF Counting
  <2> QED
    BY <2>1, <2>3, <2>4, Zenon
<1>10. CASE phase[n] = PhaseJustify
  <2>1. ProcessPending(n, S) = ReceiveJustifications(n, S)
    BY <1>10 DEF ProcessPending
  <2>2. ASSUME NEW m \in Members
        PROVE  ReceiveJustifications(n, S)[m] \in MemberState
    <3>1. ASSUME NEW j \in Justifications
          PROVE  ReceiveJustification(n, j, member[n][m]) \in MemberState
      <4>1. \A y \in DOMAIN j.shares : j.shares[y] \in Vvecs \cup {None}
        BY DEF Justifications
      <4> QED
        <5> DEFINE r == member[n][m]
                   fitting == {x \in DOMAIN j.shares : j.shares[x] = r.vvec}
        <5>1. CASE \/ From(seen[n], j.from) # {} \/ r.bad
                   \/ ~ DOMAIN j.shares \subseteq r.complaintsFromOthers
          <6>1. ReceiveJustification(n, j, r) \in {r, MarkBadMember(r)}
            BY <5>1, Zenon DEF ReceiveJustification
          <6>2. r \in MemberState
            BY <1>7, Zenon
          <6> QED
            BY <6>1, <6>2, RecordsTyped, Zenon DEF MarkBadMember
        <5>2. CASE /\ From(seen[n], j.from) = {} /\ ~r.bad
                   /\ DOMAIN j.shares \subseteq r.complaintsFromOthers
          <6>1. r \in MemberState
            BY <1>7, Zenon
          <6> DEFINE b == fitting # DOMAIN j.shares
                     w == r.weComplain /\ n \notin fitting
                     C == r.complaintsFromOthers \ fitting
                     s == IF n \in fitting THEN j.shares[n] ELSE r.sk
          <6>2. b \in BOOLEAN /\ w \in BOOLEAN
            BY Zenon
          <6>3. C \in SUBSET Members /\ s \in Vvecs \cup {None}
            BY <4>1, <6>1, Zenon DEF MemberState
          <6>4. ReceiveJustification(n, j, r) =
                  [r EXCEPT !.bad = b, !.complaintsFromOthers = C, !.weComplain = w, !.sk = s]
            BY <5>2, <6>1, Zenon DEF MemberState, ReceiveJustification
          <6> HIDE DEF b, w, C, s
          <6> QED
            <7>1. \A b0, w0 \in BOOLEAN, C0 \in SUBSET Members, s0 \in Vvecs \cup {None} :
                    [r EXCEPT !.bad = b0, !.complaintsFromOthers = C0, !.weComplain = w0,
                              !.sk = s0] \in MemberState
              BY <6>1, RecordsTyped, Zenon
            <7>2. [r EXCEPT !.bad = b, !.complaintsFromOthers = C, !.weComplain = w, !.sk = s]
                     \in MemberState
              BY <6>2, <6>3, <7>1, Zenon
            <7> QED
              BY <6>4, <7>2, Zenon
        <5> QED
          BY <5>1, <5>2, Zenon
    <3>2. From(S, m) # {} => (CHOOSE j \in From(S, m) : TRUE) \in Justifications
      BY <1>5, <1>10, Zenon DEF From
    <3> QED
      BY <1>7, <3>1, <3>2, Zenon DEF ReceiveJustifications
  <2>3. ReceiveJustifications(n, S) \in [Members -> MemberState]
    BY <2>2, Zenon DEF ReceiveJustifications
  <2> QED
    BY <1>10, <2>1, <2>3 DEF Counting
<1>11. CASE phase[n] = PhaseCommit
  BY <1>1, <1>11 DEF ProcessPending, Counting
<1> QED
  BY <1>8, <1>9, <1>10, <1>11

\* A single pending message is a batch.
LEMMA OnePending ==
  ASSUME NEW n, NEW x \in Pending(n)
  PROVE  {x} \in Batches(n)
  BY Zenon DEF Batches

\* A member's part of the type invariant.
MemberTyped(p, st, mem, sn, vd, se, fi) ==
    /\ p \in {Aborted} \cup PhaseContribute .. PhaseFinalize
    /\ st \in BOOLEAN
    /\ mem \in [Members -> MemberState]
    /\ sn \in SUBSET Messages
    /\ vd \in SUBSET Commitments
    /\ se \in Keys \cup {None}
    /\ fi \in SUBSET FinalCommitments
    /\ IsFiniteSet(sn)
    /\ Counting(p, mem, sn)

\* The variables are functions on the honest members.
FunctionsTyped ==
    /\ phase = [n \in Honest |-> phase[n]] /\ started = [n \in Honest |-> started[n]]
    /\ member = [n \in Honest |-> member[n]] /\ seen = [n \in Honest |-> seen[n]]
    /\ valid = [n \in Honest |-> valid[n]] /\ sent = [n \in Honest |-> sent[n]]
    /\ final = [n \in Honest |-> final[n]]

\* What the members share is typed.
SharedTyped ==
    /\ msgs \in SUBSET Messages /\ IsFiniteSet(msgs)
    /\ signed \in 0 .. MaxSigned
    /\ faults \in 0 .. MaxFaults

\* What each of them holds is typed.
MembersTyped ==
    \A n \in Honest :
        MemberTyped(phase[n], started[n], member[n], seen[n], valid[n], sent[n], final[n])

\* The type invariant, member by member.
LEMMA TypeParts == TypeInv <=> FunctionsTyped /\ SharedTyped /\ MembersTyped
<1>1. TypeInv => FunctionsTyped /\ SharedTyped /\ MembersTyped
  BY Zenon DEF TypeInv, TypeOK, FunctionsTyped, SharedTyped, MemberTyped, MembersTyped
<1>2. ASSUME FunctionsTyped, SharedTyped, MembersTyped
      PROVE  TypeInv
  <2>1. TypeOK
    BY <1>2, Zenon DEF TypeOK, FunctionsTyped, SharedTyped, MemberTyped, MembersTyped
  <2> QED
    BY <1>2, <2>1, Zenon DEF TypeInv, SharedTyped, MemberTyped, MembersTyped
<1> QED
  BY <1>1, <1>2, Zenon

\* A variable that a step leaves alone, as an update that changes nothing.
LEMMA SameAt ==
  ASSUME TypeInv, NEW n \in Honest
  PROVE  /\ phase = [phase EXCEPT ![n] = phase[n]]
         /\ started = [started EXCEPT ![n] = started[n]]
         /\ member = [member EXCEPT ![n] = member[n]]
         /\ seen = [seen EXCEPT ![n] = seen[n]]
         /\ valid = [valid EXCEPT ![n] = valid[n]]
         /\ sent = [sent EXCEPT ![n] = sent[n]]
         /\ final = [final EXCEPT ![n] = final[n]]
  BY TypeParts, Zenon DEF FunctionsTyped

\* The type invariant at one member.
LEMMA TypedAt ==
  ASSUME TypeInv, NEW n \in Honest
  PROVE  MemberTyped(phase[n], started[n], member[n], seen[n], valid[n], sent[n], final[n])
  BY TypeParts, Zenon DEF MembersTyped

\* A new session is typed.
LEMMA TypeInit == Init => TypeInv
<1> SUFFICES ASSUME Init PROVE TypeInv
  BY Zenon
<1>1. NewMember \in MemberState /\ NewMember.complaints = 0
  BY DEF NewMember, MemberState
<1>2. FunctionsTyped
  BY Zenon DEF Init, FunctionsTyped
<1>3. SharedTyped
  BY DKGAssumption, FS_EmptySet DEF Init, SharedTyped
<1>4. ASSUME NEW n \in Honest
      PROVE  MemberTyped(phase[n], started[n], member[n], seen[n], valid[n], sent[n], final[n])
  <2>1. /\ phase[n] = PhaseContribute /\ started[n] = FALSE /\ seen[n] = {} /\ valid[n] = {}
        /\ member[n] = [m \in Members |-> NewMember] /\ sent[n] = None /\ final[n] = {}
    BY Zenon DEF Init
  <2>2. Counting(phase[n], member[n], seen[n])
    BY <1>1, <2>1 DEF Counting, PhaseContribute, PhaseComplain
  <2>3. IsFiniteSet(seen[n])
    BY <2>1, FS_EmptySet, Zenon
  <2>4. PhaseContribute \in PhaseContribute .. PhaseFinalize
    BY DEF PhaseContribute, PhaseFinalize
  <2> QED
    BY <1>1, <2>1, <2>2, <2>3, <2>4, Zenon DEF MemberTyped
<1> QED
  BY <1>2, <1>3, <1>4, TypeParts, Zenon DEF MembersTyped

\* Every step keeps the types.
LEMMA TypeNext == TypeInv /\ [Next]_vars => TypeInv'
\* A step of member n keeps the others' parts.
<1>TypeStep.
  ASSUME TypeInv, NEW n \in Honest, NEW p, NEW st, NEW mem, NEW sn, NEW vd, NEW se, NEW fi,
         MemberTyped(p, st, mem, sn, vd, se, fi), SharedTyped',
         phase' = [phase EXCEPT ![n] = p], started' = [started EXCEPT ![n] = st],
         member' = [member EXCEPT ![n] = mem], seen' = [seen EXCEPT ![n] = sn],
         valid' = [valid EXCEPT ![n] = vd], sent' = [sent EXCEPT ![n] = se],
         final' = [final EXCEPT ![n] = fi]
  PROVE  TypeInv'
  <2> USE <1>TypeStep
  <2>1. /\ FunctionsTyped
        /\ \A h \in Honest :
            MemberTyped(phase[h], started[h], member[h], seen[h], valid[h], sent[h], final[h])
    BY TypeParts, Zenon DEF MembersTyped
  <2>2. FunctionsTyped'
    BY <2>1, Zenon DEF FunctionsTyped
  <2>3. /\ phase'[n] = p /\ started'[n] = st /\ member'[n] = mem /\ seen'[n] = sn
        /\ valid'[n] = vd /\ sent'[n] = se /\ final'[n] = fi
    BY <2>1, Zenon DEF FunctionsTyped
  <2>4. \A h \in Honest \ {n} :
          /\ phase'[h] = phase[h] /\ started'[h] = started[h] /\ member'[h] = member[h]
          /\ seen'[h] = seen[h] /\ valid'[h] = valid[h] /\ sent'[h] = sent[h]
          /\ final'[h] = final[h]
    BY <2>1, Zenon DEF FunctionsTyped
  <2>5. MembersTyped'
    BY <2>1, <2>3, <2>4 DEF MembersTyped
  <2> QED
    BY <2>2, <2>5, TypeParts, PTL
\* Handling a batch of messages keeps the types.
<1>ReceiveTyped.
  ASSUME TypeInv, NEW n \in Honest, NEW S \in Batches(n),
         phase[n] \in PhaseContribute .. PhaseCommit, Receive(n, S)
  PROVE  TypeInv'
  <2> USE <1>ReceiveTyped
  <2>1. /\ ProcessPending(n, S) \in [Members -> MemberState]
        /\ Counting(phase[n], ProcessPending(n, S), seen[n] \cup S)
        /\ ProcessPendingCommitments(n, S) \in SUBSET Commitments
        /\ seen[n] \cup S \in SUBSET Messages
        /\ IsFiniteSet(seen[n] \cup S)
    BY HandledTyped, Zenon
  <2>2. MemberTyped(phase[n], started[n], ProcessPending(n, S), seen[n] \cup S,
                    ProcessPendingCommitments(n, S), sent[n], final[n])
    BY <2>1, TypedAt, Zenon DEF MemberTyped
  <2>3. SharedTyped'
    BY TypeParts, Zenon DEF Receive, SharedTyped
  <2>4. /\ phase' = [phase EXCEPT ![n] = phase[n]] /\ started' = [started EXCEPT ![n] = started[n]]
        /\ sent' = [sent EXCEPT ![n] = sent[n]] /\ final' = [final EXCEPT ![n] = final[n]]
    BY SameAt, Zenon DEF Receive
  <2>5. /\ member' = [member EXCEPT ![n] = ProcessPending(n, S)]
        /\ valid' = [valid EXCEPT ![n] = ProcessPendingCommitments(n, S)]
        /\ seen' = [seen EXCEPT ![n] = seen[n] \cup S]
    BY Zenon DEF Receive
  <2>6. PICK p, st, mem, sn, vd, se, fi :
          /\ p = phase[n] /\ st = started[n] /\ mem = ProcessPending(n, S)
          /\ sn = seen[n] \cup S /\ vd = ProcessPendingCommitments(n, S)
          /\ se = sent[n] /\ fi = final[n]
    BY Zenon
  <2> QED
    BY <2>2, <2>3, <2>4, <2>5, <2>6, <1>TypeStep, Zenon
\* So does starting a phase, with typed results,
<1>StartTyped.
  ASSUME TypeInv, NEW n \in Honest, NEW mem \in [Members -> MemberState],
         NEW out \in SUBSET Messages, IsFiniteSet(out), NEW key \in Keys \cup {None},
         Counting(phase[n], mem, seen[n]), StartPhase(n, mem, out),
         sent' = [sent EXCEPT ![n] = key]
  PROVE  TypeInv'
  <2> USE <1>StartTyped
  <2>1. MemberTyped(phase[n], TRUE, mem, seen[n], valid[n], key, final[n])
    BY TypedAt, Zenon DEF MemberTyped
  <2>2. SharedTyped'
    <3>1. IsFiniteSet(msgs) /\ msgs \in SUBSET Messages
      BY TypeParts, Zenon DEF SharedTyped
    <3>2. IsFiniteSet(msgs \cup out)
      BY <3>1, FS_Union, Zenon
    <3> QED
      BY <3>1, <3>2, TypeParts, Zenon DEF StartPhase, SharedTyped
  <2>3. /\ phase' = [phase EXCEPT ![n] = phase[n]] /\ seen' = [seen EXCEPT ![n] = seen[n]]
        /\ valid' = [valid EXCEPT ![n] = valid[n]] /\ final' = [final EXCEPT ![n] = final[n]]
    BY SameAt, Zenon DEF StartPhase
  <2>4. /\ started' = [started EXCEPT ![n] = TRUE]
        /\ member' = [member EXCEPT ![n] = mem]
    BY Zenon DEF StartPhase
  <2>5. PICK p, sn, vd, fi : p = phase[n] /\ sn = seen[n] /\ vd = valid[n] /\ fi = final[n]
    BY Zenon
  <2> QED
    BY <2>1, <2>2, <2>3, <2>4, <2>5, <1>TypeStep, Zenon
\* Counting what is lost.
<1>FaultTyped.
  ASSUME TypeInv, NEW n, NEW S, Fault(Cardinality(Pending(n) \ S) + Cardinality(Behind(n)))
  PROVE  faults' \in 0 .. MaxFaults
  <2> USE <1>FaultTyped
  <2>1. Pending(n) \ S \subseteq msgs /\ Behind(n) \subseteq Members
    BY DKGAssumption, Zenon DEF Pending, Behind
  <2>2. IsFiniteSet(Pending(n) \ S) /\ IsFiniteSet(Behind(n))
    BY <2>1, DKGAssumption, FS_Subset, TypeParts, Zenon DEF SharedTyped
  <2>3. Cardinality(Pending(n) \ S) \in Nat /\ Cardinality(Behind(n)) \in Nat
    BY <2>2, FS_CardinalityType, Zenon
  <2>4. faults \in 0 .. MaxFaults /\ MaxFaults \in Nat
    BY TypeParts, DKGAssumption, Zenon DEF SharedTyped
  <2> QED
    BY <2>3, <2>4 DEF Fault
\* and ending one.
<1>EndTyped.
  ASSUME TypeInv, NEW n \in Honest, NEW S \in Batches(n),
         phase[n] \in PhaseContribute .. PhaseCommit, EndPhase(n, S),
         NEW mem \in [Members -> MemberState], NEW vd \in SUBSET Commitments,
         NEW fi \in SUBSET FinalCommitments,
         Counting(phase[n], mem, seen[n] \cup S),
         member' = [member EXCEPT ![n] = mem], valid' = [valid EXCEPT ![n] = vd],
         final' = [final EXCEPT ![n] = fi]
  PROVE  TypeInv'
  <2> USE <1>EndTyped
  <2> USE DEF PhaseContribute, PhaseComplain, PhaseCommit, PhaseFinalize
  <2>1. phase[n] + 1 \in PhaseContribute .. PhaseFinalize /\ phase[n] + 1 # PhaseContribute
    OBVIOUS
  <2>2. Counting(phase[n] + 1, mem, {})
    <3>1. \A m : From({}, m) = {}
      BY Zenon DEF From
    <3>2. Cardinality({}) = 0
      BY FS_EmptySet, Zenon
    <3>3. phase[n] + 1 = PhaseComplain => phase[n] = PhaseContribute
      OBVIOUS
    <3>4. \A m : Cardinality(From({}, m)) = 0
      BY <3>1, <3>2, Zenon
    <3> QED
      BY <2>1, <3>3, <3>4, Zenon DEF Counting
  <2>3. IsFiniteSet({})
    BY FS_EmptySet, Zenon
  <2>4. MemberTyped(phase[n] + 1, FALSE, mem, {}, vd, sent[n], fi)
    BY <2>1, <2>2, <2>3, TypedAt, Zenon DEF MemberTyped
  <2>5. SharedTyped'
    <3>1. msgs' \subseteq msgs
      BY Zenon DEF EndPhase, Useful
    <3>2. IsFiniteSet(msgs')
      BY <3>1, FS_Subset, TypeParts, Zenon DEF SharedTyped
    <3>3. faults' \in 0 .. MaxFaults
      BY <1>FaultTyped, Zenon DEF EndPhase
    <3> QED
      BY <3>1, <3>2, <3>3, TypeParts, Zenon DEF SharedTyped, EndPhase
  <2>6. /\ phase' = [phase EXCEPT ![n] = phase[n] + 1] /\ started' = [started EXCEPT ![n] = FALSE]
        /\ seen' = [seen EXCEPT ![n] = {}] /\ sent' = [sent EXCEPT ![n] = sent[n]]
    BY SameAt, Zenon DEF EndPhase
  <2>7. PICK p, se, sn : p = phase[n] + 1 /\ se = sent[n] /\ sn = {}
    BY Zenon
  <2> QED
    BY <2>4, <2>5, <2>6, <2>7, <1>TypeStep, Zenon
\* AbortPhase keeps the types.
<1>AbortTyped.
  ASSUME TypeInv, NEW n \in Honest, AbortPhase(n)
  PROVE  TypeInv'
  <2> USE <1>AbortTyped
  <2>1. MemberTyped(Aborted, started[n], member[n], {}, valid[n], sent[n], final[n])
    BY TypedAt, FS_EmptySet
       DEF MemberTyped, Counting, Aborted, PhaseContribute, PhaseComplain, PhaseFinalize
  <2>2. SharedTyped'
    <3>1. msgs' \subseteq msgs
      BY Zenon DEF AbortPhase, Useful
    <3>2. IsFiniteSet(msgs')
      BY <3>1, FS_Subset, TypeParts, Zenon DEF SharedTyped
    <3>3. faults' \in 0 .. MaxFaults
      BY TypeParts, DKGAssumption DEF SharedTyped, AbortPhase, Fault
    <3> QED
      BY <3>1, <3>2, <3>3, TypeParts, Zenon DEF SharedTyped, AbortPhase
  <2>3. /\ phase' = [phase EXCEPT ![n] = Aborted] /\ seen' = [seen EXCEPT ![n] = {}]
        /\ started' = [started EXCEPT ![n] = started[n]]
        /\ member' = [member EXCEPT ![n] = member[n]] /\ valid' = [valid EXCEPT ![n] = valid[n]]
        /\ sent' = [sent EXCEPT ![n] = sent[n]] /\ final' = [final EXCEPT ![n] = final[n]]
    BY SameAt, Zenon DEF AbortPhase
  <2>4. PICK st, mem, vd, se, fi :
          st = started[n] /\ mem = member[n] /\ vd = valid[n] /\ se = sent[n] /\ fi = final[n]
    BY Zenon
  <2> QED
    BY <2>1, <2>2, <2>3, <2>4, <1>TypeStep, Zenon
\* FaultySend keeps the types.
<1>FaultySendTyped.
  ASSUME TypeInv, FaultySend
  PROVE  TypeInv'
  <2> USE <1>FaultySendTyped
  <2>1. PICK x \in FaultyMessages :
          /\ signed < MaxSigned
          /\ signed' = signed + 1
          /\ msgs' = msgs \cup {x}
          /\ UNCHANGED <<phase, started, member, seen, valid, sent, final, faults>>
    BY Zenon DEF FaultySend
  <2>2. SharedTyped'
    <3>1. IsFiniteSet(msgs) /\ msgs \in SUBSET Messages
      BY TypeParts, Zenon DEF SharedTyped
    <3>2. IsFiniteSet(msgs \cup {x}) /\ msgs \cup {x} \in SUBSET Messages
      BY <3>1, FS_AddElement, MessagesAssumption, Zenon
    <3>3. signed' \in 0 .. MaxSigned
      BY <2>1, TypeParts, DKGAssumption DEF SharedTyped
    <3> QED
      BY <2>1, <3>2, <3>3, TypeParts, Zenon DEF SharedTyped
  <2>3. FunctionsTyped'
    BY <2>1, TypeParts, Zenon DEF FunctionsTyped
  <2>4. MembersTyped'
    BY <2>1, TypeParts, Zenon DEF MembersTyped
  <2> QED
    BY <2>2, <2>3, <2>4, TypeParts, PTL
\* An honest member has a vector to contribute.
<1>OwnVvecTyped. OwnVvec \in Vvecs
  BY DKGAssumption, Zenon DEF OwnVvec
\* Contribute keeps the types.
<1>ContributeTyped.
  ASSUME TypeInv, NEW n \in Honest, Contribute(n)
  PROVE  TypeInv'
  <2> USE <1>ContributeTyped
  <2>1. PICK out : out = {[phase |-> PhaseContribute, from |-> n, vvec |-> OwnVvec, fits |-> Members]}
    BY Zenon
  <2>2. out \in SUBSET Messages
    BY <2>1, <1>OwnVvecTyped, DKGAssumption DEF Messages, Contributions
  <2>3. IsFiniteSet(out)
    BY <2>1, FS_Singleton, Zenon
  <2>4. sent' = [sent EXCEPT ![n] = sent[n]]
    BY SameAt, Zenon DEF Contribute
  <2>5. PICK mem, key : mem = member[n] /\ key = sent[n]
    BY Zenon
  <2>6. mem \in [Members -> MemberState] /\ key \in Keys \cup {None}
        /\ Counting(phase[n], mem, seen[n])
    BY <2>5, TypedAt, Zenon DEF MemberTyped
  <2>7. StartPhase(n, mem, out)
    BY <2>1, <2>5, Zenon DEF Contribute
  <2> QED
    BY <2>2, <2>3, <2>4, <2>5, <2>6, <2>7, <1>StartTyped, Zenon
\* VerifyAndComplain keeps the types.
<1>ComplainTyped.
  ASSUME TypeInv, NEW n \in Honest, VerifyAndComplain(n)
  PROVE  TypeInv'
  <2> USE <1>ComplainTyped
  <2> DEFINE mem0 == [m \in Members |->
                       LET v == VerifyPendingContribution(member[n][m])
                       IN  [v EXCEPT !.bad = @ \/ v.vvec = None]]
             bad == {m \in Members : mem0[m].bad}
             complain == {m \in Members \ bad : mem0[m].weComplain}
             out0 == IF bad = {} /\ complain = {} THEN {}
                     ELSE {[phase |-> PhaseComplain, from |-> n, bad |-> bad,
                            complain |-> complain]}
  <2>0. phase[n] = PhaseComplain /\ StartPhase(n, mem0, out0) /\ sent' = sent
    BY Zenon DEF VerifyAndComplain
  <2>1. ASSUME NEW m \in Members
        PROVE  mem0[m] \in MemberState /\ mem0[m].complaints = member[n][m].complaints
    <3>1. member[n][m] \in MemberState
      BY TypedAt, Zenon DEF MemberTyped
    <3>2. PICK v : v = VerifyPendingContribution(member[n][m])
      BY Zenon
    <3>3. v \in MemberState /\ v.complaints = member[n][m].complaints
      <4>1. CASE member[n][m].bad \/ member[n][m].vvec = None
        BY <3>1, <3>2, <4>1, Zenon DEF VerifyPendingContribution
      <4>2. CASE ~(member[n][m].bad \/ member[n][m].vvec = None)
        <5>1. CASE member[n][m].fits
          <6>1. v = [member[n][m] EXCEPT !.sk = member[n][m].vvec, !.weComplain = FALSE]
            BY <3>1, <3>2, <4>2, <5>1, Zenon DEF VerifyPendingContribution, MemberState
          <6> QED
            BY <3>1, <6>1, Zenon DEF MemberState
        <5>2. CASE ~member[n][m].fits
          <6>1. v = [member[n][m] EXCEPT !.sk = member[n][m].sk, !.weComplain = TRUE]
            BY <3>1, <3>2, <4>2, <5>2, Zenon DEF VerifyPendingContribution, MemberState
          <6> QED
            BY <3>1, <6>1, Zenon DEF MemberState
        <5> QED
          BY <5>1, <5>2, Zenon
      <4> QED
        BY <4>1, <4>2, Zenon
    <3>4. mem0[m] \in {v, MarkBadMember(v)}
      <4>1. mem0[m] = [v EXCEPT !.bad = v.bad \/ v.vvec = None]
        BY <3>2, <3>3, Zenon DEF MemberState
      <4>2. CASE v.bad \/ v.vvec = None
        BY <3>3, <4>1, <4>2, Zenon DEF MemberState, MarkBadMember
      <4>3. CASE ~(v.bad \/ v.vvec = None)
        BY <3>3, <4>1, <4>3 DEF MemberState
      <4> QED
        BY <4>2, <4>3, Zenon
    <3> HIDE DEF mem0
    <3> QED
      BY <3>3, <3>4, Zenon DEF MarkBadMember, MemberState
  <2>2. mem0 \in [Members -> MemberState]
    BY <2>1, Zenon
  <2>3. Counting(phase[n], mem0, seen[n])
    <3> HIDE DEF mem0
    <3> QED
      BY <2>0, <2>1, TypedAt, Zenon DEF MemberTyped, Counting, PhaseContribute, PhaseComplain
  <2> HIDE DEF mem0
  <2>4. out0 \in SUBSET Messages
    BY DKGAssumption DEF Messages, Complaints
  <2>5. IsFiniteSet(out0)
    BY FS_Singleton, FS_EmptySet, Zenon
  <2> HIDE DEF out0
  <2>6. PICK mem, out, key : mem = mem0 /\ out = out0 /\ key = sent[n]
    BY Zenon
  <2>7. key \in Keys \cup {None} /\ sent' = [sent EXCEPT ![n] = key]
    BY <2>0, <2>6, TypedAt, SameAt, Zenon DEF MemberTyped
  <2> QED
    BY <2>0, <2>2, <2>3, <2>4, <2>5, <2>6, <2>7, <1>StartTyped, Zenon
\* Marking members bad keeps their records well formed.
<1>BadTyped.
  ASSUME NEW r \in MemberState, NEW b
  PROVE  /\ [r EXCEPT !.bad = @ \/ b] \in MemberState
         /\ [r EXCEPT !.bad = @ \/ b].complaints = r.complaints
         /\ [r EXCEPT !.bad = @ \/ b].vvec = r.vvec
  <2> USE <1>BadTyped
  <2>1. CASE r.bad \/ b
    <3>1. [r EXCEPT !.bad = @ \/ b] = [r EXCEPT !.bad = TRUE]
      BY <2>1, Zenon DEF MemberState
    <3> QED
      BY <3>1, Zenon DEF MemberState
  <2>2. CASE ~(r.bad \/ b)
    <3>1. [r EXCEPT !.bad = @ \/ b] = [r EXCEPT !.bad = FALSE]
      BY <2>2, Zenon DEF MemberState
    <3> QED
      BY <3>1, Zenon DEF MemberState
  <2> QED
    BY <2>1, <2>2, Zenon
\* VerifyAndJustify keeps the types.
<1>JustifyTyped.
  ASSUME TypeInv, NEW n \in Honest, VerifyAndJustify(n)
  PROVE  TypeInv'
  <2> USE <1>JustifyTyped
  <2> DEFINE mem0 == [m \in Members |->
                        [member[n][m] EXCEPT
                            !.bad = @ \/ Cardinality(member[n][m].badMemberVotes)
                                             >= dkgBadVotesThreshold]]
             justifyFor == {m \in Members : ~mem0[m].bad /\ mem0[m].complaints = 1 /\ mem0[m].aboutUs}
             out0 == IF justifyFor = {} THEN {}
                     ELSE {[phase |-> PhaseJustify, from |-> n,
                            shares |-> [m \in justifyFor |-> OwnVvec]]}
  <2>0. phase[n] = PhaseJustify /\ StartPhase(n, mem0, out0) /\ sent' = sent
    BY Zenon DEF VerifyAndJustify
  <2>1. ASSUME NEW m \in Members
        PROVE  mem0[m] \in MemberState
    <3>1. member[n][m] \in MemberState
      BY TypedAt, Zenon DEF MemberTyped
    <3>2. PICK r : r = member[n][m]
      BY Zenon
    <3>3. mem0[m] = [r EXCEPT !.bad = @ \/ Cardinality(r.badMemberVotes) >= dkgBadVotesThreshold]
      BY <3>2, Zenon
    <3> QED
      BY <3>1, <3>2, <3>3, <1>BadTyped, Zenon
  <2>2. mem0 \in [Members -> MemberState]
    BY <2>1, Zenon
  <2> HIDE DEF mem0
  <2>3. Counting(phase[n], mem0, seen[n])
    <3>1. PhaseJustify # PhaseContribute /\ PhaseJustify # PhaseComplain
      BY DEF PhaseContribute, PhaseComplain, PhaseJustify
    <3> QED
      BY <2>0, <3>1, Zenon DEF Counting
  <2>4. out0 \in SUBSET Messages
    <3>1. justifyFor \in SUBSET Members
      BY Zenon
    <3> HIDE DEF justifyFor
    <3>2. [m \in justifyFor |-> OwnVvec] \in [justifyFor -> Vvecs \cup {None}]
      BY <1>OwnVvecTyped, Zenon
    <3>3. [m \in justifyFor |-> OwnVvec] \in UNION {[V -> Vvecs \cup {None}] : V \in SUBSET Members}
      BY <3>1, <3>2, Zenon
    <3>4. \A s \in UNION {[V -> Vvecs \cup {None}] : V \in SUBSET Members} :
            [phase |-> PhaseJustify, from |-> n, shares |-> s] \in Justifications
      BY DKGAssumption, Zenon DEF Justifications
    <3> QED
      BY <3>3, <3>4, Zenon DEF Messages
  <2>5. IsFiniteSet(out0)
    BY FS_Singleton, FS_EmptySet, Zenon
  <2> HIDE DEF out0
  <2>6. PICK mem, out, key : mem = mem0 /\ out = out0 /\ key = sent[n]
    BY Zenon
  <2>7. key \in Keys \cup {None} /\ sent' = [sent EXCEPT ![n] = key]
    BY <2>0, <2>6, TypedAt, SameAt, Zenon DEF MemberTyped
  <2> QED
    BY <2>0, <2>2, <2>3, <2>4, <2>5, <2>6, <2>7, <1>StartTyped, Zenon
\* VerifyAndCommit keeps the types.
<1>CommitTyped.
  ASSUME TypeInv, NEW n \in Honest, VerifyAndCommit(n)
  PROVE  TypeInv'
  <2> USE <1>CommitTyped
  <2> DEFINE mem0 == CloseComplaints(member[n])
             key0 == SendCommitment(mem0)
             out0 == IF key0 = None THEN {}
                     ELSE {[phase |-> PhaseCommit, from |-> n, key |-> key0, sig |-> TRUE]}
  <2>0. /\ phase[n] = PhaseCommit /\ StartPhase(n, mem0, out0)
        /\ sent' = [sent EXCEPT ![n] = key0]
    BY Zenon DEF VerifyAndCommit
  <2>1. ASSUME NEW m \in Members
        PROVE  mem0[m] \in MemberState
    <3>1. member[n][m] \in MemberState
      BY TypedAt, Zenon DEF MemberTyped
    <3>2. PICK r : r = member[n][m]
      BY Zenon
    <3>3. mem0[m] = [r EXCEPT !.bad = @ \/ r.complaintsFromOthers # {}]
      BY <3>2, Zenon DEF CloseComplaints
    <3> QED
      BY <3>1, <3>2, <3>3, <1>BadTyped
  <2>2. mem0 \in [Members -> MemberState]
    BY <2>1, Zenon DEF CloseComplaints
  <2> HIDE DEF mem0
  <2>3. Counting(phase[n], mem0, seen[n])
    BY <2>0 DEF Counting, PhaseContribute, PhaseComplain, PhaseCommit
  <2>4. key0 \in Keys \cup {None}
    <3> DEFINE V == {m \in Members : ~mem0[m].bad}
    <3>1. CASE \A m \in V : mem0[m].vvec # None /\ mem0[m].sk # None
      <4>1. V \in SUBSET Members
        BY Zenon
      <4>2. \A m \in V : mem0[m].vvec \in Vvecs
        BY <2>2, <3>1, Zenon DEF MemberState
      <4> HIDE DEF V
      <4>3. [m \in V |-> mem0[m].vvec] \in [V -> Vvecs]
        BY <4>2, Zenon
      <4>4. [m \in V |-> mem0[m].vvec] \in Keys
        BY <4>1, <4>3, Zenon DEF Keys
      <4>5. key0 \in {None, [m \in V |-> mem0[m].vvec]}
        BY Zenon DEF SendCommitment, V
      <4> QED
        BY <4>4, <4>5, Zenon
    <3>2. CASE ~ \A m \in V : mem0[m].vvec # None /\ mem0[m].sk # None
      BY <3>2, Zenon DEF SendCommitment
    <3> QED
      BY <3>1, <3>2, Zenon
  <2> HIDE DEF key0
  <2>5. out0 \in SUBSET Messages
    BY <2>4, DKGAssumption DEF Messages, Commitments
  <2>6. IsFiniteSet(out0)
    BY FS_Singleton, FS_EmptySet, Zenon
  <2> HIDE DEF out0
  <2>7. PICK mem, out, key : mem = mem0 /\ out = out0 /\ key = key0
    BY Zenon
  <2> QED
    BY <2>0, <2>2, <2>3, <2>4, <2>5, <2>6, <2>7, <1>StartTyped, Zenon
\* WaitForNextPhase keeps the types.
<1>WaitTyped.
  ASSUME TypeInv, NEW n \in Honest, WaitForNextPhase(n)
  PROVE  TypeInv'
  <2> USE <1>WaitTyped
  <2> USE DEF PhaseContribute, PhaseJustify, PhaseCommit
  <2>1. PICK S \in Batches(n) :
          /\ EndPhase(n, S) /\ member' = [member EXCEPT ![n] = ProcessPending(n, S)]
    BY Zenon DEF WaitForNextPhase
  <2>2. phase[n] \in PhaseContribute .. PhaseCommit
    BY DEF WaitForNextPhase
  <2>3. PICK mem, vd, fi : mem = ProcessPending(n, S) /\ vd = valid[n] /\ fi = final[n]
    BY Zenon
  <2>4. mem \in [Members -> MemberState] /\ Counting(phase[n], mem, seen[n] \cup S)
    BY <2>2, <2>3, HandledTyped, Zenon
  <2>5. vd \in SUBSET Commitments /\ fi \in SUBSET FinalCommitments
    BY <2>3, TypedAt, Zenon DEF MemberTyped
  <2>6. valid' = [valid EXCEPT ![n] = vd] /\ final' = [final EXCEPT ![n] = fi]
    BY <2>3, SameAt, Zenon DEF WaitForNextPhase
  <2> QED
    BY <2>1, <2>2, <2>3, <2>4, <2>5, <2>6, <1>EndTyped, Zenon
\* FinalizeCommitments keeps the types.
<1>FinalizeTyped.
  ASSUME TypeInv, NEW n \in Honest, FinalizeCommitments(n)
  PROVE  TypeInv'
  <2> USE <1>FinalizeTyped
  <2> USE DEF PhaseContribute, PhaseCommit
  <2>0. phase[n] = PhaseCommit /\ phase[n] \in PhaseContribute .. PhaseCommit
    BY SMTT(100) DEF FinalizeCommitments
  <2>1. PICK S, fi :
          /\ S \in Batches(n)
          /\ EndPhase(n, S)
          /\ valid' = [valid EXCEPT ![n] = ProcessPendingCommitments(n, S)]
          /\ final' = [final EXCEPT ![n] = fi]
          /\ \E first, L, G :
               /\ fi = UNION {FinalCommitment(G[V], first[V]) : V \in L}
               /\ \A V \in L : G[V] \subseteq ProcessPendingCommitments(n, S) /\ first[V] \in G[V]
    <3>1. PICK S \in Batches(n) :
          LET all == ProcessPendingCommitments(n, S)
              Group(V) == {c \in all : DOMAIN c.key = V}
              Large == {V \in {DOMAIN c.key : c \in all} : Cardinality(Group(V)) >= minSize}
          IN  /\ EndPhase(n, S)
              /\ valid' = [valid EXCEPT ![n] = all]
              /\ \E first \in [Large -> all] :
                  /\ \A V \in Large : first[V] \in Group(V)
                  /\ final' = [final EXCEPT ![n] =
                                  UNION {FinalCommitment(Group(V), first[V]) : V \in Large}]
      BY Zenon DEF FinalizeCommitments
    <3> DEFINE all == ProcessPendingCommitments(n, S)
               Group(V) == {c \in all : DOMAIN c.key = V}
               Large == {V \in {DOMAIN c.key : c \in all} : Cardinality(Group(V)) >= minSize}
    <3>2. PICK first \in [Large -> all] :
                  /\ \A V \in Large : first[V] \in Group(V)
                  /\ final' = [final EXCEPT ![n] =
                                  UNION {FinalCommitment(Group(V), first[V]) : V \in Large}]
      BY <3>1, Zenon
    <3> DEFINE G == [V \in Large |-> Group(V)]
               fi == UNION {FinalCommitment(G[V], first[V]) : V \in Large}
    <3>3. fi = UNION {FinalCommitment(Group(V), first[V]) : V \in Large}
      BY Zenon
    <3>4. \A V \in Large : G[V] \subseteq all /\ first[V] \in G[V]
      BY <3>2, Zenon
    <3> HIDE DEF G, Large
    <3>5. /\ fi = UNION {FinalCommitment(G[V], first[V]) : V \in Large}
          /\ final' = [final EXCEPT ![n] = fi]
      BY <3>2, <3>3, Zenon
    <3> QED
      BY <3>1, <3>4, <3>5, ZenonT(60)
  <2>2. PICK all : all = ProcessPendingCommitments(n, S)
    BY Zenon
  <2>3. all \in SUBSET Commitments /\ Counting(phase[n], member[n], seen[n] \cup S)
    <3>1. all \in SUBSET Commitments
      <4>1. phase[n] \in PhaseContribute .. PhaseCommit
        BY <2>0, Zenon DEF PhaseContribute, PhaseCommit
      <4>2. S \in Batches(n)
        BY <2>1, Zenon
      <4>3. ProcessPendingCommitments(n, S) \in SUBSET Commitments
        BY <4>1, <4>2, HandledTyped, Zenon
      <4> QED
        BY <2>2, <4>3, Zenon
    <3>2. Counting(phase[n], member[n], seen[n] \cup S)
      BY <2>0 DEF Counting, PhaseComplain
    <3> QED
      BY <3>1, <3>2, Zenon
  <2>4. fi \in SUBSET FinalCommitments
    <3>1. PICK first, L, G :
               /\ fi = UNION {FinalCommitment(G[V], first[V]) : V \in L}
               /\ \A V \in L : G[V] \subseteq all /\ first[V] \in G[V]
      BY <2>1, <2>2, Zenon
    <3>2. ASSUME NEW C, C \subseteq Commitments, NEW f \in C
          PROVE  FinalCommitment(C, f) \subseteq FinalCommitments
      <4>1. f.key \in Keys /\ \A c \in C : c.from \in Members /\ c.sig \in BOOLEAN
        BY <3>2, Zenon DEF Commitments
      <4> DEFINE same == {c \in C : c.key = f.key}
                 signers == {c.from : c \in same}
                 sig == \A c \in same : c.sig
      <4>2. signers \in SUBSET Members /\ sig \in BOOLEAN
        BY <4>1, Zenon
      <4>3. FinalCommitment(C, f) \subseteq {[key |-> f.key, signers |-> signers, sig |-> sig]}
        BY Zenon DEF FinalCommitment
      <4> HIDE DEF signers, sig
      <4>4. [key |-> f.key, signers |-> signers, sig |-> sig] \in FinalCommitments
        BY <4>1, <4>2, Zenon DEF FinalCommitments
      <4> QED
        BY <4>3, <4>4, Zenon
    <3>3. ASSUME NEW V \in L PROVE FinalCommitment(G[V], first[V]) \subseteq FinalCommitments
      BY <2>3, <3>1, <3>2, Zenon
    <3> QED
      BY <3>1, <3>3, Zenon
  <2>5. member' = [member EXCEPT ![n] = member[n]]
    BY SameAt, Zenon DEF FinalizeCommitments
  <2>6. PICK mem : mem = member[n]
    BY Zenon
  <2>7. mem \in [Members -> MemberState]
    BY <2>6, TypedAt, Zenon DEF MemberTyped
  <2> QED
    BY <2>0, <2>1, <2>2, <2>3, <2>4, <2>5, <2>6, <2>7, <1>EndTyped, Zenon
<1> SUFFICES ASSUME TypeInv, [Next]_vars PROVE TypeInv'
  BY Zenon
<1> USE DEF PhaseContribute, PhaseComplain, PhaseJustify, PhaseCommit
<1>1. ASSUME NEW n \in Honest, SleepBeforePhase(n) PROVE TypeInv'
  <2>1. PICK x \in Pending(n) : Receive(n, {x})
    BY <1>1, Zenon DEF SleepBeforePhase
  <2>2. phase[n] \in PhaseContribute .. PhaseCommit
    BY <1>1 DEF SleepBeforePhase
  <2> QED
    BY <2>1, <2>2, OnePending, <1>ReceiveTyped, Zenon
<1>2. ASSUME NEW n \in Honest, WhileWait(n) PROVE TypeInv'
  <2>1. PICK x \in Pending(n) : Receive(n, {x})
    BY <1>2, Zenon DEF WhileWait
  <2>2. phase[n] \in PhaseContribute .. PhaseCommit
    BY <1>2, Zenon DEF WhileWait
  <2> QED
    BY <2>1, <2>2, OnePending, <1>ReceiveTyped, Zenon
<1>3. CASE UNCHANGED vars
  BY <1>3, Zenon DEF vars, TypeInv, TypeOK
<1>4. CASE Next
  BY <1>1, <1>2, <1>4, <1>WaitTyped, <1>AbortTyped, <1>ContributeTyped, <1>ComplainTyped, <1>JustifyTyped,
     <1>CommitTyped, <1>FinalizeTyped, <1>FaultySendTyped, Zenon DEF Next
<1> QED
  BY <1>3, <1>4, Zenon

\* In every run, what an honest member knows of the others is well formed: in
\* particular no third complaint of a member is ever counted, and a commitment is
\* sent for a key made of vectors of members only.
THEOREM TypeCorrect == Spec => []TypeOK
<1>1. TypeInv => TypeOK
  BY Zenon DEF TypeInv
<1> QED
  BY TypeInit, TypeNext, <1>1, PTL DEF Spec

-----------------------------------------------------------------------------
(* Sessions in which nothing is lost.  Let M be all messages sent so far: a *)
(* member that has left a phase knows what the messages of that phase in M  *)
(* say, so all honest members come to the same verdict on every member.     *)

\* The messages of one phase.
At(M, p) == {x \in M : x.phase = p}

\* Did m send several of them?
Many(S, m) == \E x, y \in From(S, m) : x # y

\* Nobody sent several.
Single(S) == \A x, y \in S : x.from = y.from => x = y

\* T is what a member handles of C: everything, or two messages of a sender.
Complete(T, C) == T \subseteq C /\ \A x \in C \ T : Many(T, x.from)

\* The verdict on m, from the contributions C2, the complaints C3 and the
\* justifications C4.
NoVector(C2, m) == Many(C2, m) \/ From(C2, m) = {}

Voters(C3, m) == {c.from : c \in {d \in C3 : m \in d.bad}}

\* Enough of them to convict m.
VotedBad(C3, m) == Cardinality(Voters(C3, m)) >= dkgBadVotesThreshold

\* The members that complain about their share of m.
Accusers(C3, m) == {c.from : c \in {d \in C3 : m \in d.complain}}

\* j answers complaints only, each with a share that fits.
Answers(C2, C3, j) ==
    \A y \in DOMAIN j.shares :
        y \in Accusers(C3, j.from) /\ \A x \in From(C2, j.from) : j.shares[y] = x.vvec

Unjust(C2, C3, C4, m) == Many(C4, m) \/ \E j \in From(C4, m) : ~Answers(C2, C3, j)

\* m is bad: no vector, voted out, or a justification that does not hold.
Convicted(C2, C3, C4, m) ==
    NoVector(C2, m) \/ VotedBad(C3, m) \/ Unjust(C2, C3, C4, m)

\* The complaints about m that it answered, and those it did not.
Answered(C4, m) == UNION {DOMAIN j.shares : j \in From(C4, m)}

Unanswered(C3, C4, m) == Accusers(C3, m) \ Answered(C4, m)

\* The members whose vectors make the quorum key.
Accepted(C2, C3, C4) ==
    {m \in Members : ~Convicted(C2, C3, C4, m) /\ Unanswered(C3, C4, m) = {}}

\* A subset of the messages has no more of a sender.
LEMMA ManyMore ==
  ASSUME NEW T, NEW C, T \subseteq C, NEW m, Many(T, m)
  PROVE  Many(C, m)
  BY Zenon DEF Many, From

\* Of a sender of several messages several are handled, of the others all.
LEMMA CompleteFrom ==
  ASSUME NEW T, NEW C, Complete(T, C), NEW m
  PROVE  /\ Many(T, m) <=> Many(C, m)
         /\ ~Many(C, m) => From(T, m) = From(C, m)
<1>1. T \subseteq C /\ From(T, m) \subseteq From(C, m)
  BY Zenon DEF Complete, From
<1>2. ASSUME NEW x \in From(C, m), x \notin From(T, m) PROVE Many(T, m)
  BY <1>2, Zenon DEF Complete, From
<1>3. Many(C, m) => Many(T, m)
  <2> SUFFICES ASSUME NEW x \in From(C, m), NEW y \in From(C, m), x # y PROVE Many(T, m)
    BY Zenon DEF Many
  <2>1. CASE x \in From(T, m) /\ y \in From(T, m)
    BY <2>1, Zenon DEF Many
  <2> QED
    BY <1>2, <2>1, Zenon
<1> QED
  BY <1>1, <1>2, <1>3, ManyMore, Zenon

\* Where nobody sent several messages, everything was handled.
LEMMA CompleteSingle ==
  ASSUME NEW T, NEW C, Complete(T, C), Single(T)
  PROVE  T = C
<1>1. \A m : ~Many(T, m)
  BY Zenon DEF Single, Many, From
<1> QED
  BY <1>1, Zenon DEF Complete

\* Fewer messages are no more of a sender.
LEMMA SingleLess ==
  ASSUME NEW T, NEW C, T \subseteq C, Single(C)
  PROVE  Single(T) /\ \A m : ~Many(T, m)
  BY Zenon DEF Single, Many, From

\* Several messages of a sender, counted.
LEMMA ManyCount ==
  ASSUME NEW T, IsFiniteSet(T), NEW m
  PROVE  Many(T, m) <=> ~(Cardinality(From(T, m)) < 2)
<1>1. From(T, m) \subseteq T
  BY Zenon DEF From
<1>2. IsFiniteSet(From(T, m))
  BY <1>1, FS_Subset, Zenon
<1>3. Cardinality({}) = 0 /\ \A x : Cardinality({x}) = 1
  BY FS_EmptySet, FS_Singleton, Zenon
<1>4. CASE ~Many(T, m)
  <2>1. From(T, m) = {} \/ \E x : From(T, m) = {x}
    BY <1>4 DEF Many
  <2>2. Cardinality(From(T, m)) \in {0, 1}
    BY <1>3, <2>1, Zenon
  <2>3. Cardinality(From(T, m)) < 2
    BY <2>2
  <2> QED
    BY <1>4, <2>3, Zenon
<1>5. CASE Many(T, m)
  <2>1. PICK x \in From(T, m), y \in From(T, m) : x # y
    BY <1>5, Zenon DEF Many
  <2>2. {x, y} \subseteq From(T, m)
    BY <2>1, Zenon
  <2>3. Cardinality({x, y}) = 2
    <3>1. {x, y} = {x} \cup {y} /\ y \notin {x}
      BY <2>1, Zenon
    <3>2. IsFiniteSet({x})
      BY FS_Singleton, Zenon
    <3>3. Cardinality({x} \cup {y}) = Cardinality({x}) + 1
      BY <3>1, <3>2, FS_AddElement, Zenon
    <3>4. Cardinality({x}) = 1
      BY <1>3, Zenon
    <3>5. Cardinality({x, y}) = Cardinality({x}) + 1
      BY <3>1, <3>3, Zenon
    <3> QED
      BY <3>4, <3>5
  <2>4. Cardinality({x, y}) <= Cardinality(From(T, m))
    BY <1>2, <2>2, FS_Subset, Zenon
  <2>5. Cardinality(From(T, m)) \in Nat
    BY <1>2, FS_CardinalityType, Zenon
  <2> QED
    BY <1>5, <2>3, <2>4, <2>5
<1> QED
  BY <1>4, <1>5, Zenon

\* Handling one message of a sender more.
LEMMA FromMore ==
  ASSUME NEW T, NEW S, S \cap T = {}, Single(S), NEW m
  PROVE  /\ From(T \cup S, m) = From(T, m) \cup From(S, m)
         /\ From(S, m) = {} => (Many(T \cup S, m) <=> Many(T, m))
         /\ From(S, m) # {} => (Many(T \cup S, m) <=> From(T, m) # {})
<1>1. From(T \cup S, m) = From(T, m) \cup From(S, m)
  BY Zenon DEF From
<1>2. CASE From(S, m) = {}
  BY <1>1, <1>2, Zenon DEF Many
<1>3. CASE From(S, m) # {}
  <2>1. PICK c \in S : From(S, m) = {c} /\ c.from = m
    BY <1>3, BatchFrom, Zenon DEF Single
  <2>2. c \notin From(T, m)
    BY <2>1, Zenon DEF From
  <2> QED
    BY <1>1, <2>1, <2>2 DEF Many
<1> QED
  BY <1>1, <1>2, <1>3, Zenon

\* What a member that left Contribute knows of the vectors.
Vectors(n, mem, C2) ==
    \A m \in Members : ~Many(C2, m) =>
        /\ From(C2, m) = {} => mem[m].vvec = None
        /\ \A x \in From(C2, m) : mem[m].vvec = x.vvec /\ (mem[m].fits <=> n \in x.fits)

\* What member n knows of m in each phase, when it has handled T of it; st tells
\* whether its start function has run.
InContribute(n, mem, T) ==
    /\ Vectors(n, mem, T)
    /\ \A m \in Members :
        /\ mem[m].badMemberVotes = {} /\ mem[m].complaintsFromOthers = {}
        /\ ~mem[m].aboutUs /\ ~mem[m].weComplain
        /\ mem[m].bad <=> Many(T, m)

\* Then those of the complaints it has handled as well,
InComplain(n, mem, st, C2, T) ==
    /\ Vectors(n, mem, C2)
    /\ \A m \in Members :
        /\ mem[m].bad <=> Many(C2, m) \/ (st /\ From(C2, m) = {}) \/ Many(T, m)
        /\ ~st => ~mem[m].weComplain
        /\ Single(T) =>
            /\ mem[m].badMemberVotes = Voters(T, m)
            /\ mem[m].complaintsFromOthers = Accusers(T, m)
            /\ mem[m].aboutUs <=> \E c \in From(T, m) : n \in c.complain
            /\ st /\ ~NoVector(C2, m) /\ mem[m].fits => mem[m].sk # None

\* then the votes, and the justifications it has handled,
InJustify(n, mem, st, C2, C3, T) ==
    /\ Vectors(n, mem, C2)
    /\ \A m \in Members :
        /\ mem[m].badMemberVotes = Voters(C3, m)
        /\ mem[m].aboutUs <=> \E c \in From(C3, m) : n \in c.complain
        /\ mem[m].bad <=> NoVector(C2, m) \/ (st /\ VotedBad(C3, m)) \/ Unjust(C2, C3, T, m)
        /\ ~mem[m].bad =>
            /\ mem[m].complaintsFromOthers = Unanswered(C3, T, m)
            /\ mem[m].sk # None \/ n \in mem[m].complaintsFromOthers

\* and in the end the whole verdict.
InCommit(n, mem, st, C2, C3, C4) ==
    /\ Vectors(n, mem, C2)
    /\ \A m \in Members :
        /\ mem[m].bad <=> \/ Convicted(C2, C3, C4, m)
                          \/ st /\ Unanswered(C3, C4, m) # {}
        /\ ~Convicted(C2, C3, C4, m) =>
            /\ mem[m].complaintsFromOthers = Unanswered(C3, C4, m)
            /\ mem[m].sk # None \/ n \in mem[m].complaintsFromOthers

\* ReceiveContribution, message by message.
LEMMA ContributionsKnown ==
  ASSUME NEW n, NEW S, member[n] \in [Members -> MemberState], S \cap seen[n] = {}, Single(S),
         InContribute(n, member[n], seen[n])
  PROVE  InContribute(n, ReceiveContributions(n, S), seen[n] \cup S)
<1> DEFINE T == seen[n] \cup S
           mem == ReceiveContributions(n, S)
<1>1. ASSUME NEW m \in Members
      PROVE  /\ ~Many(T, m) =>
                  /\ From(T, m) = {} => mem[m].vvec = None
                  /\ \A x \in From(T, m) :
                       mem[m].vvec = x.vvec /\ (mem[m].fits <=> n \in x.fits)
             /\ mem[m].badMemberVotes = {} /\ mem[m].complaintsFromOthers = {}
             /\ ~mem[m].aboutUs /\ ~mem[m].weComplain
             /\ mem[m].bad <=> Many(T, m)
  <2> DEFINE r == member[n][m]
  <2>1. /\ r \in MemberState
        /\ ~Many(seen[n], m) =>
             /\ From(seen[n], m) = {} => r.vvec = None
             /\ \A x \in From(seen[n], m) : r.vvec = x.vvec /\ (r.fits <=> n \in x.fits)
        /\ r.badMemberVotes = {} /\ r.complaintsFromOthers = {}
        /\ ~r.aboutUs /\ ~r.weComplain
        /\ r.bad <=> Many(seen[n], m)
    BY Zenon DEF InContribute, Vectors
  <2>2. /\ From(T, m) = From(seen[n], m) \cup From(S, m)
        /\ From(S, m) = {} => (Many(T, m) <=> Many(seen[n], m))
        /\ From(S, m) # {} => (Many(T, m) <=> From(seen[n], m) # {})
    BY FromMore, Zenon
  <2>3. CASE From(S, m) = {}
    <3>1. mem[m] = r
      BY <2>3, Zenon DEF ReceiveContributions
    <3> HIDE DEF T, mem, r
    <3> QED
      BY <2>1, <2>2, <2>3, <3>1, Zenon
  <2>4. CASE From(S, m) # {}
    <3>1. PICK c \in S : From(S, m) = {c} /\ c.from = m
      BY <2>4, BatchFrom, Zenon DEF Single
    <3>2. mem[m] = ReceiveContribution(n, c, r)
      <4>1. (CHOOSE d \in From(S, m) : TRUE) = c
        BY <3>1, Zenon
      <4> QED
        BY <2>4, <4>1, Zenon DEF ReceiveContributions
    <3>3. CASE From(seen[n], m) # {}
      <4>1. mem[m] = [r EXCEPT !.bad = TRUE]
        BY <3>1, <3>2, <3>3, Zenon DEF ReceiveContribution, MarkBadMember
      <4> HIDE DEF T, mem, r
      <4>2. /\ mem[m].badMemberVotes = r.badMemberVotes /\ mem[m].aboutUs = r.aboutUs
            /\ mem[m].complaintsFromOthers = r.complaintsFromOthers
            /\ mem[m].weComplain = r.weComplain /\ mem[m].bad
        BY <2>1, <4>1, Zenon DEF MemberState
      <4> QED
        BY <2>1, <2>2, <2>4, <3>3, <4>2, Zenon
    <3>4. CASE From(seen[n], m) = {}
      <4>1. mem[m] = [r EXCEPT !.vvec = c.vvec, !.fits = n \in c.fits]
        BY <3>1, <3>2, <3>4, Zenon DEF ReceiveContribution
      <4> HIDE DEF T, mem, r
      <4>2. /\ mem[m].badMemberVotes = r.badMemberVotes /\ mem[m].aboutUs = r.aboutUs
            /\ mem[m].complaintsFromOthers = r.complaintsFromOthers
            /\ mem[m].weComplain = r.weComplain /\ mem[m].bad = r.bad
            /\ mem[m].vvec = c.vvec /\ (mem[m].fits <=> n \in c.fits)
        BY <2>1, <4>1, Zenon DEF MemberState
      <4>3. From(T, m) = {c} /\ ~Many(T, m) /\ ~Many(seen[n], m)
        BY <2>2, <2>4, <3>1, <3>4, Zenon DEF Many
      <4> QED
        BY <2>1, <4>2, <4>3, Zenon
    <3> QED
      BY <3>3, <3>4, Zenon
  <2> QED
    BY <2>3, <2>4, Zenon
<1> HIDE DEF T, mem
<1>2. InContribute(n, mem, T)
  BY <1>1, Zenon DEF InContribute, Vectors
<1> QED
  BY <1>2, Zenon DEF T, mem

\* Every complaint that is the first of its sender counts.
LEMMA ComplaintsKnown ==
  ASSUME NEW n, NEW S, member[n] \in [Members -> MemberState], S \cap seen[n] = {}, Single(S),
         NEW st, NEW C2, InComplain(n, member[n], st, C2, seen[n])
  PROVE  InComplain(n, ReceiveComplaints(n, S), st, C2, seen[n] \cup S)
<1> DEFINE T == seen[n] \cup S
           mem == ReceiveComplaints(n, S)
           first == {c \in S : From(seen[n], c.from) = {}}
<1>0. Single(T) => Single(seen[n]) /\ first = S
  <2> SUFFICES ASSUME Single(T) PROVE Single(seen[n]) /\ first = S
    BY Zenon
  <2>1. Single(seen[n])
    BY SingleLess, Zenon
  <2>2. ASSUME NEW c \in S PROVE From(seen[n], c.from) = {}
    <3> SUFFICES ASSUME NEW d \in From(seen[n], c.from) PROVE FALSE
      BY Zenon
    <3>1. d \in seen[n] /\ d.from = c.from
      BY Zenon DEF From
    <3>2. d = c
      BY <3>1, Zenon DEF Single
    <3> QED
      BY <3>1, <3>2, Zenon
  <2> QED
    BY <2>1, <2>2, Zenon
<1>1. ASSUME NEW m \in Members
      PROVE  /\ mem[m].vvec = member[n][m].vvec /\ mem[m].fits = member[n][m].fits
             /\ mem[m].weComplain = member[n][m].weComplain /\ mem[m].sk = member[n][m].sk
             /\ mem[m].bad <=> member[n][m].bad \/ From(S \ first, m) # {}
             /\ mem[m].badMemberVotes = member[n][m].badMemberVotes \cup Voters(first, m)
             /\ mem[m].complaintsFromOthers
                   = member[n][m].complaintsFromOthers \cup Accusers(first, m)
             /\ mem[m].aboutUs <=> \/ member[n][m].aboutUs
                                   \/ \E c \in From(first, m) : n \in c.complain
  <2>1. member[n][m] \in MemberState
    BY Zenon
  <2> QED
    BY <2>1, Zenon DEF MemberState, ReceiveComplaints, Voters, Accusers
<1>2. ASSUME NEW m \in Members
      PROVE  /\ mem[m].bad <=> Many(C2, m) \/ (st /\ From(C2, m) = {}) \/ Many(T, m)
             /\ Single(T) =>
                /\ mem[m].badMemberVotes = Voters(T, m)
                /\ mem[m].complaintsFromOthers = Accusers(T, m)
                /\ mem[m].aboutUs <=> \E c \in From(T, m) : n \in c.complain
  <2>1. /\ From(T, m) = From(seen[n], m) \cup From(S, m)
        /\ From(S, m) = {} => (Many(T, m) <=> Many(seen[n], m))
        /\ From(S, m) # {} => (Many(T, m) <=> From(seen[n], m) # {})
    BY FromMore, Zenon
  <2>2. From(S \ first, m) # {} <=> From(S, m) # {} /\ From(seen[n], m) # {}
    BY Zenon DEF From
  <2>3. Many(seen[n], m) => From(seen[n], m) # {}
    BY Zenon DEF Many
  <2>4. Many(T, m) <=> Many(seen[n], m) \/ From(S \ first, m) # {}
    BY <2>1, <2>2, <2>3, Zenon
  <2>5. /\ Voters(T, m) = Voters(seen[n], m) \cup Voters(S, m)
        /\ Accusers(T, m) = Accusers(seen[n], m) \cup Accusers(S, m)
    BY Zenon DEF Voters, Accusers
  <2>6. member[n][m].bad <=> Many(C2, m) \/ (st /\ From(C2, m) = {}) \/ Many(seen[n], m)
    BY Zenon DEF InComplain
  <2>7. Single(seen[n]) =>
          /\ member[n][m].badMemberVotes = Voters(seen[n], m)
          /\ member[n][m].complaintsFromOthers = Accusers(seen[n], m)
          /\ member[n][m].aboutUs <=> \E c \in From(seen[n], m) : n \in c.complain
    BY Zenon DEF InComplain
  <2> HIDE DEF T, mem, first
  <2>8. mem[m].bad <=> Many(C2, m) \/ (st /\ From(C2, m) = {}) \/ Many(T, m)
    BY <1>1, <2>4, <2>6, Zenon
  <2>9. ASSUME Single(T)
        PROVE  /\ mem[m].badMemberVotes = Voters(T, m)
               /\ mem[m].complaintsFromOthers = Accusers(T, m)
               /\ mem[m].aboutUs <=> \E c \in From(T, m) : n \in c.complain
    BY <1>0, <1>1, <2>1, <2>5, <2>7, <2>9, Zenon
  <2> QED
    BY <2>8, <2>9, Zenon
<1> HIDE DEF T, mem, first
<1>3. Vectors(n, mem, C2)
  BY <1>1, Zenon DEF InComplain, Vectors
<1>4. \A m \in Members :
        /\ ~st => ~mem[m].weComplain
        /\ Single(T) => (st /\ ~NoVector(C2, m) /\ mem[m].fits => mem[m].sk # None)
  BY <1>0, <1>1, Zenon DEF InComplain
<1>5. InComplain(n, mem, st, C2, T)
  BY <1>2, <1>3, <1>4, Zenon DEF InComplain
<1> QED
  BY <1>5, Zenon DEF T, mem

\* mem holds what the contributions C2 say, and m has sent a usable one.
Contributed(n, mem, C2, m) ==
    /\ C2 \in SUBSET Messages /\ \A x \in C2 : x.phase = PhaseContribute
    /\ m \in Members /\ Vectors(n, mem, C2) /\ ~NoVector(C2, m)

\* The vector of m in mem is that of its contribution.
HoldsVector(n, mem, C2, m) ==
    \E x \in C2 : /\ From(C2, m) = {x} /\ x.from = m /\ mem[m].vvec = x.vvec
                  /\ x.vvec \in Vvecs /\ mem[m].vvec # None
                  /\ (mem[m].fits <=> n \in x.fits)

\* A member whose contribution is usable has one vector, the same for everyone.
LEMMA HasVector ==
  ASSUME NEW n, NEW mem, NEW C2, NEW m, Contributed(n, mem, C2, m)
  PROVE  HoldsVector(n, mem, C2, m)
<1>0. /\ C2 \in SUBSET Messages /\ \A x \in C2 : x.phase = PhaseContribute
      /\ m \in Members /\ Vectors(n, mem, C2) /\ ~NoVector(C2, m)
  BY Zenon DEF Contributed
<1>1. PICK x : x \in From(C2, m)
  BY <1>0, Zenon DEF NoVector
<1>2. From(C2, m) = {x} /\ x \in C2 /\ x.from = m
  BY <1>0, <1>1, Zenon DEF NoVector, Many, From
<1>3. mem[m].vvec = x.vvec /\ (mem[m].fits <=> n \in x.fits)
  BY <1>0, <1>1, Zenon DEF Vectors, NoVector
<1>4. x.vvec \in Vvecs
  BY <1>0, <1>2, MessageKinds, Zenon DEF Contributions
<1> QED
  BY <1>2, <1>3, <1>4, DKGAssumption, Zenon DEF HoldsVector

\* ReceiveJustification, message by message.
LEMMA JustificationsKnown ==
  ASSUME NEW n, NEW S, member[n] \in [Members -> MemberState], S \cap seen[n] = {}, Single(S),
         NEW st, NEW C2 \in SUBSET Messages, \A x \in C2 : x.phase = PhaseContribute, NEW C3,
         InJustify(n, member[n], st, C2, C3, seen[n])
  PROVE  InJustify(n, ReceiveJustifications(n, S), st, C2, C3, seen[n] \cup S)
<1> DEFINE T == seen[n] \cup S
           mem == ReceiveJustifications(n, S)
           Right(m) ==
             /\ mem[m].vvec = member[n][m].vvec /\ mem[m].fits = member[n][m].fits
             /\ mem[m].badMemberVotes = member[n][m].badMemberVotes
             /\ mem[m].aboutUs = member[n][m].aboutUs
             /\ mem[m].bad <=> NoVector(C2, m) \/ (st /\ VotedBad(C3, m)) \/ Unjust(C2, C3, T, m)
             /\ ~mem[m].bad =>
                  /\ mem[m].complaintsFromOthers = Unanswered(C3, T, m)
                  /\ mem[m].sk # None \/ n \in mem[m].complaintsFromOthers
<1>1. ASSUME NEW m \in Members
      PROVE  Right(m)
  <2> DEFINE r == member[n][m]
  <2>1. /\ r \in MemberState
        /\ r.bad <=> NoVector(C2, m) \/ (st /\ VotedBad(C3, m)) \/ Unjust(C2, C3, seen[n], m)
        /\ ~r.bad => /\ r.complaintsFromOthers = Unanswered(C3, seen[n], m)
                     /\ r.sk # None \/ n \in r.complaintsFromOthers
    BY Zenon DEF InJustify
  <2>2. /\ From(T, m) = From(seen[n], m) \cup From(S, m)
        /\ From(S, m) = {} => (Many(T, m) <=> Many(seen[n], m))
        /\ From(S, m) # {} => (Many(T, m) <=> From(seen[n], m) # {})
    BY FromMore, Zenon
  <2>3. CASE From(S, m) = {}
    <3>1. mem[m] = r
      BY <2>3, Zenon DEF ReceiveJustifications
    <3>2. /\ Unjust(C2, C3, T, m) <=> Unjust(C2, C3, seen[n], m)
          /\ Unanswered(C3, T, m) = Unanswered(C3, seen[n], m)
      BY <2>2, <2>3, Zenon DEF Unjust, Unanswered, Answered
    <3> HIDE DEF T, mem, r
    <3> QED
      BY <2>1, <3>1, <3>2, Zenon DEF r
  <2>4. CASE From(S, m) # {}
    <3>1. PICK j \in S : From(S, m) = {j} /\ j.from = m
      BY <2>4, BatchFrom, Zenon DEF Single
    <3>2. mem[m] = ReceiveJustification(n, j, r)
      <4>1. (CHOOSE d \in From(S, m) : TRUE) = j
        BY <3>1, Zenon
      <4> QED
        BY <2>4, <4>1, Zenon DEF ReceiveJustifications
    <3>3. CASE From(seen[n], m) # {}
      <4>1. mem[m] = [r EXCEPT !.bad = TRUE]
        BY <3>1, <3>2, <3>3, Zenon DEF ReceiveJustification, MarkBadMember
      <4>2. Unjust(C2, C3, T, m)
        BY <2>2, <2>4, <3>3, Zenon DEF Unjust
      <4>3. /\ mem[m].vvec = r.vvec /\ mem[m].fits = r.fits /\ mem[m].bad
            /\ mem[m].badMemberVotes = r.badMemberVotes /\ mem[m].aboutUs = r.aboutUs
        <5> HIDE DEF mem, r
        <5> QED
          BY <2>1, <4>1, Zenon DEF MemberState
      <4> HIDE DEF T, mem
      <4> QED
        BY <4>2, <4>3, Zenon
    <3>4. CASE From(seen[n], m) = {}
      <4>1. From(T, m) = {j} /\ ~Many(T, m)
        BY <2>2, <2>4, <3>1, <3>4, Zenon
      <4>2. /\ Unjust(C2, C3, T, m) <=> ~Answers(C2, C3, j)
            /\ Answered(T, m) = DOMAIN j.shares
        BY <4>1, Zenon DEF Unjust, Answered
      <4>3. ~Unjust(C2, C3, seen[n], m) /\ Unanswered(C3, seen[n], m) = Accusers(C3, m)
        BY <3>4, Zenon DEF Unjust, Many, Unanswered, Answered
      <4>4. CASE r.bad
        <5>1. mem[m] = r
          BY <3>1, <3>2, <3>4, <4>4, Zenon DEF ReceiveJustification
        <5> HIDE DEF T, mem, r
        <5> QED
          BY <2>1, <4>3, <4>4, <5>1, Zenon DEF r
      <4>5. CASE ~r.bad
        <5>1. ~NoVector(C2, m) /\ ~(st /\ VotedBad(C3, m))
              /\ r.complaintsFromOthers = Accusers(C3, m)
          BY <2>1, <4>3, <4>5, Zenon
        <5>2. PICK x \in C2 : From(C2, m) = {x} /\ r.vvec = x.vvec /\ r.vvec # None
          <6>1. Contributed(n, member[n], C2, m)
            BY <5>1, Zenon DEF InJustify, Contributed
          <6>2. HoldsVector(n, member[n], C2, m)
            BY <6>1, HasVector, Zenon
          <6> QED
            BY <6>2, Zenon DEF HoldsVector
        <5>3. Answers(C2, C3, j) <=> /\ DOMAIN j.shares \subseteq r.complaintsFromOthers
                                     /\ \A y \in DOMAIN j.shares : j.shares[y] = r.vvec
          BY <3>1, <5>1, <5>2, Zenon DEF Answers
        <5>4. CASE ~ DOMAIN j.shares \subseteq r.complaintsFromOthers
          <6>1. mem[m] = [r EXCEPT !.bad = TRUE]
            BY <3>1, <3>2, <3>4, <4>5, <5>4, Zenon DEF ReceiveJustification, MarkBadMember
          <6>2. /\ mem[m].vvec = r.vvec /\ mem[m].fits = r.fits /\ mem[m].bad
                /\ mem[m].badMemberVotes = r.badMemberVotes /\ mem[m].aboutUs = r.aboutUs
            <7> HIDE DEF mem, r
            <7> QED
              BY <2>1, <6>1, Zenon DEF MemberState
          <6> HIDE DEF T, mem
          <6> QED
            BY <4>2, <5>3, <5>4, <6>2, Zenon
        <5>5. CASE DOMAIN j.shares \subseteq r.complaintsFromOthers
          <6> DEFINE fitting == {y \in DOMAIN j.shares : j.shares[y] = r.vvec}
          <6>1. /\ mem[m].vvec = r.vvec /\ mem[m].fits = r.fits
                /\ mem[m].badMemberVotes = r.badMemberVotes /\ mem[m].aboutUs = r.aboutUs
                /\ mem[m].bad <=> fitting # DOMAIN j.shares
                /\ mem[m].complaintsFromOthers = r.complaintsFromOthers \ fitting
                /\ mem[m].sk = IF n \in fitting THEN j.shares[n] ELSE r.sk
            <7>1. From(seen[n], j.from) = {}
              BY <3>1, <3>4, Zenon
            <7> HIDE DEF mem
            <7> QED
              BY <2>1, <3>2, <4>5, <5>5, <7>1, ZenonT(60) DEF ReceiveJustification, MemberState
          <6>2. Answers(C2, C3, j) <=> fitting = DOMAIN j.shares
            BY <5>3, <5>5, Zenon
          <6>3. fitting = DOMAIN j.shares =>
                  mem[m].complaintsFromOthers = Unanswered(C3, T, m)
            BY <4>2, <5>1, <6>1, Zenon DEF Unanswered
          <6>4. n \in fitting => mem[m].sk # None
            BY <5>2, <6>1, Zenon
          <6>5. n \notin fitting => mem[m].sk # None \/ n \in mem[m].complaintsFromOthers
            BY <2>1, <4>5, <6>1, Zenon
          <6> HIDE DEF T, mem, fitting
          <6> QED
            BY <4>2, <5>1, <6>1, <6>2, <6>3, <6>4, <6>5, Zenon
        <5> QED
          BY <5>4, <5>5, Zenon
      <4> QED
        BY <4>4, <4>5, Zenon
    <3> QED
      BY <3>3, <3>4, Zenon
  <2> QED
    BY <2>3, <2>4, Zenon
<1> HIDE DEF T, mem
<1>2. Vectors(n, mem, C2)
  BY <1>1, ZenonT(60) DEF InJustify, Vectors
<1>3. \A m \in Members :
        /\ mem[m].badMemberVotes = Voters(C3, m)
        /\ mem[m].aboutUs <=> \E c \in From(C3, m) : n \in c.complain
  BY <1>1, Zenon DEF InJustify
<1>4. InJustify(n, mem, st, C2, C3, T)
  BY <1>1, <1>2, <1>3, Zenon DEF InJustify
<1> QED
  BY <1>4, Zenon DEF T, mem

\* What a member makes of the number of complaints, once it left Complain.
Told(mem, C3) ==
    /\ (\A m \in Members : mem[m].complaints < 2) => Single(C3)
    /\ Single(C3) => \A m \in Members : From(C3, m) # {} => mem[m].complaints = 1

\* From Contribute to Complain.
LEMMA ToComplain ==
  ASSUME NEW n, NEW mem, NEW T, NEW C2, InContribute(n, mem, T), Complete(T, C2)
  PROVE  InComplain(n, mem, FALSE, C2, {})
<1>1. \A m : /\ Many(T, m) <=> Many(C2, m)
             /\ ~Many(C2, m) => From(T, m) = From(C2, m)
  BY CompleteFrom, Zenon
<1>2. Vectors(n, mem, C2)
  BY <1>1, Zenon DEF InContribute, Vectors
<1>3. \A m : ~Many({}, m) /\ From({}, m) = {} /\ Voters({}, m) = {} /\ Accusers({}, m) = {}
  BY Zenon DEF Many, From, Voters, Accusers
<1>4. \A m \in Members : /\ mem[m].bad <=> Many(C2, m)
                         /\ mem[m].badMemberVotes = {} /\ mem[m].complaintsFromOthers = {}
                         /\ ~mem[m].aboutUs /\ ~mem[m].weComplain
  BY <1>1, Zenon DEF InContribute
<1> QED
  BY <1>2, <1>3, <1>4, Zenon DEF InComplain

\* From Complain to Justify: n has complained about the shares that do not fit.
LEMMA ToJustify ==
  ASSUME NEW n, NEW mem, NEW T, NEW C2 \in SUBSET Messages,
         \A x \in C2 : x.phase = PhaseContribute, NEW C3 \in SUBSET Messages,
         IsFiniteSet(T), \A m \in Members : mem[m].complaints = Cardinality(From(T, m)),
         InComplain(n, mem, TRUE, C2, T), Complete(T, C3),
         Single(C3) => \A m \in Members : \A x \in From(C2, m) :
              NoVector(C2, m) \/ n \in x.fits \/ n \in Accusers(C3, m)
  PROVE  /\ Told(mem, C3)
         /\ Single(C3) => InJustify(n, mem, FALSE, C2, C3, {})
<1>1. (\A m \in Members : mem[m].complaints < 2) => Single(C3)
  <2> SUFFICES ASSUME \A m \in Members : mem[m].complaints < 2 PROVE Single(C3)
    BY Zenon
  <2>1. \A m \in Members : ~Many(T, m)
    BY ManyCount, Zenon
  <2>2. Single(T)
    <3>1. \A x \in T : x.from \in Members
      BY MessageKinds, Zenon DEF Complete
    <3> QED
      BY <2>1, <3>1, Zenon DEF Single, Many, From
  <2> QED
    BY <2>2, CompleteSingle, Zenon
<1>2. ASSUME Single(C3)
      PROVE  /\ \A m \in Members : From(C3, m) # {} => mem[m].complaints = 1
             /\ InJustify(n, mem, FALSE, C2, C3, {})
  <2>1. T \subseteq C3
    BY Zenon DEF Complete
  <2>2. Single(T) /\ \A m : ~Many(T, m)
    BY <1>2, <2>1, SingleLess, Zenon
  <2>3. T = C3
    BY <2>2, CompleteSingle, Zenon
  <2>4. ASSUME NEW m \in Members, From(C3, m) # {} PROVE mem[m].complaints = 1
    <3>1. PICK c : From(C3, m) = {c}
      BY <2>4, <1>2, BatchFrom DEF Single
    <3>2. Cardinality({c}) = 1
      BY FS_Singleton, Zenon
    <3> QED
      BY <2>3, <3>1, <3>2, Zenon
  <2>5. ASSUME NEW m \in Members
        PROVE  /\ mem[m].badMemberVotes = Voters(C3, m)
               /\ mem[m].aboutUs <=> \E c \in From(C3, m) : n \in c.complain
               /\ mem[m].bad <=> NoVector(C2, m)
               /\ mem[m].complaintsFromOthers = Accusers(C3, m)
               /\ mem[m].fits /\ ~NoVector(C2, m) => mem[m].sk # None
    BY <2>2, <2>3, Zenon DEF InComplain, NoVector
  <2>6. \A m : Unanswered(C3, {}, m) = Accusers(C3, m) /\ ~Unjust(C2, C3, {}, m)
    BY Zenon DEF Unanswered, Answered, From, Unjust, Many
  <2>7. ASSUME NEW m \in Members, ~mem[m].bad
        PROVE  mem[m].sk # None \/ n \in mem[m].complaintsFromOthers
    <3>1. ~NoVector(C2, m)
      BY <2>5, <2>7, Zenon
    <3>2. PICK x \in C2 : From(C2, m) = {x} /\ (mem[m].fits <=> n \in x.fits)
      <4>1. Contributed(n, mem, C2, m)
        BY <3>1, Zenon DEF InComplain, Contributed
      <4>2. HoldsVector(n, mem, C2, m)
        BY <4>1, HasVector, Zenon
      <4> QED
        BY <4>2, Zenon DEF HoldsVector
    <3>3. n \in x.fits \/ n \in Accusers(C3, m)
      BY <1>2, <3>1, <3>2, Zenon
    <3> QED
      BY <2>5, <3>1, <3>2, <3>3, Zenon
  <2>8. Vectors(n, mem, C2)
    BY Zenon DEF InComplain
  <2>9. InJustify(n, mem, FALSE, C2, C3, {})
    BY <2>5, <2>6, <2>7, <2>8, Zenon DEF InJustify
  <2> QED
    BY <2>4, <2>9, Zenon
<1> QED
  BY <1>1, <1>2, Zenon DEF Told

\* From Justify to Commit.
LEMMA ToCommit ==
  ASSUME NEW n, NEW mem, NEW T, NEW C2, NEW C3, NEW C4,
         InJustify(n, mem, TRUE, C2, C3, T), Complete(T, C4)
  PROVE  InCommit(n, mem, FALSE, C2, C3, C4)
<1>1. \A m : /\ Many(T, m) <=> Many(C4, m)
             /\ ~Many(C4, m) => From(T, m) = From(C4, m)
  BY CompleteFrom, Zenon
<1>2. \A m : /\ Unjust(C2, C3, T, m) <=> Unjust(C2, C3, C4, m)
             /\ ~Many(C4, m) => Unanswered(C3, T, m) = Unanswered(C3, C4, m)
  BY <1>1, Zenon DEF Unjust, Unanswered, Answered
<1>3. \A m : Many(C4, m) => Convicted(C2, C3, C4, m)
  BY Zenon DEF Convicted, Unjust
<1>4. \A m \in Members : mem[m].bad <=> Convicted(C2, C3, C4, m)
  BY <1>2, Zenon DEF InJustify, Convicted
<1>5. ASSUME NEW m \in Members, ~Convicted(C2, C3, C4, m)
      PROVE  /\ mem[m].complaintsFromOthers = Unanswered(C3, C4, m)
             /\ mem[m].sk # None \/ n \in mem[m].complaintsFromOthers
  BY <1>2, <1>3, <1>4, <1>5, Zenon DEF InJustify
<1>6. Vectors(n, mem, C2)
  BY Zenon DEF InJustify
<1> QED
  BY <1>4, <1>5, <1>6, Zenon DEF InCommit

\* VerifyAndComplain for one member.
LEMMA ComplainRecord ==
  ASSUME NEW r \in MemberState
  PROVE  LET v == VerifyPendingContribution(r)
             q == [v EXCEPT !.bad = @ \/ v.vvec = None]
         IN  /\ q.vvec = r.vvec /\ q.fits = r.fits
             /\ q.bad <=> r.bad \/ r.vvec = None
             /\ q.badMemberVotes = r.badMemberVotes
             /\ q.complaintsFromOthers = r.complaintsFromOthers /\ q.aboutUs = r.aboutUs
             /\ q.complaints = r.complaints
             /\ ~r.bad /\ r.vvec # None => /\ q.weComplain <=> ~r.fits
                                           /\ r.fits => q.sk = r.vvec
<1>1. CASE r.bad \/ r.vvec = None
  <2>1. VerifyPendingContribution(r) = r
    BY <1>1, Zenon DEF VerifyPendingContribution
  <2> QED
    BY <1>1, <2>1, Zenon DEF MemberState
<1>2. CASE ~(r.bad \/ r.vvec = None)
  BY <1>2, Zenon DEF VerifyPendingContribution, MemberState
<1> QED
  BY <1>1, <1>2, Zenon

\* VerifyAndComplain: the members it marks bad have no vector, and those it
\* complains about are those whose share does not fit.
LEMMA ComplainKnown ==
  ASSUME NEW n, NEW mem \in [Members -> MemberState], NEW C2 \in SUBSET Messages,
         \A x \in C2 : x.phase = PhaseContribute, NEW T,
         InComplain(n, mem, FALSE, C2, T)
  PROVE  LET new == [m \in Members |->
                       LET v == VerifyPendingContribution(mem[m])
                       IN  [v EXCEPT !.bad = @ \/ v.vvec = None]]
         IN  /\ InComplain(n, new, TRUE, C2, T)
             /\ Single(T) => \A m \in Members :
                  /\ new[m].bad => NoVector(C2, m)
                  /\ \A x \in From(C2, m) :
                       NoVector(C2, m) \/ n \in x.fits \/ (~new[m].bad /\ new[m].weComplain)
<1> DEFINE new == [m \in Members |->
                     LET v == VerifyPendingContribution(mem[m])
                     IN  [v EXCEPT !.bad = @ \/ v.vvec = None]]
<1>0. ASSUME NEW m \in Members, ~NoVector(C2, m) PROVE mem[m].vvec # None
  <2>1. Contributed(n, mem, C2, m)
    BY <1>0, Zenon DEF InComplain, Contributed
  <2>2. HoldsVector(n, mem, C2, m)
    BY <2>1, HasVector, Zenon
  <2> QED
    BY <2>2, Zenon DEF HoldsVector
<1>1. ASSUME NEW m \in Members
      PROVE  /\ new[m].vvec = mem[m].vvec /\ new[m].fits = mem[m].fits
             /\ new[m].bad <=> mem[m].bad \/ mem[m].vvec = None
             /\ new[m].badMemberVotes = mem[m].badMemberVotes
             /\ new[m].complaintsFromOthers = mem[m].complaintsFromOthers
             /\ new[m].aboutUs = mem[m].aboutUs
             /\ ~mem[m].bad /\ mem[m].vvec # None => /\ new[m].weComplain <=> ~mem[m].fits
                                                     /\ mem[m].fits => new[m].sk = mem[m].vvec
  <2>1. mem[m] \in MemberState
    BY Zenon
  <2> QED
    BY <2>1, ComplainRecord, Zenon
<1> HIDE DEF new
<1>2. Vectors(n, new, C2)
  BY <1>1, ZenonT(60) DEF InComplain, Vectors
<1>3. ASSUME NEW m \in Members
      PROVE  new[m].bad <=> Many(C2, m) \/ From(C2, m) = {} \/ Many(T, m)
  <2>1. mem[m].bad <=> Many(C2, m) \/ Many(T, m)
    BY Zenon DEF InComplain
  <2>2. CASE NoVector(C2, m)
    <3>1. Many(C2, m) \/ mem[m].vvec = None
      BY <2>2, Zenon DEF InComplain, Vectors, NoVector
    <3> QED
      BY <1>1, <2>1, <2>2, <3>1, Zenon DEF NoVector
  <2>3. CASE ~NoVector(C2, m)
    <3>1. mem[m].vvec # None
      BY <1>0, <2>3, Zenon
    <3> QED
      BY <1>1, <2>1, <2>3, <3>1, Zenon DEF NoVector
  <2> QED
    BY <2>2, <2>3, Zenon
<1>4. ASSUME NEW m \in Members, Single(T)
      PROVE  /\ new[m].badMemberVotes = Voters(T, m)
             /\ new[m].complaintsFromOthers = Accusers(T, m)
             /\ new[m].aboutUs <=> \E c \in From(T, m) : n \in c.complain
  BY <1>1, <1>4, Zenon DEF InComplain
<1>5. ASSUME NEW m \in Members, Single(T)
      PROVE  /\ new[m].bad <=> NoVector(C2, m)
             /\ ~NoVector(C2, m) => /\ ~mem[m].bad /\ mem[m].vvec # None
                                    /\ new[m].fits => new[m].sk # None
                                    /\ new[m].weComplain <=> ~new[m].fits
  <2>1. ~Many(T, m)
    BY <1>5, Zenon DEF Single, Many, From
  <2>2. new[m].bad <=> NoVector(C2, m)
    BY <1>3, <2>1, Zenon DEF NoVector
  <2>3. ~NoVector(C2, m) => mem[m].vvec # None
    BY <1>0, Zenon
  <2> QED
    BY <1>1, <2>2, <2>3, Zenon
<1>6. InComplain(n, new, TRUE, C2, T)
  BY <1>2, <1>3, <1>4, <1>5, Zenon DEF InComplain
<1>7. ASSUME Single(T), NEW m \in Members, NEW x \in From(C2, m), ~NoVector(C2, m), n \notin x.fits
      PROVE  ~new[m].bad /\ new[m].weComplain
  <2>1. ~new[m].fits
    BY <1>2, <1>7, Zenon DEF Vectors, NoVector
  <2> QED
    BY <1>5, <1>7, <2>1, Zenon
<1>8. Single(T) => \A m \in Members :
        /\ new[m].bad => NoVector(C2, m)
        /\ \A x \in From(C2, m) :
             NoVector(C2, m) \/ n \in x.fits \/ (~new[m].bad /\ new[m].weComplain)
  BY <1>5, <1>7, Zenon
<1> QED
  BY <1>6, <1>8, Zenon DEF new

\* Marking a member bad changes nothing else.
LEMMA BadRecord ==
  ASSUME NEW r \in MemberState, NEW b
  PROVE  LET q == [r EXCEPT !.bad = @ \/ b]
         IN  /\ q.bad <=> r.bad \/ b
             /\ q.vvec = r.vvec /\ q.fits = r.fits /\ q.sk = r.sk
             /\ q.badMemberVotes = r.badMemberVotes /\ q.complaints = r.complaints
             /\ q.complaintsFromOthers = r.complaintsFromOthers /\ q.aboutUs = r.aboutUs
  BY Zenon DEF MemberState

\* VerifyAndJustify: n answers every complaint about it, except those of members
\* that are bad.
LEMMA JustifyKnown ==
  ASSUME NEW n, NEW mem \in [Members -> MemberState], NEW C2, NEW C3 \in SUBSET Messages, NEW T,
         InJustify(n, mem, FALSE, C2, C3, T), Told(mem, C3), Single(C3)
  PROVE  LET new == [m \in Members |->
                       [mem[m] EXCEPT !.bad = @ \/ Cardinality(mem[m].badMemberVotes)
                                                      >= dkgBadVotesThreshold]]
             justifyFor == {m \in Members :
                              ~new[m].bad /\ new[m].complaints = 1 /\ new[m].aboutUs}
         IN  /\ InJustify(n, new, TRUE, C2, C3, T)
             /\ justifyFor \subseteq Accusers(C3, n)
             /\ \A y \in Accusers(C3, n) : y \in justifyFor \/ Convicted(C2, C3, T, y)
<1> DEFINE new == [m \in Members |->
                     [mem[m] EXCEPT !.bad = @ \/ Cardinality(mem[m].badMemberVotes)
                                                    >= dkgBadVotesThreshold]]
           justifyFor == {m \in Members :
                            ~new[m].bad /\ new[m].complaints = 1 /\ new[m].aboutUs}
<1>1. ASSUME NEW m \in Members
      PROVE  /\ new[m].bad <=> mem[m].bad \/ VotedBad(C3, m)
             /\ new[m].vvec = mem[m].vvec /\ new[m].fits = mem[m].fits /\ new[m].sk = mem[m].sk
             /\ new[m].badMemberVotes = mem[m].badMemberVotes
             /\ new[m].complaints = mem[m].complaints
             /\ new[m].complaintsFromOthers = mem[m].complaintsFromOthers
             /\ new[m].aboutUs = mem[m].aboutUs
  <2>1. PICK r \in MemberState : r = mem[m]
    BY Zenon
  <2>2. PICK b : b = (Cardinality(r.badMemberVotes) >= dkgBadVotesThreshold)
    BY Zenon
  <2>3. new[m] = [r EXCEPT !.bad = @ \/ b]
    BY <2>1, <2>2, Zenon
  <2>4. b <=> VotedBad(C3, m)
    BY <2>1, <2>2, Zenon DEF VotedBad, InJustify
  <2> HIDE DEF new
  <2> QED
    BY <2>1, <2>3, <2>4, BadRecord
<1> HIDE DEF new
<1>2. Vectors(n, new, C2)
  BY <1>1, Zenon DEF InJustify, Vectors
<1>3. ASSUME NEW m \in Members
      PROVE  /\ new[m].badMemberVotes = Voters(C3, m)
             /\ new[m].aboutUs <=> \E c \in From(C3, m) : n \in c.complain
             /\ new[m].bad <=> NoVector(C2, m) \/ VotedBad(C3, m) \/ Unjust(C2, C3, T, m)
             /\ ~new[m].bad =>
                  /\ new[m].complaintsFromOthers = Unanswered(C3, T, m)
                  /\ new[m].sk # None \/ n \in new[m].complaintsFromOthers
  <2>1. /\ mem[m].badMemberVotes = Voters(C3, m)
        /\ mem[m].aboutUs <=> \E c \in From(C3, m) : n \in c.complain
        /\ mem[m].bad <=> NoVector(C2, m) \/ Unjust(C2, C3, T, m)
        /\ ~mem[m].bad =>
             /\ mem[m].complaintsFromOthers = Unanswered(C3, T, m)
             /\ mem[m].sk # None \/ n \in mem[m].complaintsFromOthers
    BY Zenon DEF InJustify
  <2> QED
    BY <1>1, <2>1, Zenon
<1>4. InJustify(n, new, TRUE, C2, C3, T)
  BY <1>2, <1>3, Zenon DEF InJustify
<1>5. ASSUME NEW y \in justifyFor PROVE y \in Accusers(C3, n)
  <2>1. PICK c \in From(C3, y) : n \in c.complain
    BY <1>3, Zenon
  <2> QED
    BY <2>1, Zenon DEF From, Accusers
<1>6. ASSUME NEW y \in Accusers(C3, n), ~Convicted(C2, C3, T, y) PROVE y \in justifyFor
  <2>1. PICK c \in C3 : n \in c.complain /\ c.from = y
    BY Zenon DEF Accusers
  <2>2. y \in Members /\ c \in From(C3, y)
    <3>1. c \in Messages
      BY Zenon
    <3>2. c.from \in Members
      BY <3>1, MessageKinds, Zenon
    <3> QED
      BY <2>1, <3>2, Zenon DEF From
  <2>3. ~new[y].bad /\ new[y].aboutUs
    BY <1>3, <1>6, <2>1, <2>2, Zenon DEF Convicted
  <2>4. new[y].complaints = 1
    BY <1>1, <2>2, SMTT(100) DEF Told
  <2> QED
    BY <2>2, <2>3, <2>4, Zenon
<1> QED
  BY <1>4, <1>5, <1>6, Zenon DEF new, justifyFor

\* A commitment for the members that are accepted.
ForAccepted(c, C2, V) ==
    /\ c.sig /\ DOMAIN c.key = V
    /\ \A m \in V : \A x \in From(C2, m) : c.key[m] = x.vvec

\* VerifyAndCommit: n commits to the accepted members if they are enough.
LEMMA CommitKnown ==
  ASSUME NEW n, NEW mem \in [Members -> MemberState], NEW C2 \in SUBSET Messages,
         \A x \in C2 : x.phase = PhaseContribute, NEW C3, NEW C4,
         InCommit(n, mem, FALSE, C2, C3, C4)
  PROVE  LET V == Accepted(C2, C3, C4)
             key == SendCommitment(CloseComplaints(mem))
         IN  /\ InCommit(n, CloseComplaints(mem), TRUE, C2, C3, C4)
             /\ Cardinality(V) >= minSize =>
                  /\ key # None
                  /\ ForAccepted([phase |-> PhaseCommit, from |-> n, key |-> key, sig |-> TRUE],
                                 C2, V)
<1> DEFINE V == Accepted(C2, C3, C4)
           new == CloseComplaints(mem)
           key == SendCommitment(new)
<1>1. ASSUME NEW m \in Members
      PROVE  /\ new[m].bad <=> mem[m].bad \/ mem[m].complaintsFromOthers # {}
             /\ new[m].vvec = mem[m].vvec /\ new[m].fits = mem[m].fits /\ new[m].sk = mem[m].sk
             /\ new[m].complaintsFromOthers = mem[m].complaintsFromOthers
  <2>1. PICK r \in MemberState : r = mem[m]
    BY Zenon
  <2>2. PICK b : b = (r.complaintsFromOthers # {})
    BY Zenon
  <2>3. new[m] = [r EXCEPT !.bad = @ \/ b]
    BY <2>1, <2>2, Zenon DEF CloseComplaints
  <2>4. b <=> mem[m].complaintsFromOthers # {}
    BY <2>1, <2>2, Zenon
  <2> HIDE DEF new
  <2> QED
    BY <2>1, <2>3, <2>4, BadRecord
<1>2. DOMAIN new = Members
  BY Zenon DEF CloseComplaints
<1> HIDE DEF new
<1>3. Vectors(n, new, C2)
  BY <1>1, Zenon DEF InCommit, Vectors
<1>4. ASSUME NEW m \in Members
      PROVE  /\ new[m].bad <=> \/ Convicted(C2, C3, C4, m)
                               \/ Unanswered(C3, C4, m) # {}
             /\ ~Convicted(C2, C3, C4, m) =>
                  /\ new[m].complaintsFromOthers = Unanswered(C3, C4, m)
                  /\ new[m].sk # None \/ n \in new[m].complaintsFromOthers
  <2>1. /\ mem[m].bad <=> Convicted(C2, C3, C4, m)
        /\ ~Convicted(C2, C3, C4, m) =>
             /\ mem[m].complaintsFromOthers = Unanswered(C3, C4, m)
             /\ mem[m].sk # None \/ n \in mem[m].complaintsFromOthers
    BY Zenon DEF InCommit
  <2> QED
    BY <1>1, <2>1, Zenon
<1>5. InCommit(n, new, TRUE, C2, C3, C4)
  BY <1>3, <1>4, Zenon DEF InCommit
<1>6. V = {m \in Members : ~new[m].bad}
  BY <1>4, Zenon DEF Accepted
<1>7. ASSUME NEW m \in V PROVE new[m].vvec # None /\ new[m].sk # None
  <2>1. /\ m \in Members /\ ~NoVector(C2, m) /\ ~Convicted(C2, C3, C4, m)
        /\ Unanswered(C3, C4, m) = {}
    BY Zenon DEF Accepted, Convicted
  <2>2. new[m].vvec # None
    <3>1. Contributed(n, new, C2, m)
      BY <1>3, <2>1, Zenon DEF Contributed
    <3>2. HoldsVector(n, new, C2, m)
      BY <3>1, HasVector, Zenon
    <3> QED
      BY <3>2, Zenon DEF HoldsVector
  <2>3. new[m].sk # None
    BY <1>4, <2>1, Zenon
  <2> QED
    BY <2>2, <2>3, Zenon
<1> HIDE DEF V
<1>8. ASSUME Cardinality(V) >= minSize
      PROVE  key # None /\ key = [m \in V |-> new[m].vvec]
  <2>1. key = [m \in V |-> new[m].vvec]
    BY <1>6, <1>7, <1>8, Zenon DEF SendCommitment
  <2>2. \A m \in V : new[m].vvec \in Vvecs
    <3> SUFFICES ASSUME NEW m \in V PROVE new[m].vvec \in Vvecs
      BY Zenon
    <3>1. m \in Members /\ mem[m] \in MemberState
      BY <1>6, Zenon
    <3>2. mem[m].vvec \in Vvecs \cup {None}
      BY <3>1, Zenon DEF MemberState
    <3> QED
      BY <1>1, <1>7, <3>1, <3>2, Zenon
  <2>3. V \in SUBSET Members /\ [m \in V |-> new[m].vvec] \in [V -> Vvecs]
    BY <1>6, <2>2, Zenon
  <2>4. [m \in V |-> new[m].vvec] \in Keys
    BY <2>3, Zenon DEF Keys
  <2> QED
    BY <2>1, <2>4, MessagesAssumption, Zenon
<1> HIDE DEF key
<1>9. ASSUME Cardinality(V) >= minSize
      PROVE  ForAccepted([phase |-> PhaseCommit, from |-> n, key |-> key, sig |-> TRUE], C2, V)
  <2>1. ASSUME NEW m \in V, NEW x \in From(C2, m) PROVE key[m] = x.vvec
    <3>1. m \in Members /\ ~Many(C2, m)
      BY Zenon DEF V, Accepted, Convicted, NoVector
    <3>2. new[m].vvec = x.vvec
      BY <1>3, <3>1, Zenon DEF Vectors
    <3> QED
      BY <1>8, <1>9, <3>2, Zenon
  <2>2. DOMAIN key = V
    BY <1>8, <1>9, Zenon
  <2> QED
    BY <2>1, <2>2, Zenon DEF ForAccepted
<1> QED
  BY <1>5, <1>8, <1>9, Zenon DEF V, new, key

\* The commitments of T that ReceiveCommitments keeps.
Kept(mem, T) ==
    {c \in T : /\ Cardinality(DOMAIN c.key) >= minSize
               /\ (\A m \in DOMAIN c.key : mem[m].vvec # None) =>
                      c.sig /\ \A m \in DOMAIN c.key : mem[m].vvec = c.key[m]}

\* ProcessPendingCommitments keeps the commitments that Kept names.
LEMMA KeptIs ==
  ASSUME NEW n, NEW S, phase[n] = PhaseCommit, valid[n] = Kept(member[n], seen[n])
  PROVE  ProcessPendingCommitments(n, S) = Kept(member[n], seen[n] \cup S)
<1>1. ReceiveCommitments(n, S) = Kept(member[n], S)
  BY Zenon DEF ReceiveCommitments, Kept
<1>2. Kept(member[n], seen[n] \cup S) = Kept(member[n], seen[n]) \cup Kept(member[n], S)
  BY Zenon DEF Kept
<1> QED
  BY <1>1, <1>2, Zenon DEF ProcessPendingCommitments

\* Every honest member's commitment is for the accepted members V, and handled.
AllCommitted(T, C2, V) == \A h \in Honest : \E c \in From(T, h) : ForAccepted(c, C2, V)

\* The honest members are enough, and in V.
Enough(V) == Cardinality(Honest) >= minSize /\ Honest \subseteq V

\* The commitments of vd to the members V.
To(vd, V) == {c \in vd : DOMAIN c.key = V}

\* The commitments G make a final commitment that verifies.
Verifies(G) ==
    /\ Cardinality(G) >= minSize
    /\ \A first \in G : \E f \in FinalCommitment(G, first) : Verify(f)
    /\ Honest # {} => G # {}

\* When every honest member's commitment to the accepted members is there, a
\* final commitment for them verifies.
LEMMA FinalVerifies ==
  ASSUME NEW n, NEW mem, NEW C2 \in SUBSET Messages,
         \A x \in C2 : x.phase = PhaseContribute, NEW C3, NEW C4,
         InCommit(n, mem, TRUE, C2, C3, C4),
         NEW T \in SUBSET Commitments, IsFiniteSet(T),
         NEW V, V = Accepted(C2, C3, C4),
         Enough(V), AllCommitted(T, C2, V)
  PROVE  Verifies(To(Kept(mem, T), V))
<1> USE DEF Enough
<1> DEFINE G == {c \in Kept(mem, T) : DOMAIN c.key = V}
<1>0. /\ IsFiniteSet(Members) /\ Honest \subseteq Members /\ minSize \in Nat
      /\ V \subseteq Members
  BY DKGAssumption, Zenon DEF Accepted
<1>1. IsFiniteSet(V) /\ IsFiniteSet(Honest)
  BY <1>0, FS_Subset, Zenon
<1>2. Cardinality(V) >= minSize
  <2>1. Cardinality(Honest) <= Cardinality(V)
    BY <1>1, FS_Subset, Zenon
  <2>2. Cardinality(Honest) \in Nat /\ Cardinality(V) \in Nat
    BY <1>1, FS_CardinalityType, Zenon
  <2> QED
    BY <1>0, <2>1, <2>2
<1>3. ASSUME NEW m \in V
      PROVE  \E x \in C2 : From(C2, m) = {x} /\ mem[m].vvec = x.vvec /\ mem[m].vvec # None
  <2>1. m \in Members /\ ~NoVector(C2, m)
    BY Zenon DEF Accepted, Convicted
  <2>2. Contributed(n, mem, C2, m)
    BY <2>1, Zenon DEF InCommit, Contributed
  <2>3. HoldsVector(n, mem, C2, m)
    BY <2>2, HasVector, Zenon
  <2> QED
    BY <2>3, Zenon DEF HoldsVector
<1>4. ASSUME NEW h \in Honest
      PROVE  \E c \in G : c.from = h
  <2>1. PICK c \in From(T, h) : ForAccepted(c, C2, V)
    BY Zenon DEF AllCommitted
  <2>2. c \in T /\ c.from = h /\ c.sig /\ DOMAIN c.key = V
    BY <2>1, Zenon DEF From, ForAccepted
  <2>3. \A m \in V : mem[m].vvec = c.key[m]
    BY <1>3, <2>1, Zenon DEF ForAccepted
  <2>4. c \in Kept(mem, T)
    BY <1>2, <2>2, <2>3, Zenon DEF Kept
  <2> QED
    BY <2>2, <2>4, Zenon
<1>5. ASSUME NEW c \in G
      PROVE  /\ c \in Commitments /\ c.sig /\ c.from \in Members
             /\ c.key = [m \in V |-> mem[m].vvec]
  <2>1. /\ c \in T /\ DOMAIN c.key = V
        /\ (\A m \in V : mem[m].vvec # None) => c.sig /\ \A m \in V : mem[m].vvec = c.key[m]
    BY Zenon DEF Kept
  <2>2. c.sig /\ \A m \in V : mem[m].vvec = c.key[m]
    BY <1>3, <2>1, Zenon
  <2>3. c \in Commitments /\ c.key \in Keys /\ c.from \in Members
    BY <2>1, Zenon DEF Commitments
  <2>4. PICK W : c.key \in [W -> Vvecs]
    BY <2>3, Zenon DEF Keys
  <2>5. c.key = [m \in V |-> c.key[m]]
    BY <2>1, <2>4, Zenon
  <2> QED
    BY <2>2, <2>3, <2>5, Zenon
<1>6. IsFiniteSet(G)
  <2>1. G \subseteq T
    BY Zenon DEF Kept
  <2> QED
    BY <2>1, FS_Subset, Zenon
<1>7. Cardinality(G) >= minSize
  <2> DEFINE own == [h \in Honest |-> CHOOSE c \in G : c.from = h]
  <2>1. \A h \in Honest : own[h] \in G /\ own[h].from = h
    BY <1>4, Zenon
  <2>2. own \in Injection(Honest, G)
    <3>1. own \in [Honest -> G]
      BY <2>1, Zenon
    <3>2. \A g, h \in Honest : own[g] = own[h] => g = h
      BY <2>1, Zenon
    <3> HIDE DEF own, G
    <3> QED
      BY <3>1, <3>2, Zenon DEF Injection, IsInjective
  <2> HIDE DEF own, G
  <2>3. Cardinality(Honest) <= Cardinality(G)
    BY <1>6, <2>2, FS_Injection, Zenon
  <2>4. Cardinality(Honest) \in Nat /\ Cardinality(G) \in Nat
    BY <1>1, <1>6, FS_CardinalityType, Zenon
  <2> QED
    BY <1>0, <2>3, <2>4
<1>8. ASSUME NEW first \in G PROVE \E f \in FinalCommitment(G, first) : Verify(f)
  <2> DEFINE f == [key |-> first.key, signers |-> {c.from : c \in G}, sig |-> \A c \in G : c.sig]
  <2>1. {c \in G : c.key = first.key} = G
    BY <1>5, Zenon
  <2>2. \A c, d \in G : c.from = d.from => c = d
    <3> SUFFICES ASSUME NEW c \in G, NEW d \in G, c.from = d.from PROVE c = d
      BY Zenon
    <3>1. c \in Commitments /\ d \in Commitments /\ c.key = d.key /\ c.sig /\ d.sig
      BY <1>5, Zenon
    <3>2. c.phase = d.phase /\ c.sig = d.sig
      BY <3>1, Zenon DEF Commitments
    <3> QED
      BY <3>1, <3>2 DEF Commitments
  <2> HIDE DEF G
  <2>3. FinalCommitment(G, first) = {f}
    BY <2>1, <2>2, Zenon DEF FinalCommitment
  <2>4. Honest \subseteq {c.from : c \in G} /\ {c.from : c \in G} \subseteq Members
    BY <1>4, <1>5, Zenon
  <2>5. /\ IsFiniteSet({c.from : c \in G})
        /\ Cardinality(Honest) <= Cardinality({c.from : c \in G})
    BY <1>0, <2>4, FS_Subset, Zenon
  <2>6. /\ Cardinality(Honest) \in Nat
        /\ Cardinality({c.from : c \in G}) \in Nat
    BY <1>1, <2>5, FS_CardinalityType, Zenon
  <2>7. Cardinality({c.from : c \in G}) >= minSize
    <3>1. PICK k : k = Cardinality({c.from : c \in G})
      BY Zenon
    <3>2. k \in Nat /\ Cardinality(Honest) <= k
      BY <2>5, <2>6, <3>1, Zenon
    <3>3. Cardinality(Honest) \in Nat
      BY <2>6, Zenon
    <3>4. k >= minSize
      BY <1>0, <3>2, <3>3
    <3> QED
      BY <3>1, <3>4, Zenon
  <2>8. DOMAIN first.key = V
    BY <1>5, Zenon
  <2>9. f.key = first.key /\ f.signers = {c.from : c \in G} /\ f.sig
    BY <1>5, Zenon
  <2> HIDE DEF f
  <2>10. Verify(f)
    BY <1>2, <2>7, <2>8, <2>9, Zenon DEF Verify
  <2> QED
    BY <2>3, <2>10, Zenon
<1>9. To(Kept(mem, T), V) = G
  BY Zenon DEF To
<1> HIDE DEF G
<1> QED
  BY <1>4, <1>7, <1>8, <1>9, Zenon DEF Verifies

-----------------------------------------------------------------------------
(* The session as a whole.  The invariant says that it has a history: a set  *)
(* M of messages, those still on their way and those everyone is done with,  *)
(* such that each member knows what the messages of the phases it has left   *)
(* say, and has sent itself what follows from them.  M grows with every      *)
(* message and is no variable of the model: the invariant only says that     *)
(* there is one.  Receiving messages and ending a phase keep it as it is.    *)

\* A member in phase p, whose start function has run if st, has started phase q.
Begun(p, st, q) == p > q \/ (p = q /\ st)

\* What member n knows, by its phase.
Knows(n, p, st, mem, T, M) ==
    LET C2 == At(M, PhaseContribute)
        C3 == At(M, PhaseComplain)
        C4 == At(M, PhaseJustify)
    IN  /\ p = PhaseContribute => InContribute(n, mem, T)
        /\ p = PhaseComplain => InComplain(n, mem, st, C2, T)
        /\ p > PhaseComplain => Told(mem, C3)
        /\ p = PhaseJustify /\ Single(C3) => InJustify(n, mem, st, C2, C3, T)
        /\ p > PhaseJustify /\ Single(C3) =>
             InCommit(n, mem, st \/ p = PhaseFinalize, C2, C3, C4)

\* The accepted members include the honest ones, and these are enough.
Agreed(M) ==
    /\ Single(At(M, PhaseComplain))
    /\ Cardinality(Honest) >= minSize
    /\ Honest \subseteq Accepted(At(M, PhaseContribute), At(M, PhaseComplain), At(M, PhaseJustify))

\* What an honest member has sent: in each phase it has started at most one
\* message.  Its contribution fits everyone, its complaint calls members bad that
\* have no vector and names those whose share does not fit, its justification
\* answers the complaints of members that are not bad, and its commitment is for
\* the accepted members.
Says(h, p, st, M) ==
    LET C2 == At(M, PhaseContribute)
        C3 == At(M, PhaseComplain)
        C4 == At(M, PhaseJustify)
        C5 == At(M, PhaseCommit)
    IN  /\ \A x \in From(M, h) : Begun(p, st, x.phase)
        /\ \A x, y \in From(M, h) : x.phase = y.phase => x = y
        /\ \A x \in From(C2, h) : x.vvec = OwnVvec
        /\ Begun(p, st, PhaseContribute) => From(C2, h) # {}
        /\ Single(C3) =>
            /\ \A c \in From(C3, h) : \A m \in c.bad : NoVector(C2, m)
            /\ Begun(p, st, PhaseComplain) => \A m \in Members : \A x \in From(C2, m) :
                  NoVector(C2, m) \/ h \in x.fits \/ h \in Accusers(C3, m)
            /\ \A j \in From(C4, h) : \A y \in DOMAIN j.shares :
                  y \in Accusers(C3, h) /\ j.shares[y] = OwnVvec
            /\ Begun(p, st, PhaseJustify) => \A y \in Accusers(C3, h) :
                  Convicted(C2, C3, C4, y) \/ y \in Answered(C4, h)
        /\ Begun(p, st, PhaseCommit) /\ Agreed(M) =>
              \E c \in From(C5, h) : ForAccepted(c, C2, Accepted(C2, C3, C4))

\* Both, and what came of it.
Part(n, p, st, mem, T, vd, fi, M) ==
    /\ Knows(n, p, st, mem, T, M)
    /\ Says(n, p, st, M)
    /\ p < PhaseCommit => vd = {}
    /\ p = PhaseCommit => vd = Kept(mem, T)
    /\ p = PhaseFinalize /\ Agreed(M) => \E f \in fi : Verify(f)

\* Nobody is aborted, members are at most one phase apart, and the messages of
\* a member's phase are all there.
Order(ph, st, sn, ms, M) ==
    /\ M \in SUBSET Messages /\ IsFiniteSet(M) /\ ms \subseteq M
    /\ \A n \in Honest :
        /\ ph[n] \in PhaseContribute .. PhaseFinalize
        /\ sn[n] \subseteq At(M, ph[n])
        /\ \A x \in M : x.phase >= ph[n] => x \in ms
        /\ \A h \in Honest : ph[n] > ph[h] =>
              ph[n] = ph[h] + 1 /\ st[h] /\ ~st[n] /\ sn[n] = {}

\* M is the history of the session.
Trace(M) ==
    /\ Order(phase, started, seen, msgs, M)
    /\ \A n \in Honest :
        Part(n, phase[n], started[n], member[n], seen[n], valid[n], final[n], M)

\* What a member knows in each phase.
LEMMA KnowsIs ==
  ASSUME NEW n, NEW st, NEW mem, NEW T, NEW M
  PROVE  /\ Knows(n, 2, st, mem, T, M) <=> InContribute(n, mem, T)
         /\ Knows(n, 3, st, mem, T, M) <=> InComplain(n, mem, st, At(M, 2), T)
         /\ Knows(n, 4, st, mem, T, M) <=>
              /\ Told(mem, At(M, 3))
              /\ Single(At(M, 3)) => InJustify(n, mem, st, At(M, 2), At(M, 3), T)
         /\ Knows(n, 5, st, mem, T, M) <=>
              /\ Told(mem, At(M, 3))
              /\ Single(At(M, 3)) => InCommit(n, mem, st \/ 5 = 6, At(M, 2), At(M, 3), At(M, 4))
<1>1. /\ 2 # 3 /\ 2 # 4 /\ 3 # 2 /\ 3 # 4 /\ 4 # 2 /\ 4 # 3 /\ 5 # 2 /\ 5 # 3 /\ 5 # 4
      /\ ~(2 > 3) /\ ~(2 > 4) /\ ~(3 > 3) /\ ~(3 > 4) /\ 4 > 3 /\ ~(4 > 4) /\ 5 > 3 /\ 5 > 4
  OBVIOUS
<1> USE DEF PhaseContribute, PhaseComplain, PhaseJustify, PhaseCommit, PhaseFinalize
<1>2. Knows(n, 2, st, mem, T, M) <=> InContribute(n, mem, T)
  BY <1>1, Zenon DEF Knows
<1>3. Knows(n, 3, st, mem, T, M) <=> InComplain(n, mem, st, At(M, 2), T)
  BY <1>1, Zenon DEF Knows
<1>4. Knows(n, 4, st, mem, T, M) <=>
        /\ Told(mem, At(M, 3))
        /\ Single(At(M, 3)) => InJustify(n, mem, st, At(M, 2), At(M, 3), T)
  BY <1>1, Zenon DEF Knows
<1>5. Knows(n, 5, st, mem, T, M) <=>
        /\ Told(mem, At(M, 3))
        /\ Single(At(M, 3)) => InCommit(n, mem, st \/ 5 = 6, At(M, 2), At(M, 3), At(M, 4))
  BY <1>1, Zenon DEF Knows
<1> QED
  BY <1>2, <1>3, <1>4, <1>5, Zenon

\* The messages of a phase that is over for h stay what they are.
LEMMA AtKept ==
  ASSUME NEW M, NEW M2, M \subseteq M2, NEW p \in Int, \A x \in M2 \ M : x.phase \in Int /\ x.phase >= p,
         NEW q \in Int, q < p
  PROVE  At(M2, q) = At(M, q)
<1>1. \A x \in M2 : x.phase = q => x \in M
  OBVIOUS
<1> QED
  BY <1>1, Zenon DEF At

\* More justifications acquit nobody.
LEMMA ConvictedMore ==
  ASSUME NEW C2, NEW C3, NEW C4, NEW D4, C4 \subseteq D4, NEW m, Convicted(C2, C3, C4, m)
  PROVE  Convicted(C2, C3, D4, m)
<1>1. From(C4, m) \subseteq From(D4, m)
  BY Zenon DEF From
<1> QED
  BY <1>1, ManyMore, Zenon DEF Convicted, Unjust

\* Messages of others in phases that are not over for h change nothing for h.
LEMMA PartKept ==
  ASSUME NEW h \in Honest, NEW p \in PhaseContribute .. PhaseFinalize, NEW st, NEW mem, NEW T,
         NEW vd, NEW fi, NEW M \in SUBSET Messages, NEW M2 \in SUBSET Messages, M \subseteq M2,
         \A x \in M2 \ M : x.phase >= p /\ x.from # h,
         Part(h, p, st, mem, T, vd, fi, M)
  PROVE  Part(h, p, st, mem, T, vd, fi, M2)
<1> USE DEF PhaseContribute, PhaseComplain, PhaseJustify, PhaseCommit, PhaseFinalize
<1>0. \A x \in M2 : x.phase \in 2 .. 5
  BY MessageKinds, Zenon
<1>1. \A q \in 2 .. 5 : q < p => At(M2, q) = At(M, q)
  BY <1>0, AtKept
<1>2. \A q : At(M, q) \subseteq At(M2, q)
  BY Zenon DEF At
<1>3. From(M2, h) = From(M, h) /\ \A q : From(At(M2, q), h) = From(At(M, q), h)
  BY Zenon DEF From, At
<1>4. Single(At(M2, 3)) => Single(At(M, 3))
  BY <1>2, SingleLess, Zenon
<1>5. Knows(h, p, st, mem, T, M2)
  <2>1. Knows(h, p, st, mem, T, M)
    BY Zenon DEF Part
  <2>2. /\ p = 3 => At(M2, 2) = At(M, 2)
        /\ p = 4 => At(M2, 2) = At(M, 2) /\ At(M2, 3) = At(M, 3)
        /\ p > 4 => At(M2, 2) = At(M, 2) /\ At(M2, 3) = At(M, 3) /\ At(M2, 4) = At(M, 4)
    BY <1>1
  <2>3. p \in {2, 3, 4} \/ p > 4
    OBVIOUS
  <2> QED
    BY <2>1, <2>2, <2>3 DEF Knows
<1>6. p > 4 => (Agreed(M2) <=> Agreed(M))
  BY <1>1 DEF Agreed
<1>7. Says(h, p, st, M2)
  <2>1. Says(h, p, st, M)
    BY Zenon DEF Part
  <2>2. \A q \in 2 .. 5 : Begun(p, st, q) => p >= q
    BY DEF Begun
  <2>3. \A q \in 2 .. 5 : From(At(M, q), h) # {} => p >= q
    BY <2>1, <2>2, Zenon DEF Says, From, At
  <2>4. ASSUME Single(At(M2, 3))
        PROVE  /\ \A c \in From(At(M2, 3), h) : \A m \in c.bad : NoVector(At(M2, 2), m)
               /\ Begun(p, st, 3) => \A m \in Members : \A x \in From(At(M2, 2), m) :
                    NoVector(At(M2, 2), m) \/ h \in x.fits \/ h \in Accusers(At(M2, 3), m)
               /\ \A j \in From(At(M2, 4), h) : \A y \in DOMAIN j.shares :
                    y \in Accusers(At(M2, 3), h) /\ j.shares[y] = OwnVvec
               /\ Begun(p, st, 4) => \A y \in Accusers(At(M2, 3), h) :
                    Convicted(At(M2, 2), At(M2, 3), At(M2, 4), y) \/ y \in Answered(At(M2, 4), h)
    <3>1. /\ \A c \in From(At(M, 3), h) : \A m \in c.bad : NoVector(At(M, 2), m)
          /\ Begun(p, st, 3) => \A m \in Members : \A x \in From(At(M, 2), m) :
               NoVector(At(M, 2), m) \/ h \in x.fits \/ h \in Accusers(At(M, 3), m)
          /\ \A j \in From(At(M, 4), h) : \A y \in DOMAIN j.shares :
               y \in Accusers(At(M, 3), h) /\ j.shares[y] = OwnVvec
          /\ Begun(p, st, 4) => \A y \in Accusers(At(M, 3), h) :
               Convicted(At(M, 2), At(M, 3), At(M, 4), y) \/ y \in Answered(At(M, 4), h)
      BY <1>4, <2>1, <2>4, Zenon DEF Says
    <3>2. \A m : Accusers(At(M, 3), m) \subseteq Accusers(At(M2, 3), m)
      BY <1>2, Zenon DEF Accusers
    <3>3. ASSUME NEW c \in From(At(M2, 3), h), NEW m \in c.bad PROVE NoVector(At(M2, 2), m)
      <4>1. p >= 3 /\ c \in From(At(M, 3), h)
        BY <1>3, <2>3, SMTT(100)
      <4>2. At(M2, 2) = At(M, 2)
        BY <1>1, <4>1
      <4> QED
        BY <3>1, <4>1, <4>2, Zenon
    <3>4. ASSUME Begun(p, st, 3), NEW m \in Members, NEW x \in From(At(M2, 2), m)
          PROVE  NoVector(At(M2, 2), m) \/ h \in x.fits \/ h \in Accusers(At(M2, 3), m)
      <4>1. p >= 3
        BY <2>2, <3>4
      <4>2. At(M2, 2) = At(M, 2)
        BY <1>1, <4>1
      <4> QED
        BY <3>1, <3>2, <3>4, <4>2, Zenon
    <3>5. ASSUME NEW j \in From(At(M2, 4), h), NEW y \in DOMAIN j.shares
          PROVE  y \in Accusers(At(M2, 3), h) /\ j.shares[y] = OwnVvec
      BY <1>3, <3>1, <3>2, Zenon
    <3>6. ASSUME Begun(p, st, 4), NEW y \in Accusers(At(M2, 3), h)
          PROVE  Convicted(At(M2, 2), At(M2, 3), At(M2, 4), y) \/ y \in Answered(At(M2, 4), h)
      <4>1. p >= 4
        BY <2>2, <3>6
      <4>2. At(M2, 2) = At(M, 2) /\ At(M2, 3) = At(M, 3)
        BY <1>1, <4>1
      <4>3. Answered(At(M2, 4), h) = Answered(At(M, 4), h)
        BY <1>3, Zenon DEF Answered
      <4>4. Convicted(At(M, 2), At(M, 3), At(M, 4), y) \/ y \in Answered(At(M, 4), h)
        BY <3>1, <3>6, <4>2, Zenon
      <4> QED
        BY <1>2, <4>2, <4>3, <4>4, ConvictedMore
    <3> QED
      BY <3>3, <3>4, <3>5, <3>6, Zenon
  <2>5. ASSUME Begun(p, st, 5), Agreed(M2)
        PROVE  \E c \in From(At(M2, 5), h) :
                 ForAccepted(c, At(M2, 2), Accepted(At(M2, 2), At(M2, 3), At(M2, 4)))
    <3>1. p > 4
      BY <2>2, <2>5
    <3>2. At(M2, 2) = At(M, 2) /\ At(M2, 3) = At(M, 3) /\ At(M2, 4) = At(M, 4)
      BY <1>1, <3>1
    <3>3. \E c \in From(At(M, 5), h) :
            ForAccepted(c, At(M, 2), Accepted(At(M, 2), At(M, 3), At(M, 4)))
      BY <1>6, <2>1, <2>5, <3>1, Zenon DEF Says
    <3> QED
      BY <1>3, <3>2, <3>3, Zenon
  <2>6. /\ \A x \in From(M2, h) : Begun(p, st, x.phase)
        /\ \A x, y \in From(M2, h) : x.phase = y.phase => x = y
        /\ \A x \in From(At(M2, 2), h) : x.vvec = OwnVvec
        /\ Begun(p, st, 2) => From(At(M2, 2), h) # {}
    BY <1>3, <2>1, Zenon DEF Says
  <2> QED
    BY <2>4, <2>5, <2>6, Zenon DEF Says
<1>8. p = 6 /\ Agreed(M2) => \E f \in fi : Verify(f)
  BY <1>6 DEF Part
<1> QED
  BY <1>5, <1>7, <1>8, Zenon DEF Part

\* A step of member n, which may send messages.
LEMMA TraceStep ==
  ASSUME TypeInv, NEW M \in SUBSET Messages, Trace(M), NEW n \in Honest,
         NEW M2 \in SUBSET Messages, M \subseteq M2,
         \A x \in M2 \ M : x.from = n /\ \A h \in Honest : x.phase >= phase[h],
         NEW p, NEW st, NEW mem, NEW sn, NEW vd, NEW fi,
         phase' = [phase EXCEPT ![n] = p], started' = [started EXCEPT ![n] = st],
         member' = [member EXCEPT ![n] = mem], seen' = [seen EXCEPT ![n] = sn],
         valid' = [valid EXCEPT ![n] = vd], final' = [final EXCEPT ![n] = fi],
         Order(phase', started', seen', msgs', M2),
         Part(n, p, st, mem, sn, vd, fi, M2)
  PROVE  Trace(M2)'
<1>1. FunctionsTyped
  BY TypeParts, Zenon
<1>2. /\ phase'[n] = p /\ started'[n] = st /\ member'[n] = mem /\ seen'[n] = sn
      /\ valid'[n] = vd /\ final'[n] = fi
  BY <1>1, Zenon DEF FunctionsTyped
<1>3. \A h \in Honest \ {n} :
        /\ phase'[h] = phase[h] /\ started'[h] = started[h] /\ member'[h] = member[h]
        /\ seen'[h] = seen[h] /\ valid'[h] = valid[h] /\ final'[h] = final[h]
  BY <1>1, Zenon DEF FunctionsTyped
<1>4. ASSUME NEW h \in Honest \ {n}
      PROVE  Part(h, phase[h], started[h], member[h], seen[h], valid[h], final[h], M2)
  <2>1. PICK q, s, r, t, v, f : /\ q = phase[h] /\ s = started[h] /\ r = member[h] /\ t = seen[h]
                                /\ v = valid[h] /\ f = final[h]
    BY Zenon
  <2>2. Part(h, q, s, r, t, v, f, M) /\ q \in PhaseContribute .. PhaseFinalize
    BY <2>1, Zenon DEF Trace, Order
  <2>3. \A x \in M2 \ M : x.phase >= q /\ x.from # h
    BY <2>1, Zenon
  <2> QED
    BY <2>1, <2>2, <2>3, PartKept, Zenon
<1>5. \A h \in Honest :
        Part(h, phase'[h], started'[h], member'[h], seen'[h], valid'[h], final'[h], M2)
  BY <1>2, <1>3, <1>4, SMTT(100)
<1> QED
  BY <1>5, Zenon DEF Trace

\* Handling messages keeps the order of a session.
LEMMA ReceiveOrder ==
  ASSUME TypeInv, NEW M, Order(phase, started, seen, msgs, M), NEW n \in Honest,
         NEW S \in Batches(n), Receive(n, S),
         started[n] \/ Reached(phase[n])
  PROVE  Order(phase', started', seen', msgs', M)
<1> USE DEF PhaseContribute, PhaseFinalize
<1>1. /\ phase' = phase /\ started' = started /\ msgs' = msgs
      /\ seen'[n] = seen[n] \cup S /\ \A h \in Honest \ {n} : seen'[h] = seen[h]
  BY TypeParts, Zenon DEF Receive, FunctionsTyped
<1>2. S \subseteq At(M, phase[n])
  BY Zenon DEF Batches, Pending, Order, At
<1>3. \A h \in Honest : ~(phase[n] > phase[h])
  BY DEF Order, Reached, Aborted
<1>4. \A h \in Honest : seen'[h] \subseteq At(M, phase[h])
  BY <1>1, <1>2, Zenon DEF Order
<1>5. ASSUME NEW k \in Honest, NEW h \in Honest, phase[k] > phase[h]
      PROVE  phase[k] = phase[h] + 1 /\ started[h] /\ ~started[k] /\ seen'[k] = {}
  <2>1. k # n
    BY <1>3, <1>5, Zenon
  <2> QED
    BY <1>1, <1>5, <2>1, Zenon DEF Order
<1> QED
  BY <1>1, <1>4, <1>5, Zenon DEF Order

\* So does a start function: no member is behind.
LEMMA StartOrder ==
  ASSUME TypeInv, NEW M \in SUBSET Messages, Order(phase, started, seen, msgs, M),
         NEW n \in Honest, NEW mem, NEW out \in SUBSET Messages, IsFiniteSet(out),
         StartPhase(n, mem, out), \A x \in out : x.phase = phase[n]
  PROVE  /\ Order(phase', started', seen', msgs', M \cup out)
         /\ \A h \in Honest : phase[h] = phase[n]
<1> USE DEF PhaseContribute, PhaseFinalize
<1>1. /\ phase' = phase /\ seen' = seen /\ msgs' = msgs \cup out /\ ~started[n]
      /\ started'[n] = TRUE /\ \A h \in Honest \ {n} : started'[h] = started[h]
  BY TypeParts, Zenon DEF StartPhase, FunctionsTyped
<1>2. \A h \in Honest : phase[h] \in 2 .. 6 /\ phase[h] >= phase[n]
  BY DEF StartPhase, Reached, Order, Aborted
<1>3. \A h \in Honest : phase[h] = phase[n]
  BY <1>1, <1>2, SMTT(100) DEF Order
<1>4. IsFiniteSet(M \cup out) /\ M \cup out \in SUBSET Messages /\ msgs' \subseteq M \cup out
  BY <1>1, FS_Union, Zenon DEF Order
<1>5. ASSUME NEW h \in Honest
      PROVE  /\ seen[h] \subseteq At(M \cup out, phase[h])
             /\ \A x \in M \cup out : x.phase >= phase[h] => x \in msgs'
  BY <1>1, Zenon DEF Order, At
<1> QED
  BY <1>1, <1>2, <1>3, <1>4, <1>5, Zenon DEF Order

\* When nothing is lost, a member that leaves a phase has handled all of it, and
\* nobody is behind.
LEMMA NothingLost ==
  ASSUME TypeInv, NEW n \in Honest, NEW S \in Batches(n), EndPhase(n, S), faults' = 0
  PROVE  faults = 0 /\ Pending(n) \subseteq S /\ Behind(n) = {}
<1>1. Pending(n) \ S \subseteq msgs /\ Behind(n) \subseteq Members
  BY DKGAssumption, Zenon DEF Pending, Behind
<1>2. IsFiniteSet(Pending(n) \ S) /\ IsFiniteSet(Behind(n))
  BY <1>1, DKGAssumption, FS_Subset, TypeParts, Zenon DEF SharedTyped
<1>3. Cardinality(Pending(n) \ S) \in Nat /\ Cardinality(Behind(n)) \in Nat
  BY <1>2, FS_CardinalityType, Zenon
<1>4. faults \in Nat
  BY TypeParts, DKGAssumption DEF SharedTyped
<1>5. faults = 0 /\ Cardinality(Pending(n) \ S) = 0 /\ Cardinality(Behind(n)) = 0
  BY <1>3, <1>4 DEF EndPhase, Fault
<1>6. Pending(n) \ S = {} /\ Behind(n) = {}
  BY <1>2, <1>5, FS_EmptySet, Zenon
<1> QED
  BY <1>5, <1>6, Zenon

\* A phase ends without a loss when everything in it was handled and everybody has
\* started it.
LEMMA EndOrder ==
  ASSUME TypeInv, NEW M \in SUBSET Messages, Order(phase, started, seen, msgs, M),
         NEW n \in Honest, phase[n] \in PhaseContribute .. PhaseCommit,
         NEW S \in Batches(n), EndPhase(n, S), faults' = 0
  PROVE  /\ Order(phase', started', seen', msgs', M)
         /\ Complete(seen[n] \cup S, At(M, phase[n]))
         /\ \A h \in Honest : Begun(phase[h], started[h], phase[n])
<1> USE DEF PhaseContribute, PhaseCommit, PhaseFinalize
<1>1. /\ phase'[n] = phase[n] + 1 /\ \A h \in Honest \ {n} : phase'[h] = phase[h]
      /\ started'[n] = FALSE /\ \A h \in Honest \ {n} : started'[h] = started[h]
      /\ seen'[n] = {} /\ \A h \in Honest \ {n} : seen'[h] = seen[h]
      /\ started[n] /\ msgs' = Useful(msgs)
  BY TypeParts, Zenon DEF EndPhase, FunctionsTyped
<1>2. Pending(n) \subseteq S /\ Behind(n) = {}
  BY NothingLost, Zenon
<1>3. \A h \in Honest : phase[h] \in 2 .. 6
  BY Zenon DEF Order
<1>4. \A h \in Honest : /\ phase[h] = phase[n] \/ phase[h] = phase[n] + 1
                        /\ phase[h] = phase[n] => started[h]
                        /\ phase[h] = phase[n] + 1 => ~started[h] /\ seen[h] = {}
  <2> SUFFICES ASSUME NEW h \in Honest
               PROVE  /\ phase[h] = phase[n] \/ phase[h] = phase[n] + 1
                      /\ phase[h] = phase[n] => started[h]
                      /\ phase[h] = phase[n] + 1 => ~started[h] /\ seen[h] = {}
    BY Zenon
  <2>1. ~(phase[n] > phase[h])
    BY <1>1, Zenon DEF Order
  <2>2. phase[h] > phase[n] => phase[h] = phase[n] + 1 /\ ~started[h] /\ seen[h] = {}
    BY Zenon DEF Order
  <2>3. phase[h] = phase[n] => started[h]
    BY <1>2, <1>3 DEF Behind, Aborted
  <2> QED
    BY <1>3, <2>1, <2>2, <2>3, SMTT(100)
<1>5. \A h \in Honest : Begun(phase[h], started[h], phase[n])
  BY <1>3, <1>4 DEF Begun
<1>6. Complete(seen[n] \cup S, At(M, phase[n]))
  <2>1. seen[n] \cup S \subseteq At(M, phase[n])
    BY Zenon DEF Batches, Pending, Order, At
  <2>2. ASSUME NEW x \in At(M, phase[n]), x \notin seen[n] \cup S
        PROVE  Many(seen[n] \cup S, x.from)
    <3>1. x \in msgs /\ x.phase = phase[n]
      BY <1>3, SMTT(100) DEF Order, At
    <3>2. ~(Cardinality(From(seen[n], x.from)) < 2)
      BY <1>2, <2>2, <3>1, Zenon DEF Pending
    <3>3. IsFiniteSet(seen[n])
      BY TypedAt, Zenon DEF MemberTyped
    <3>4. Many(seen[n], x.from)
      BY <3>2, <3>3, ManyCount, Zenon
    <3> QED
      BY <3>4, ManyMore, Zenon
  <2> QED
    BY <2>1, <2>2, Zenon DEF Complete
<1>7. msgs' \subseteq M
  BY <1>1, Zenon DEF Useful, Order
<1>8. ASSUME NEW h \in Honest
      PROVE  /\ phase'[h] \in 2 .. 6 /\ phase'[h] >= phase[h]
             /\ seen'[h] \subseteq At(M, phase'[h])
  BY <1>1, <1>3, SMTT(100) DEF Order
<1>9. ASSUME NEW h \in Honest, NEW x \in M, x.phase >= phase'[h] PROVE x \in msgs'
  <2>1. x.phase \in 2 .. 5
    BY MessageKinds, Zenon DEF PhaseContribute, PhaseCommit
  <2>2. x.phase >= phase[h]
    BY <1>3, <1>8, <1>9, <2>1
  <2>3. x \in msgs
    BY <2>2, Zenon DEF Order
  <2>4. phase'[h] # Aborted /\ phase'[h] <= x.phase
    BY <1>8, <1>9, <2>1, SMTT(100) DEF Aborted
  <2> QED
    BY <1>1, <2>3, <2>4, Zenon DEF Useful
<1>10. ASSUME NEW k \in Honest, NEW h \in Honest, phase'[k] > phase'[h]
       PROVE  phase'[k] = phase'[h] + 1 /\ started'[h] /\ ~started'[k] /\ seen'[k] = {}
  BY <1>1, <1>3, <1>4, <1>10, SMTT(100)
<1> QED
  BY <1>5, <1>6, <1>7, <1>8, <1>9, <1>10, Zenon DEF Order

\* A member that leaves a phase has said all it says in it.
LEMMA SaysNext ==
  ASSUME NEW n, NEW p \in Int, NEW M \in SUBSET Messages, Says(n, p, TRUE, M)
  PROVE  Says(n, p + 1, FALSE, M)
<1>1. \A q \in Int : Begun(p + 1, FALSE, q) <=> Begun(p, TRUE, q)
  BY DEF Begun
<1>2. PhaseContribute \in Int /\ PhaseComplain \in Int /\ PhaseJustify \in Int /\ PhaseCommit \in Int
  BY DEF PhaseContribute, PhaseComplain, PhaseJustify, PhaseCommit
<1>3. \A x \in From(M, n) : x.phase \in Int
  BY MessageKinds DEF From, PhaseContribute, PhaseCommit
<1>4. /\ \A x \in From(M, n) : Begun(p + 1, FALSE, x.phase)
      /\ Begun(p + 1, FALSE, PhaseContribute) <=> Begun(p, TRUE, PhaseContribute)
      /\ Begun(p + 1, FALSE, PhaseComplain) <=> Begun(p, TRUE, PhaseComplain)
      /\ Begun(p + 1, FALSE, PhaseJustify) <=> Begun(p, TRUE, PhaseJustify)
      /\ Begun(p + 1, FALSE, PhaseCommit) <=> Begun(p, TRUE, PhaseCommit)
  BY <1>1, <1>2, <1>3, Zenon DEF Says
<1> QED
  BY <1>4, Zenon DEF Says

\* Justifications leave the number of complaints alone.
LEMMA JustificationsCount ==
  ASSUME NEW n, NEW S, member[n] \in [Members -> MemberState], NEW m \in Members
  PROVE  ReceiveJustifications(n, S)[m].complaints = member[n][m].complaints
<1>1. member[n][m] \in MemberState
  BY Zenon
<1>2. \A j : ReceiveJustification(n, j, member[n][m]).complaints = member[n][m].complaints
  BY <1>1, Zenon DEF ReceiveJustification, MarkBadMember, MemberState
<1> QED
  BY <1>2, Zenon DEF ReceiveJustifications

\* Handling messages: n knows what they say.
LEMMA HandledKnown ==
  ASSUME TypeInv, NEW M \in SUBSET Messages, NEW n \in Honest, NEW S \in Batches(n),
         phase[n] \in PhaseContribute .. PhaseCommit,
         Part(n, phase[n], started[n], member[n], seen[n], valid[n], final[n], M)
  PROVE  Part(n, phase[n], started[n], ProcessPending(n, S), seen[n] \cup S,
              ProcessPendingCommitments(n, S), final[n], M)
<1> USE DEF PhaseContribute, PhaseComplain, PhaseJustify, PhaseCommit, PhaseFinalize
<1>1. PICK p, st : p = phase[n] /\ st = started[n] /\ p \in {2, 3, 4, 5}
  BY SMTT(100)
<1>2. member[n] \in [Members -> MemberState]
  BY TypedAt, Zenon DEF MemberTyped
<1>3. S \cap seen[n] = {} /\ Single(S)
  BY Zenon DEF Batches, Pending, Single
<1>4. At(M, 2) \in SUBSET Messages /\ \A x \in At(M, 2) : x.phase = 2
  BY Zenon DEF At
<1>5. Knows(n, p, st, member[n], seen[n], M) /\ Says(n, p, st, M)
  BY <1>1, Zenon DEF Part
<1>6. Knows(n, p, st, ProcessPending(n, S), seen[n] \cup S, M)
  <2>1. CASE p = 2
    <3>1. ProcessPending(n, S) = ReceiveContributions(n, S)
      BY <1>1, <2>1 DEF ProcessPending
    <3>2. InContribute(n, ReceiveContributions(n, S), seen[n] \cup S)
      BY <1>2, <1>3, <1>5, <2>1, ContributionsKnown, Zenon DEF Knows
    <3> QED
      BY <2>1, <3>1, <3>2, KnowsIs, Zenon
  <2>2. CASE p = 3
    <3>1. ProcessPending(n, S) = ReceiveComplaints(n, S)
      BY <1>1, <2>2 DEF ProcessPending
    <3>2. InComplain(n, ReceiveComplaints(n, S), st, At(M, 2), seen[n] \cup S)
      BY <1>2, <1>3, <1>5, <2>2, ComplaintsKnown, Zenon DEF Knows
    <3> QED
      BY <2>2, <3>1, <3>2, KnowsIs, Zenon
  <2>3. CASE p = 4
    <3>1. ProcessPending(n, S) = ReceiveJustifications(n, S)
      BY <1>1, <2>3 DEF ProcessPending
    <3>2. Told(member[n], At(M, 3))
          /\ (Single(At(M, 3)) => InJustify(n, member[n], st, At(M, 2), At(M, 3), seen[n]))
      BY <1>5, <2>3, KnowsIs, Zenon
    <3>3. Told(ReceiveJustifications(n, S), At(M, 3))
      BY <1>2, <3>2, JustificationsCount, SMTT(100) DEF Told
    <3>4. Single(At(M, 3)) =>
            InJustify(n, ReceiveJustifications(n, S), st, At(M, 2), At(M, 3), seen[n] \cup S)
      BY <1>2, <1>3, <1>4, <3>2, JustificationsKnown, Zenon
    <3> QED
      BY <2>3, <3>1, <3>3, <3>4, KnowsIs, Zenon
  <2>4. CASE p = 5
    <3>1. ProcessPending(n, S) = member[n]
      BY <1>1, <2>4 DEF ProcessPending
    <3> QED
      BY <1>5, <2>4, <3>1, KnowsIs, Zenon
  <2> QED
    BY <1>1, <2>1, <2>2, <2>3, <2>4, Zenon
<1>7. /\ p < 5 => ProcessPendingCommitments(n, S) = {}
      /\ p = 5 => ProcessPendingCommitments(n, S) = Kept(ProcessPending(n, S), seen[n] \cup S)
  <2>1. CASE p = 5
    <3>1. phase[n] = PhaseCommit /\ valid[n] = Kept(member[n], seen[n])
      BY <1>1, <2>1, Zenon DEF Part
    <3>2. ProcessPendingCommitments(n, S) = Kept(member[n], seen[n] \cup S)
      BY <3>1, KeptIs, Zenon
    <3>3. ProcessPending(n, S) = member[n]
      BY <3>1 DEF ProcessPending
    <3> QED
      BY <2>1, <3>2, <3>3, SMTT(100)
  <2>2. CASE p # 5
    BY <1>1, <2>2, Zenon DEF Part, ProcessPendingCommitments
  <2> QED
    BY <2>1, <2>2, Zenon
<1> QED
  BY <1>1, <1>5, <1>6, <1>7, Zenon DEF Part

\* Handling messages leaves the history as it is.
LEMMA ReceiveTrace ==
  ASSUME TypeInv, NEW M \in SUBSET Messages, Trace(M), NEW n \in Honest,
         NEW S \in Batches(n), Receive(n, S), phase[n] \in PhaseContribute .. PhaseCommit,
         started[n] \/ Reached(phase[n])
  PROVE  Trace(M)'
<1>1. PICK p, st, fi : p = phase[n] /\ st = started[n] /\ fi = final[n]
  BY Zenon
<1>2. PICK mem, sn, vd : /\ mem = ProcessPending(n, S) /\ sn = seen[n] \cup S
                         /\ vd = ProcessPendingCommitments(n, S)
  BY Zenon
<1>3. Part(n, p, st, mem, sn, vd, fi, M)
  BY <1>1, <1>2, HandledKnown, Zenon DEF Trace
<1>4. Order(phase', started', seen', msgs', M)
  BY ReceiveOrder, Zenon DEF Trace
<1>5. /\ phase' = [phase EXCEPT ![n] = p] /\ started' = [started EXCEPT ![n] = st]
      /\ member' = [member EXCEPT ![n] = mem] /\ seen' = [seen EXCEPT ![n] = sn]
      /\ valid' = [valid EXCEPT ![n] = vd] /\ final' = [final EXCEPT ![n] = fi]
  BY <1>1, <1>2, SameAt, Zenon DEF Receive
<1> QED
  BY <1>3, <1>4, <1>5, TraceStep, Zenon

\* A phase before Commit ends: n knows the verdict of the phase.
LEMMA NextKnown ==
  ASSUME NEW M \in SUBSET Messages, NEW n, NEW p \in {PhaseContribute, PhaseComplain, PhaseJustify},
         NEW mem, NEW T, IsFiniteSet(T), NEW vd, NEW fi, NEW fi2,
         Counting(p, mem, T), Complete(T, At(M, p)),
         Part(n, p, TRUE, mem, T, vd, fi, M)
  PROVE  Part(n, p + 1, FALSE, mem, {}, vd, fi2, M)
<1> USE DEF PhaseContribute, PhaseComplain, PhaseJustify, PhaseCommit, PhaseFinalize
<1>0. PICK yes, no : yes = TRUE /\ no = FALSE
  BY Zenon
<1>1. Knows(n, p, yes, mem, T, M) /\ Says(n, p, yes, M) /\ vd = {}
  <2>1. Part(n, p, yes, mem, T, vd, fi, M)
    BY <1>0, Zenon
  <2> QED
    BY <2>1 DEF Part
<1>2. \A q : At(M, q) \in SUBSET Messages /\ \A x \in At(M, q) : x.phase = q
  BY Zenon DEF At
<1>3. Knows(n, p + 1, no, mem, {}, M)
  <2>1. CASE p = 2
    <3>1. InComplain(n, mem, no, At(M, 2), {})
      BY <1>0, <1>1, <2>1, ToComplain, Zenon DEF Knows
    <3> QED
      BY <2>1, <3>1 DEF Knows
  <2>2. CASE p = 3
    <3>1. InComplain(n, mem, yes, At(M, 2), T) /\ Complete(T, At(M, 3))
      BY <1>1, <2>2, Zenon DEF Knows
    <3>2. \A m \in Members : mem[m].complaints = Cardinality(From(T, m))
      BY <2>2, Zenon DEF Counting
    <3>3. Single(At(M, 3)) => \A m \in Members : \A x \in From(At(M, 2), m) :
              NoVector(At(M, 2), m) \/ n \in x.fits \/ n \in Accusers(At(M, 3), m)
      BY <1>0, <1>1, <2>2, Zenon DEF Says, Begun
    <3>4. /\ Told(mem, At(M, 3))
          /\ Single(At(M, 3)) => InJustify(n, mem, no, At(M, 2), At(M, 3), {})
      BY <1>2, <3>1, <3>2, <3>3, <1>0, ToJustify, Zenon
    <3> QED
      BY <2>2, <3>4 DEF Knows
  <2>3. CASE p = 4
    <3>1. Told(mem, At(M, 3))
          /\ (Single(At(M, 3)) => InJustify(n, mem, yes, At(M, 2), At(M, 3), T))
      BY <1>1, <2>3 DEF Knows
    <3>2. Single(At(M, 3)) => InCommit(n, mem, no, At(M, 2), At(M, 3), At(M, 4))
      BY <2>3, <3>1, <1>0, ToCommit, Zenon
    <3>3. (no \/ p + 1 = 6) = no
      <4>1. ~(p + 1 = 6)
        BY <2>3
      <4> QED
        BY <1>0, <4>1, Zenon
    <3> QED
      BY <2>3, <3>1, <3>2, <3>3 DEF Knows
  <2> QED
    BY <2>1, <2>2, <2>3, Zenon
<1>4. Says(n, p + 1, no, M)
  <2>1. Says(n, p, TRUE, M)
    BY <1>0, <1>1, Zenon
  <2>2. p \in Int
    OBVIOUS
  <2>3. Says(n, p + 1, FALSE, M)
    BY <2>1, <2>2, SaysNext, Zenon
  <2> QED
    BY <1>0, <2>3, Zenon
<1>5. Kept(mem, {}) = {}
  BY Zenon DEF Kept
<1>6. Part(n, p + 1, no, mem, {}, vd, fi2, M)
  BY <1>1, <1>3, <1>4, <1>5 DEF Part
<1> QED
  BY <1>0, <1>6, Zenon

\* WaitForNextPhase leaves the history as it is.
LEMMA WaitTrace ==
  ASSUME TypeInv, NEW M \in SUBSET Messages, Trace(M), NEW n \in Honest, WaitForNextPhase(n),
         faults' = 0
  PROVE  Trace(M)'
<1> USE DEF PhaseContribute, PhaseJustify, PhaseCommit
<1>1. PICK S \in Batches(n) : EndPhase(n, S) /\ member' = [member EXCEPT ![n] = ProcessPending(n, S)]
  BY Zenon DEF WaitForNextPhase
<1>2. phase[n] \in 2 .. 4 /\ started[n] = TRUE /\ valid' = valid /\ final' = final
  <2>1. started[n] \in BOOLEAN
    BY TypedAt, Zenon DEF MemberTyped
  <2> QED
    BY <1>1, <2>1, Zenon DEF WaitForNextPhase, EndPhase
<1>3. PICK p, vd, fi, T, mem : /\ p = phase[n] /\ vd = valid[n] /\ fi = final[n]
                               /\ T = seen[n] \cup S /\ mem = ProcessPending(n, S)
  BY Zenon
<1>4. /\ Order(phase', started', seen', msgs', M)
      /\ Complete(T, At(M, p))
  BY <1>1, <1>2, <1>3, EndOrder, SMTT(100) DEF Trace
<1>5. Counting(p, mem, T) /\ IsFiniteSet(T)
  BY <1>2, <1>3, HandledTyped, SMTT(100)
<1>6. Part(n, p, TRUE, mem, T, vd, fi, M)
  <2>1. ProcessPendingCommitments(n, S) = vd
    BY <1>2, <1>3, SMTT(100) DEF ProcessPendingCommitments
  <2>2. Part(n, phase[n], started[n], ProcessPending(n, S), seen[n] \cup S,
              ProcessPendingCommitments(n, S), final[n], M)
    BY <1>2, HandledKnown, SMTT(100) DEF Trace
  <2> QED
    BY <1>2, <1>3, <2>1, <2>2, Zenon
<1>7. Part(n, p + 1, FALSE, mem, {}, vd, fi, M)
  <2>1. p \in {2, 3, 4}
    BY <1>2, <1>3, SMTT(100)
  <2> QED
    BY <1>4, <1>5, <1>6, <2>1, NextKnown, Zenon DEF PhaseComplain
<1>8. /\ phase' = [phase EXCEPT ![n] = p + 1] /\ started' = [started EXCEPT ![n] = FALSE]
      /\ member' = [member EXCEPT ![n] = mem] /\ seen' = [seen EXCEPT ![n] = {}]
      /\ valid' = [valid EXCEPT ![n] = vd] /\ final' = [final EXCEPT ![n] = fi]
  BY <1>1, <1>2, <1>3, SameAt, Zenon DEF EndPhase
<1> QED
  BY <1>4, <1>7, <1>8, TraceStep, Zenon

=============================================================================
