------------------------- MODULE DKGHistoryProofs --------------------------
(***************************************************************************)
(* Sessions in which nothing is lost have a history at all times (Trace of *)
(* DKGSessionProofs): starting a phase adds the member's messages to it.   *)
(* From it follow the two properties of such sessions: no honest member is *)
(* called bad (HonestStayValid), and every honest member that finishes has *)
(* a final commitment that verifies (SessionSucceeds).                     *)
(***************************************************************************)
EXTENDS DKGSessionProofs

\* In the start function of phase p member n sends the messages out, one or none.
Sends(n, p, out) ==
    /\ out \in SUBSET Messages /\ IsFiniteSet(out)
    /\ \A x \in out : x.phase = p /\ x.from = n
    /\ \A x, y \in out : x = y

\* They are its first of that phase, and the last so far.
Fresh(M, M2, n, p, out) ==
    /\ \A q : q # p => At(M2, q) = At(M, q)
    /\ At(M2, p) = At(M, p) \cup out
    /\ From(At(M2, p), n) = out
    /\ \A q \in Int : q > p => From(At(M2, q), n) = {}
    /\ \A x \in From(M2, n) : x.phase \in Int /\ x.phase <= p
    /\ \A x, y \in From(M2, n) : x.phase = y.phase => x = y

\* What a member sends at the start of a phase is its only message of the phase.
LEMMA FirstOfPhase ==
  ASSUME NEW M \in SUBSET Messages, NEW n, NEW p \in Int, Says(n, p, FALSE, M),
         NEW out, Sends(n, p, out), NEW M2, M2 = M \cup out
  PROVE  Fresh(M, M2, n, p, out)
<1> USE DEF Sends
<1>1. \A x \in From(M, n) : x.phase \in Int /\ x.phase < p
  BY MessageKinds, SMTT(100) DEF Says, Begun, From, PhaseContribute, PhaseCommit
<1>2. From(M2, n) = From(M, n) \cup out
  BY Zenon DEF From
<1>3. \A q : q # p => At(M2, q) = At(M, q)
  BY Zenon DEF At
<1>4. At(M2, p) = At(M, p) \cup out
  BY Zenon DEF At
<1>5. From(At(M2, p), n) = out
  BY <1>1, <1>4 DEF From, At
<1>6. ASSUME NEW q \in Int, q > p PROVE From(At(M2, q), n) = {}
  BY <1>1, <1>6 DEF From, At
<1>7. \A x \in From(M2, n) : x.phase \in Int /\ x.phase <= p
  BY <1>1, <1>2
<1>8. \A x, y \in From(M, n) : x.phase = y.phase => x = y
  BY Zenon DEF Says
<1>9. \A x, y \in From(M2, n) : x.phase = y.phase => x = y
  BY <1>1, <1>2, <1>8
<1> QED
  BY <1>3, <1>4, <1>5, <1>6, <1>7, <1>9, Zenon DEF Fresh

\* A phase start adds its message to the history.
LEMMA StartTrace ==
  ASSUME TypeInv, NEW M \in SUBSET Messages, Trace(M), NEW n \in Honest, NEW mem,
         NEW out, Sends(n, phase[n], out), StartPhase(n, mem, out),
         Part(n, phase[n], TRUE, mem, seen[n], valid[n], final[n], M \cup out)
  PROVE  Trace(M \cup out)'
<1>1. PICK p, sn, vd, fi : p = phase[n] /\ sn = seen[n] /\ vd = valid[n] /\ fi = final[n]
  BY Zenon
<1>2. /\ Order(phase', started', seen', msgs', M \cup out)
      /\ \A h \in Honest : phase[h] = phase[n]
  BY StartOrder, Zenon DEF Trace, Sends
<1>3. /\ phase' = [phase EXCEPT ![n] = p] /\ started' = [started EXCEPT ![n] = TRUE]
      /\ member' = [member EXCEPT ![n] = mem] /\ seen' = [seen EXCEPT ![n] = sn]
      /\ valid' = [valid EXCEPT ![n] = vd] /\ final' = [final EXCEPT ![n] = fi]
  BY <1>1, SameAt, Zenon DEF StartPhase
<1>4. Part(n, p, TRUE, mem, sn, vd, fi, M \cup out)
  BY <1>1, Zenon
<1>5. \A x \in (M \cup out) \ M : x.from = n /\ \A h \in Honest : x.phase >= phase[h]
  <2>1. phase[n] \in Int
    BY SMTT(100) DEF Trace, Order, PhaseContribute, PhaseFinalize
  <2> QED
    BY <1>2, <2>1 DEF Sends
<1>6. M \cup out \in SUBSET Messages
  BY Zenon DEF Sends
<1> QED
  BY <1>2, <1>3, <1>4, <1>5, <1>6, TraceStep, Zenon

\* Contribute keeps a history.
LEMMA ContributeTrace ==
  ASSUME TypeInv, NEW M \in SUBSET Messages, Trace(M), NEW n \in Honest, Contribute(n)
  PROVE  \E M2 \in SUBSET Messages : Trace(M2)'
<1> USE DEF PhaseContribute, PhaseComplain, PhaseJustify, PhaseCommit, PhaseFinalize
<1> DEFINE x == [phase |-> 2, from |-> n, vvec |-> OwnVvec, fits |-> Members]
<1>1. phase[n] = 2 /\ StartPhase(n, member[n], {x}) /\ started[n] = FALSE
  <2>1. started[n] \in BOOLEAN
    BY TypedAt, Zenon DEF MemberTyped
  <2> QED
    BY <2>1, Zenon DEF Contribute, StartPhase
<1>2. x \in Messages /\ x.phase = 2 /\ x.from = n /\ x.vvec = OwnVvec
  BY DKGAssumption, Zenon DEF Messages, Contributions, OwnVvec
<1> HIDE DEF x
<1>3. PICK mem, sn, vd, fi : mem = member[n] /\ sn = seen[n] /\ vd = valid[n] /\ fi = final[n]
  BY Zenon
<1>4. PICK out : out = {x}
  BY Zenon
<1>5. Part(n, 2, FALSE, mem, sn, vd, fi, M)
  BY <1>1, <1>3, Zenon DEF Trace
<1>6. Says(n, 2, FALSE, M)
  BY <1>5, Zenon DEF Part
<1>7. Sends(n, 2, out)
  BY <1>2, <1>4, FS_Singleton, Zenon DEF Sends
<1>m. PICK M2 : M2 = M \cup out
  BY Zenon
<1>9. Fresh(M, M2, n, 2, out)
  <2>1. 2 \in Int
    OBVIOUS
  <2> QED
    BY <1>6, <1>7, <1>m, <2>1, FirstOfPhase, Zenon
<1>10. PICK yes : yes = TRUE
  BY Zenon
<1>11. \A q \in Int : Begun(2, yes, q) <=> q <= 2
  BY <1>10 DEF Begun
<1>12. Says(n, 2, yes, M2)
  <2>1. From(At(M2, 3), n) = {} /\ From(At(M2, 4), n) = {}
    BY <1>9 DEF Fresh
  <2>2. ~Begun(2, yes, 3) /\ ~Begun(2, yes, 4) /\ ~Begun(2, yes, 5)
    BY <1>11
  <2>3. \A y \in From(M2, n) : Begun(2, yes, y.phase)
    BY <1>9, <1>11, Zenon DEF Fresh
  <2>4. (\A y \in From(At(M2, 2), n) : y.vvec = OwnVvec) /\ From(At(M2, 2), n) # {}
    BY <1>2, <1>4, <1>9, Zenon DEF Fresh
  <2> QED
    BY <1>9, <2>1, <2>2, <2>3, <2>4, Zenon DEF Says, Fresh
<1>13. Part(n, 2, yes, mem, sn, vd, fi, M2)
  BY <1>5, <1>12 DEF Part, Knows
<1> QED
  <2>1. StartPhase(n, mem, out) /\ Sends(n, phase[n], out)
    BY <1>1, <1>3, <1>4, <1>7, Zenon
  <2>2. Part(n, phase[n], TRUE, mem, seen[n], valid[n], final[n], M \cup out)
    BY <1>1, <1>3, <1>m, <1>10, <1>13, Zenon
  <2>3. Trace(M \cup out)'
    BY <2>1, <2>2, StartTrace, Zenon
  <2> QED
    BY <1>7, <2>3, Zenon DEF Sends

\* Where a start function finds n.
LEMMA BeforeStart ==
  ASSUME TypeInv, NEW M \in SUBSET Messages, Trace(M), NEW n \in Honest, NEW p \in Int,
         phase[n] = p, ~started[n]
  PROVE  Part(n, p, FALSE, member[n], seen[n], valid[n], final[n], M)
<1>1. started[n] = FALSE
  BY TypedAt, Zenon DEF MemberTyped
<1> QED
  BY <1>1, Zenon DEF Trace

\* Where it takes n.
LEMMA AfterStart ==
  ASSUME TypeInv, NEW M \in SUBSET Messages, Trace(M), NEW n \in Honest, NEW p,
         phase[n] = p, NEW mem, NEW out, Sends(n, p, out), StartPhase(n, mem, out),
         NEW M2, M2 = M \cup out, Part(n, p, TRUE, mem, seen[n], valid[n], final[n], M2)
  PROVE  Trace(M2)'
<1>1. Part(n, phase[n], TRUE, mem, seen[n], valid[n], final[n], M \cup out)
  BY Zenon
<1>2. Trace(M \cup out)'
  BY <1>1, StartTrace, Zenon
<1> QED
  BY <1>2, Zenon

\* The start function of phase p has run.
Started(p, st) == \A q \in Int : q <= p => Begun(p, st, q)

\* The complaint out of member n, one or none, that has handled the complaints T.
Complains(n, C2, T, bad, complain, out) ==
    /\ \A c \in out : c.bad = bad /\ c.complain = complain /\ c.from = n
    /\ out = {} => complain = {}
    /\ Single(T) =>
        /\ \A m \in bad : NoVector(C2, m)
        /\ \A m \in Members : \A x \in From(C2, m) :
              NoVector(C2, m) \/ n \in x.fits \/ m \in complain

\* VerifyAndComplain: n has complained.
LEMMA ComplainPart ==
  ASSUME NEW M \in SUBSET Messages, NEW M2 \in SUBSET Messages, NEW n, NEW mem, NEW new, NEW T,
         NEW vd, NEW fi, NEW no, NEW yes, Started(3, yes),
         Part(n, 3, no, mem, T, vd, fi, M), T \subseteq At(M, 3),
         InComplain(n, new, yes, At(M, 2), T),
         NEW bad, NEW complain, NEW out, Complains(n, At(M, 2), T, bad, complain, out),
         Fresh(M, M2, n, 3, out)
  PROVE  Part(n, 3, yes, new, T, vd, fi, M2)
<1> USE DEF PhaseContribute, PhaseComplain, PhaseJustify, PhaseCommit, PhaseFinalize
<1>1. PICK C2, C3 : C2 = At(M, 2) /\ C3 = At(M2, 3)
  BY Zenon
<1>2. At(M2, 2) = C2 /\ C3 = At(M, 3) \cup out /\ From(C3, n) = out
  BY <1>1 DEF Fresh
<1>3. From(At(M2, 4), n) = {}
  BY DEF Fresh
<1>4. Knows(n, 3, no, mem, T, M) /\ Says(n, 3, no, M) /\ vd = {}
  BY DEF Part
<1>5. Knows(n, 3, yes, new, T, M2)
  BY <1>1, <1>2 DEF Knows
<1>6. Begun(3, yes, 2) /\ ~Begun(3, yes, 4) /\ ~Begun(3, yes, 5)
  BY DEF Begun
<1>7. \A x \in From(M2, n) : Begun(3, yes, x.phase)
  BY Zenon DEF Fresh, Started
<1>8. ASSUME Single(C3)
      PROVE  /\ \A c \in From(C3, n) : \A m \in c.bad : NoVector(C2, m)
             /\ \A m \in Members : \A x \in From(C2, m) :
                  NoVector(C2, m) \/ n \in x.fits \/ n \in Accusers(C3, m)
  <2>1. Single(T)
    BY <1>2, <1>8, SingleLess, Zenon
  <2>2. \A m \in complain : n \in Accusers(C3, m)
    BY <1>2, Zenon DEF Accusers, Complains
  <2> QED
    BY <1>1, <1>2, <2>1, <2>2, Zenon DEF Complains
<1>9. Begun(3, no, 2)
  BY DEF Begun
<1>10. (\A x \in From(C2, n) : x.vvec = OwnVvec) /\ From(C2, n) # {}
  BY <1>1, <1>4, <1>9, Zenon DEF Says
<1>11. \A x, y \in From(M2, n) : x.phase = y.phase => x = y
  BY Zenon DEF Fresh
<1>12. Says(n, 3, yes, M2)
  BY <1>1, <1>2, <1>3, <1>6, <1>7, <1>8, <1>10, <1>11, Zenon DEF Says
<1> QED
  BY <1>4, <1>5, <1>12 DEF Part

\* VerifyAndComplain keeps a history.
LEMMA ComplainTrace ==
  ASSUME TypeInv, NEW M \in SUBSET Messages, Trace(M), NEW n \in Honest, VerifyAndComplain(n)
  PROVE  \E M2 \in SUBSET Messages : Trace(M2)'
<1>1. PICK mem, T, vd, fi : mem = member[n] /\ T = seen[n] /\ vd = valid[n] /\ fi = final[n]
  BY Zenon
<1>2. mem \in [Members -> MemberState]
  BY <1>1, TypedAt, Zenon DEF MemberTyped
<1>3. PICK new : new = [m \in Members |-> LET v == VerifyPendingContribution(mem[m])
                                         IN  [v EXCEPT !.bad = @ \/ v.vvec = None]]
  BY Zenon
<1>4. PICK bad, complain : /\ bad = {m \in Members : new[m].bad}
                           /\ complain = {m \in Members \ bad : new[m].weComplain}
  BY Zenon
<1>c. PICK c : c = [phase |-> 3, from |-> n, bad |-> bad, complain |-> complain]
  BY Zenon
<1>5. PICK out : out = IF bad = {} /\ complain = {} THEN {} ELSE {c}
  BY Zenon
<1>6. phase[n] = 3 /\ StartPhase(n, new, out) /\ ~started[n]
  BY <1>1, <1>3, <1>4, <1>c, <1>5, Zenon DEF VerifyAndComplain, StartPhase, PhaseComplain
<1>7. Sends(n, 3, out)
  <2>1. out = {} \/ out = {c}
    BY <1>5, Zenon
  <2>2. c \in Complaints /\ c.phase = 3 /\ c.from = n
    BY <1>4, <1>c, DKGAssumption, Zenon DEF Complaints, PhaseComplain
  <2>3. IsFiniteSet(out)
    <3>1. IsFiniteSet({}) /\ IsFiniteSet({c})
      BY FS_Singleton, FS_EmptySet, Zenon
    <3> QED
      BY <2>1, <3>1, Zenon
  <2> QED
    BY <2>1, <2>2, <2>3, Zenon DEF Sends, Messages
<1>8. PICK C2, M2 : C2 = At(M, 2) /\ M2 = M \cup out
  BY Zenon
<1>9. M2 \in SUBSET Messages
  BY <1>7, <1>8, Zenon DEF Sends
<1>10. Part(n, 3, FALSE, mem, T, vd, fi, M)
  <2>1. 3 \in Int
    OBVIOUS
  <2> QED
    BY <1>1, <1>6, <2>1, BeforeStart, Zenon
<1>11. Fresh(M, M2, n, 3, out)
  <2>1. Says(n, 3, FALSE, M)
    BY <1>10, Zenon DEF Part
  <2>2. 3 \in Int
    OBVIOUS
  <2> QED
    BY <1>7, <1>8, <2>1, <2>2, FirstOfPhase, Zenon
<1>12. InComplain(n, mem, FALSE, C2, T)
  BY <1>8, <1>10, Zenon DEF Part, Knows, PhaseComplain, PhaseContribute
<1>13. C2 \in SUBSET Messages /\ \A x \in C2 : x.phase = PhaseContribute
  BY <1>8, Zenon DEF At, PhaseContribute
<1>14. /\ InComplain(n, new, TRUE, C2, T)
       /\ Single(T) => \A m \in Members :
            /\ new[m].bad => NoVector(C2, m)
            /\ \A x \in From(C2, m) :
                 NoVector(C2, m) \/ n \in x.fits \/ (~new[m].bad /\ new[m].weComplain)
  BY <1>2, <1>3, <1>12, <1>13, ComplainKnown, Zenon
<1>15. /\ Single(T) => \A m \in bad : NoVector(C2, m)
       /\ Single(T) => \A m \in Members : \A x \in From(C2, m) :
            NoVector(C2, m) \/ n \in x.fits \/ m \in complain
  BY <1>4, <1>14, Zenon
<1>16. /\ \A x \in out : x.bad = bad /\ x.complain = complain /\ x.from = n
       /\ out = {} => complain = {}
  <2>1. c.bad = bad /\ c.complain = complain /\ c.from = n
    BY <1>c, Zenon
  <2> QED
    BY <1>5, <2>1, Zenon
<1>17. T \subseteq At(M, 3)
  BY <1>1, <1>6, Zenon DEF Trace, Order
<1>18. Started(3, TRUE)
  BY DEF Begun, Started
<1>19. Part(n, 3, TRUE, new, T, vd, fi, M2)
  <2>1. PICK no, yes : no = FALSE /\ yes = TRUE
    BY Zenon
  <2>2. InComplain(n, new, yes, At(M, 2), T) /\ Started(3, yes)
    BY <1>8, <1>14, <1>18, <2>1, Zenon
  <2>3. Complains(n, C2, T, bad, complain, out)
    BY <1>15, <1>16, Zenon DEF Complains
  <2>4. Complains(n, At(M, 2), T, bad, complain, out)
    BY <1>8, <2>3, Zenon
  <2>5. Part(n, 3, no, mem, T, vd, fi, M)
    BY <1>10, <2>1, Zenon
  <2>6. Part(n, 3, yes, new, T, vd, fi, M2)
    BY <1>9, <1>11, <1>17, <2>2, <2>4, <2>5, ComplainPart, Zenon
  <2> QED
    BY <2>1, <2>6, Zenon
<1>20. Trace(M2)'
  BY <1>1, <1>6, <1>7, <1>8, <1>19, AfterStart, Zenon
<1> QED
  BY <1>9, <1>20, Zenon

\* The justification out of member n, that has handled the justifications T.
Justifies(n, C2, C3, T, out) == Single(C3) =>
    /\ \A j \in out : \A y \in DOMAIN j.shares : y \in Accusers(C3, n) /\ j.shares[y] = OwnVvec
    /\ \A y \in Accusers(C3, n) :
          Convicted(C2, C3, T, y) \/ \E j \in out : y \in DOMAIN j.shares

\* VerifyAndJustify: n has answered.
LEMMA JustifyPart ==
  ASSUME NEW M \in SUBSET Messages, NEW M2 \in SUBSET Messages, NEW n, NEW mem, NEW new, NEW T,
         NEW vd, NEW fi, NEW no, NEW yes, Started(4, yes),
         Part(n, 4, no, mem, T, vd, fi, M), T \subseteq At(M, 4),
         Knows(n, 4, yes, new, T, M), NEW out, Justifies(n, At(M, 2), At(M, 3), T, out), Fresh(M, M2, n, 4, out)
  PROVE  Part(n, 4, yes, new, T, vd, fi, M2)
<1> USE DEF PhaseContribute, PhaseComplain, PhaseJustify, PhaseCommit, PhaseFinalize
<1>1. PICK C2, C3, C4 : C2 = At(M, 2) /\ C3 = At(M, 3) /\ C4 = At(M2, 4)
  BY Zenon
<1>2. At(M2, 2) = C2 /\ At(M2, 3) = C3 /\ C4 = At(M, 4) \cup out /\ From(C4, n) = out
  BY <1>1 DEF Fresh
<1>3. Knows(n, 4, no, mem, T, M) /\ Says(n, 4, no, M) /\ vd = {}
  BY DEF Part
<1>4. Knows(n, 4, yes, new, T, M2)
  BY <1>1, <1>2 DEF Knows
<1>5. Begun(4, yes, 2) /\ Begun(4, yes, 3) /\ ~Begun(4, yes, 5)
  BY DEF Begun
<1>6. \A x \in From(M2, n) : Begun(4, yes, x.phase)
  BY Zenon DEF Fresh, Started
<1>7. Begun(4, no, 2) /\ Begun(4, no, 3)
  BY DEF Begun
<1>8. /\ \A x \in From(C2, n) : x.vvec = OwnVvec
      /\ From(C2, n) # {}
      /\ Single(C3) =>
            /\ \A c \in From(C3, n) : \A m \in c.bad : NoVector(C2, m)
            /\ \A m \in Members : \A x \in From(C2, m) :
                  NoVector(C2, m) \/ n \in x.fits \/ n \in Accusers(C3, m)
  BY <1>1, <1>3, <1>7, Zenon DEF Says
<1>9. ASSUME Single(C3)
      PROVE  /\ \A j \in From(C4, n) : \A y \in DOMAIN j.shares :
                  y \in Accusers(C3, n) /\ j.shares[y] = OwnVvec
             /\ \A y \in Accusers(C3, n) :
                  Convicted(C2, C3, C4, y) \/ y \in Answered(C4, n)
  <2>1. T \subseteq C4
    BY <1>2, Zenon
  <2>2. \A y : Convicted(C2, C3, T, y) => Convicted(C2, C3, C4, y)
    BY <2>1, ConvictedMore, Zenon
  <2>3. \A y : (\E j \in out : y \in DOMAIN j.shares) => y \in Answered(C4, n)
    BY <1>2, Zenon DEF Answered
  <2> QED
    BY <1>1, <1>2, <1>9, <2>2, <2>3, Zenon DEF Justifies
<1>10. \A x, y \in From(M2, n) : x.phase = y.phase => x = y
  BY Zenon DEF Fresh
<1>11. Says(n, 4, yes, M2)
  BY <1>1, <1>2, <1>5, <1>6, <1>8, <1>9, <1>10, Zenon DEF Says
<1> QED
  BY <1>3, <1>4, <1>11 DEF Part

\* The commitment out of a member.
Commits(M, C2, C3, C4, out) ==
    Agreed(M) => \E c \in out : ForAccepted(c, C2, Accepted(C2, C3, C4))

\* VerifyAndCommit: n has committed.
LEMMA CommitPart ==
  ASSUME NEW M \in SUBSET Messages, NEW M2 \in SUBSET Messages, NEW n, NEW mem, NEW new, NEW T,
         NEW vd, NEW fi, NEW no, NEW yes, Started(5, yes),
         NEW C2, C2 = At(M, 2), NEW C3, C3 = At(M, 3), NEW C4, C4 = At(M, 4),
         Part(n, 5, no, mem, T, vd, fi, M), Kept(new, T) = Kept(mem, T),
         Knows(n, 5, yes, new, T, M), NEW out, Commits(M, C2, C3, C4, out),
         Fresh(M, M2, n, 5, out)
  PROVE  Part(n, 5, yes, new, T, vd, fi, M2)
<1> USE DEF PhaseContribute, PhaseComplain, PhaseJustify, PhaseCommit, PhaseFinalize
<1>1. At(M2, 2) = C2 /\ At(M2, 3) = C3 /\ At(M2, 4) = C4 /\ From(At(M2, 5), n) = out
  BY DEF Fresh
<1>2. Knows(n, 5, no, mem, T, M) /\ Says(n, 5, no, M) /\ vd = Kept(mem, T)
  BY Zenon DEF Part
<1>3. Knows(n, 5, yes, new, T, M2)
  BY <1>1, Zenon DEF Knows
<1>4. Agreed(M2) <=> Agreed(M)
  BY <1>1, Zenon DEF Agreed
<1>5. Begun(5, yes, 2) /\ Begun(5, yes, 3) /\ Begun(5, yes, 4)
  BY DEF Begun
<1>6. \A x \in From(M2, n) : Begun(5, yes, x.phase)
  BY Zenon DEF Fresh, Started
<1>7. Begun(5, no, 2) /\ Begun(5, no, 3) /\ Begun(5, no, 4)
  BY DEF Begun
<1>8. /\ \A x \in From(C2, n) : x.vvec = OwnVvec
      /\ From(C2, n) # {}
      /\ Single(C3) =>
            /\ \A c \in From(C3, n) : \A m \in c.bad : NoVector(C2, m)
            /\ \A m \in Members : \A x \in From(C2, m) :
                  NoVector(C2, m) \/ n \in x.fits \/ n \in Accusers(C3, m)
            /\ \A j \in From(C4, n) : \A y \in DOMAIN j.shares :
                  y \in Accusers(C3, n) /\ j.shares[y] = OwnVvec
            /\ \A y \in Accusers(C3, n) :
                  Convicted(C2, C3, C4, y) \/ y \in Answered(C4, n)
  BY <1>2, <1>7, Zenon DEF Says
<1>9. \A x, y \in From(M2, n) : x.phase = y.phase => x = y
  BY Zenon DEF Fresh
<1>10. Says(n, 5, yes, M2)
  BY <1>1, <1>4, <1>5, <1>6, <1>8, <1>9, Zenon DEF Says, Commits
<1> QED
  BY <1>2, <1>3, <1>10 DEF Part

\* VerifyAndJustify keeps a history.
LEMMA JustifyTrace ==
  ASSUME TypeInv, NEW M \in SUBSET Messages, Trace(M), NEW n \in Honest, VerifyAndJustify(n)
  PROVE  \E M2 \in SUBSET Messages : Trace(M2)'
<1>1. PICK mem, T, vd, fi : mem = member[n] /\ T = seen[n] /\ vd = valid[n] /\ fi = final[n]
  BY Zenon
<1>2. mem \in [Members -> MemberState]
  BY <1>1, TypedAt, Zenon DEF MemberTyped
<1>3. PICK new : new = [m \in Members |->
                          [mem[m] EXCEPT !.bad = @ \/ Cardinality(mem[m].badMemberVotes)
                                                         >= dkgBadVotesThreshold]]
  BY Zenon
<1>4. PICK justifyFor :
        justifyFor = {m \in Members : ~new[m].bad /\ new[m].complaints = 1 /\ new[m].aboutUs}
  BY Zenon
<1>5. PICK j : j = [phase |-> 4, from |-> n, shares |-> [m \in justifyFor |-> OwnVvec]]
  BY Zenon
<1>6. PICK out : out = IF justifyFor = {} THEN {} ELSE {j}
  BY Zenon
<1>7. phase[n] = 4 /\ StartPhase(n, new, out) /\ ~started[n]
  BY <1>1, <1>3, <1>4, <1>5, <1>6, ZenonT(60) DEF VerifyAndJustify, StartPhase, PhaseJustify
<1>8. out = {} \/ out = {j}
  BY <1>6, Zenon
<1>9. Sends(n, 4, out)
  <2>1. OwnVvec \in Vvecs /\ n \in Members /\ justifyFor \subseteq Members
    BY <1>4, DKGAssumption, Zenon DEF OwnVvec
  <2>2. j \in Justifications /\ j.phase = 4 /\ j.from = n
    BY <1>5, <2>1 DEF Justifications, PhaseJustify
  <2>3. IsFiniteSet(out)
    <3>1. IsFiniteSet({}) /\ IsFiniteSet({j})
      BY FS_Singleton, FS_EmptySet, Zenon
    <3> QED
      BY <1>8, <3>1, Zenon
  <2> QED
    BY <1>8, <2>2, <2>3, Zenon DEF Sends, Messages
<1>10. PICK C2, C3, M2 : C2 = At(M, 2) /\ C3 = At(M, 3) /\ M2 = M \cup out
  BY Zenon
<1>11. M2 \in SUBSET Messages
  BY <1>9, <1>10, Zenon DEF Sends
<1>12. Part(n, 4, FALSE, mem, T, vd, fi, M)
  <2>1. 4 \in Int
    OBVIOUS
  <2> QED
    BY <1>1, <1>7, <2>1, BeforeStart, Zenon
<1>13. Fresh(M, M2, n, 4, out)
  <2>1. Says(n, 4, FALSE, M)
    BY <1>12, Zenon DEF Part
  <2>2. 4 \in Int
    OBVIOUS
  <2> QED
    BY <1>9, <1>10, <2>1, <2>2, FirstOfPhase, Zenon
<1>14. Told(mem, C3) /\ (Single(C3) => InJustify(n, mem, FALSE, C2, C3, T))
  <2> USE DEF PhaseContribute, PhaseComplain, PhaseJustify
  <2>1. Told(mem, C3)
    BY <1>10, <1>12 DEF Part, Knows
  <2>2. Single(C3) => InJustify(n, mem, FALSE, C2, C3, T)
    BY <1>10, <1>12, Zenon DEF Part, Knows
  <2> QED
    BY <2>1, <2>2, Zenon
<1>15. C3 \in SUBSET Messages
  BY <1>10, Zenon DEF At
<1>16. Told(new, C3)
  <2>1. \A m \in Members : new[m].complaints = mem[m].complaints
    <3> TAKE m \in Members
    <3>1. mem[m] \in MemberState
      BY <1>2, Zenon
    <3>2. new[m] = [mem[m] EXCEPT !.bad = @ \/ Cardinality(mem[m].badMemberVotes)
                                                  >= dkgBadVotesThreshold]
      BY <1>3, Zenon
    <3> QED
      BY <3>1, <3>2, BadRecord
  <2> QED
    BY <1>14, <2>1, SMTT(100) DEF Told
<1>17. Single(C3) =>
         /\ InJustify(n, new, TRUE, C2, C3, T)
         /\ justifyFor \subseteq Accusers(C3, n)
         /\ \A y \in Accusers(C3, n) : y \in justifyFor \/ Convicted(C2, C3, T, y)
  BY <1>2, <1>3, <1>4, <1>14, <1>15, JustifyKnown, Zenon
<1>18. Justifies(n, C2, C3, T, out)
  <2>1. DOMAIN j.shares = justifyFor /\ \A y \in justifyFor : j.shares[y] = OwnVvec
    BY <1>5, Zenon
  <2>2. justifyFor # {} => j \in out
    BY <1>6, Zenon
  <2> QED
    BY <1>8, <1>17, <2>1, <2>2, Zenon DEF Justifies
<1>19. T \subseteq At(M, 4)
  BY <1>1, <1>7, Zenon DEF Trace, Order
<1>20. Started(4, TRUE)
  BY DEF Begun, Started
<1>21. Part(n, 4, TRUE, new, T, vd, fi, M2)
  <2>1. PICK yes : yes = TRUE
    BY Zenon
  <2>2. Single(C3) => InJustify(n, new, yes, C2, C3, T)
    BY <1>17, <2>1, Zenon
  <2>3. Knows(n, 4, yes, new, T, M)
    BY <1>10, <1>16, <2>2 DEF Knows, PhaseContribute, PhaseComplain, PhaseJustify
  <2>4. Started(4, yes)
    BY <1>20, <2>1, Zenon
  <2>5. Part(n, 4, yes, new, T, vd, fi, M2)
    <3>1. Justifies(n, At(M, 2), At(M, 3), T, out)
      BY <1>10, <1>18, Zenon
    <3> QED
      BY <1>11, <1>12, <1>13, <1>19, <2>3, <2>4, <3>1, JustifyPart, Zenon
  <2> QED
    BY <2>1, <2>5, Zenon
<1>22. Trace(M2)'
  BY <1>1, <1>7, <1>9, <1>10, <1>21, AfterStart, Zenon
<1> QED
  BY <1>11, <1>22, Zenon

\* Closing complaints changes no vector.
LEMMA CloseKeeps ==
  ASSUME NEW mem \in [Members -> MemberState], NEW m \in Members
  PROVE  CloseComplaints(mem)[m].vvec = mem[m].vvec
         /\ CloseComplaints(mem)[m].complaints = mem[m].complaints
<1>1. mem[m] \in MemberState
  BY Zenon
<1>2. CloseComplaints(mem)[m] = [mem[m] EXCEPT !.bad = @ \/ mem[m].complaintsFromOthers # {}]
  BY Zenon DEF CloseComplaints
<1> QED
  BY <1>1, <1>2, BadRecord

\* VerifyAndCommit keeps a history.
LEMMA CommitTrace ==
  ASSUME TypeInv, NEW M \in SUBSET Messages, Trace(M), NEW n \in Honest, VerifyAndCommit(n)
  PROVE  \E M2 \in SUBSET Messages : Trace(M2)'
<1>1. PICK mem, T, vd, fi : mem = member[n] /\ T = seen[n] /\ vd = valid[n] /\ fi = final[n]
  BY Zenon
<1>2. mem \in [Members -> MemberState] /\ T \in SUBSET Messages
  BY <1>1, TypedAt, Zenon DEF MemberTyped
<1>3. PICK new, key : new = CloseComplaints(mem) /\ key = SendCommitment(new)
  BY Zenon
<1>4. PICK c : c = [phase |-> 5, from |-> n, key |-> key, sig |-> TRUE]
  BY Zenon
<1>5. PICK out : out = IF key = None THEN {} ELSE {c}
  BY Zenon
<1>6. phase[n] = 5 /\ StartPhase(n, new, out) /\ ~started[n]
  BY <1>1, <1>3, <1>4, <1>5, Zenon DEF VerifyAndCommit, StartPhase, PhaseCommit
<1>7. out = {} \/ (out = {c} /\ key # None)
  BY <1>5, Zenon
<1>8. Sends(n, 5, out)
  <2>1. n \in Members /\ (key = None \/ key \in Keys)
    <3>1. \A m \in Members : new[m].vvec \in Vvecs \cup {None}
      BY <1>2, <1>3, CloseKeeps, Zenon DEF MemberState
    <3>2. key = None \/ \E V \in SUBSET Members : key \in [V -> Vvecs]
      BY <1>3, <3>1, Zenon DEF SendCommitment
    <3> QED
      BY <3>2, DKGAssumption, Zenon DEF Keys
  <2>2. key # None => c \in Commitments /\ c.phase = 5 /\ c.from = n
    BY <1>4, <2>1, Zenon DEF Commitments, PhaseCommit
  <2>3. IsFiniteSet(out)
    <3>1. IsFiniteSet({}) /\ IsFiniteSet({c})
      BY FS_Singleton, FS_EmptySet, Zenon
    <3> QED
      BY <1>7, <3>1, Zenon
  <2> QED
    BY <1>7, <2>2, <2>3, Zenon DEF Sends, Messages
<1>9. PICK C2, C3, C4, M2 : C2 = At(M, 2) /\ C3 = At(M, 3) /\ C4 = At(M, 4) /\ M2 = M \cup out
  BY Zenon
<1>10. M2 \in SUBSET Messages
  BY <1>8, <1>9, Zenon DEF Sends
<1>11. Part(n, 5, FALSE, mem, T, vd, fi, M)
  <2>1. 5 \in Int
    OBVIOUS
  <2> QED
    BY <1>1, <1>6, <2>1, BeforeStart, Zenon
<1>12. Fresh(M, M2, n, 5, out)
  <2>1. Says(n, 5, FALSE, M)
    BY <1>11, Zenon DEF Part
  <2>2. 5 \in Int
    OBVIOUS
  <2> QED
    BY <1>8, <1>9, <2>1, <2>2, FirstOfPhase, Zenon
<1>13. Told(mem, C3)
  BY <1>9, <1>11 DEF Part, Knows, PhaseContribute, PhaseComplain, PhaseJustify
<1>14. Single(C3) => InCommit(n, mem, FALSE, C2, C3, C4)
  <2>1. Single(C3) => InCommit(n, mem, FALSE \/ 5 = 6, C2, C3, C4)
    BY <1>9, <1>11 DEF Part, Knows, PhaseContribute, PhaseComplain, PhaseJustify, PhaseFinalize
  <2>2. ~(5 = 6)
    OBVIOUS
  <2>3. (FALSE \/ 5 = 6) = FALSE
    BY <2>2, Zenon
  <2> QED
    BY <2>1, <2>3, Zenon
<1>15. Told(new, C3)
  BY <1>2, <1>3, <1>13, CloseKeeps, Zenon DEF Told
<1>16. C2 \in SUBSET Messages /\ \A x \in C2 : x.phase = PhaseContribute
  BY <1>9, Zenon DEF At, PhaseContribute
<1>17. Single(C3) =>
         /\ InCommit(n, new, TRUE, C2, C3, C4)
         /\ Cardinality(Accepted(C2, C3, C4)) >= minSize =>
              key # None /\ ForAccepted(c, C2, Accepted(C2, C3, C4))
  BY <1>2, <1>3, <1>4, <1>14, <1>16, CommitKnown, Zenon DEF PhaseCommit
<1>18. Commits(M, C2, C3, C4, out)
  <2> SUFFICES ASSUME Agreed(M)
               PROVE  \E x \in out : ForAccepted(x, C2, Accepted(C2, C3, C4))
    BY Zenon DEF Commits
  <2>1. /\ Single(C3) /\ Cardinality(Honest) >= minSize
        /\ Honest \subseteq Accepted(C2, C3, C4)
    BY <1>9, Zenon DEF Agreed, PhaseContribute, PhaseComplain, PhaseJustify
  <2>2. IsFiniteSet(Accepted(C2, C3, C4))
    BY DKGAssumption, FS_Subset, Zenon DEF Accepted
  <2>3. /\ Cardinality(Honest) <= Cardinality(Accepted(C2, C3, C4))
        /\ Cardinality(Honest) \in Nat /\ Cardinality(Accepted(C2, C3, C4)) \in Nat
    BY <2>1, <2>2, FS_Subset, FS_CardinalityType, Zenon
  <2>4. Cardinality(Accepted(C2, C3, C4)) >= minSize
    BY <2>1, <2>3, DKGAssumption
  <2> QED
    BY <1>5, <1>17, <2>1, <2>4, Zenon
<1>19. Kept(new, T) = Kept(mem, T)
  <2>1. \A x \in T : x.phase = 5
    BY <1>1, <1>6, Zenon DEF Trace, Order, At
  <2>2. \A x \in T : DOMAIN x.key \subseteq Members
    BY <1>2, <2>1, MessageKinds DEF Commitments, Keys, PhaseCommit
  <2>3. \A m \in Members : new[m].vvec = mem[m].vvec
    BY <1>2, <1>3, CloseKeeps, Zenon
  <2> QED
    BY <2>2, <2>3, Zenon DEF Kept
<1>20. Started(5, TRUE)
  BY DEF Begun, Started
<1>21. Part(n, 5, TRUE, new, T, vd, fi, M2)
  <2>1. PICK yes : yes = TRUE
    BY Zenon
  <2>2. Single(C3) => InCommit(n, new, yes \/ 5 = 6, C2, C3, C4)
    <3>1. (yes \/ 5 = 6) = TRUE
      BY <2>1, Zenon
    <3> QED
      BY <1>17, <3>1, Zenon
  <2>3. Knows(n, 5, yes, new, T, M)
    BY <1>9, <1>15, <2>2
       DEF Knows, PhaseContribute, PhaseComplain, PhaseJustify, PhaseFinalize
  <2>4. Started(5, yes)
    BY <1>20, <2>1, Zenon
  <2>5. Part(n, 5, yes, new, T, vd, fi, M2)
    BY <1>9, <1>10, <1>11, <1>12, <1>18, <1>19, <2>3, <2>4, CommitPart, Zenon
  <2> QED
    BY <2>1, <2>5, Zenon
<1>22. Trace(M2)'
  BY <1>1, <1>6, <1>8, <1>9, <1>21, AfterStart, Zenon
<1> QED
  BY <1>10, <1>22, Zenon

\* The final commitments fi hold one for every large enough group of the
\* commitments vd.
Finals(vd, fi) ==
    \A V : To(vd, V) # {} /\ Cardinality(To(vd, V)) >= minSize =>
              \E first \in To(vd, V) : FinalCommitment(To(vd, V), first) \subseteq fi

\* FinalizeCommitments: every large enough group gives a final commitment.
LEMMA FinalizeIs ==
  ASSUME NEW n, FinalizeCommitments(n)
  PROVE  \E S, fi :
           /\ S \in Batches(n)
           /\ EndPhase(n, S)
           /\ valid' = [valid EXCEPT ![n] = ProcessPendingCommitments(n, S)]
           /\ final' = [final EXCEPT ![n] = fi]
           /\ Finals(ProcessPendingCommitments(n, S), fi)
<1>1. PICK S \in Batches(n) :
        LET all == ProcessPendingCommitments(n, S)
            Group(V) == {c \in all : DOMAIN c.key = V}
            Large == {V \in {DOMAIN c.key : c \in all} : Cardinality(Group(V)) >= minSize}
        IN  /\ EndPhase(n, S)
            /\ valid' = [valid EXCEPT ![n] = all]
            /\ \E first \in [Large -> all] :
                /\ \A V \in Large : first[V] \in Group(V)
                /\ final' = [final EXCEPT ![n] =
                                UNION {FinalCommitment(Group(V), first[V]) : V \in Large}]
  BY Zenon DEF FinalizeCommitments
<1> DEFINE all == ProcessPendingCommitments(n, S)
           Group(V) == {c \in all : DOMAIN c.key = V}
           Large == {V \in {DOMAIN c.key : c \in all} : Cardinality(Group(V)) >= minSize}
<1>2. PICK first \in [Large -> all] :
                /\ \A V \in Large : first[V] \in Group(V)
                /\ final' = [final EXCEPT ![n] =
                                UNION {FinalCommitment(Group(V), first[V]) : V \in Large}]
  BY <1>1, Zenon
<1> DEFINE fi == UNION {FinalCommitment(Group(V), first[V]) : V \in Large}
<1>3. ASSUME NEW V, Group(V) # {}, Cardinality(Group(V)) >= minSize
      PROVE  \E f \in Group(V) : FinalCommitment(Group(V), f) \subseteq fi
  <2>1. V \in Large
    BY <1>3, Zenon
  <2>2. first[V] \in Group(V)
    BY <1>2, <2>1, Zenon
  <2>3. FinalCommitment(Group(V), first[V]) \subseteq fi
    <3> HIDE DEF Group, Large
    <3> QED
      BY <2>1, Zenon
  <2> HIDE DEF Group, fi
  <2> QED
    BY <2>2, <2>3, Zenon
<1>4. /\ S \in Batches(n)
      /\ EndPhase(n, S) /\ valid' = [valid EXCEPT ![n] = all]
      /\ final' = [final EXCEPT ![n] = fi]
  BY <1>1, <1>2, Zenon
<1>5. Finals(all, fi)
  <2> SUFFICES ASSUME NEW V
               PROVE  To(all, V) # {} /\ Cardinality(To(all, V)) >= minSize =>
                        \E f \in To(all, V) : FinalCommitment(To(all, V), f) \subseteq fi
    BY Zenon DEF Finals
  <2>1. Group(V) # {} /\ Cardinality(Group(V)) >= minSize =>
          \E f \in Group(V) : FinalCommitment(Group(V), f) \subseteq fi
    <3> HIDE DEF fi, Group
    <3> QED
      BY <1>3, Zenon
  <2>2. To(all, V) = Group(V)
    BY Zenon DEF To
  <2> HIDE DEF fi, Group
  <2> QED
    BY <2>1, <2>2, Zenon
<1> HIDE DEF all, fi
<1> QED
  BY <1>4, <1>5, Zenon DEF all

\* The session has a result at a member.
Ends(M, fi) == Agreed(M) => \E f \in fi : Verify(f)

\* What a member is left with after FinalizeCommitments.
LEMMA FinalPart ==
  ASSUME NEW M \in SUBSET Messages, NEW n, NEW mem, NEW T, NEW vd, NEW fi0, NEW fi,
         Part(n, 5, TRUE, mem, T, vd, fi0, M), Ends(M, fi)
  PROVE  Part(n, 6, FALSE, mem, {}, vd, fi, M)
<1> USE DEF PhaseContribute, PhaseComplain, PhaseJustify, PhaseCommit, PhaseFinalize
<1>1. PICK no, yes, C2, C3, C4 : /\ no = FALSE /\ yes = TRUE /\ C2 = At(M, 2)
                                 /\ C3 = At(M, 3) /\ C4 = At(M, 4)
  BY Zenon
<1>2. Part(n, 5, yes, mem, T, vd, fi0, M)
  BY <1>1, Zenon
<1>3. Told(mem, C3) /\ (Single(C3) => InCommit(n, mem, yes \/ 5 = 6, C2, C3, C4))
  <2>1. C2 = At(M, 2) /\ C3 = At(M, 3) /\ C4 = At(M, 4)
    BY <1>1, Zenon
  <2> QED
    BY <1>2, <2>1 DEF Part, Knows
<1>4. Single(C3) => InCommit(n, mem, no \/ 6 = 6, C2, C3, C4)
  <2>1. (yes \/ 5 = 6) = TRUE
    BY <1>1, Zenon
  <2>2. (no \/ 6 = 6) = TRUE
    BY Zenon
  <2> QED
    BY <1>3, <2>1, <2>2, Zenon
<1>5. Knows(n, 6, no, mem, {}, M)
  <2>1. C2 = At(M, 2) /\ C3 = At(M, 3) /\ C4 = At(M, 4) /\ Told(mem, C3)
    BY <1>1, <1>3, Zenon
  <2> QED
    BY <1>4, <2>1 DEF Knows
<1>6. Says(n, 6, no, M)
  <2>1. Says(n, 5, TRUE, M)
    BY Zenon DEF Part
  <2>2. 5 \in Int /\ 5 + 1 = 6
    OBVIOUS
  <2>3. Says(n, 5 + 1, FALSE, M)
    BY <2>1, <2>2, SaysNext, Zenon
  <2> QED
    BY <1>1, <2>2, <2>3, Zenon
<1>7. Part(n, 6, no, mem, {}, vd, fi, M)
  BY <1>5, <1>6 DEF Part, Ends
<1> QED
  BY <1>1, <1>7, Zenon

\* Every commitment of an honest member to the accepted members is handled, so
\* one of the final commitments verifies.
LEMMA FinalEnds ==
  ASSUME NEW M \in SUBSET Messages, NEW n \in Honest, NEW mem, NEW T, IsFiniteSet(T),
         NEW vd, NEW fi0, NEW fi, Complete(T, At(M, 5)), NEW p, NEW st,
         \A h \in Honest : Says(h, p[h], st[h], M) /\ Begun(p[h], st[h], 5),
         Part(n, 5, TRUE, mem, T, vd, fi0, M), Finals(vd, fi)
  PROVE  Ends(M, fi)
<1> USE DEF PhaseContribute, PhaseComplain, PhaseJustify, PhaseCommit, PhaseFinalize
<1> SUFFICES ASSUME Agreed(M) PROVE \E f \in fi : Verify(f)
  BY Zenon DEF Ends
<1>1. PICK C2, C3, C4, C5, V : /\ C2 = At(M, 2) /\ C3 = At(M, 3) /\ C4 = At(M, 4) /\ C5 = At(M, 5)
                               /\ V = Accepted(C2, C3, C4)
  BY Zenon
<1>2. Single(C3) /\ Cardinality(Honest) >= minSize /\ Honest \subseteq V
  BY <1>1, Zenon DEF Agreed
<1>3. InCommit(n, mem, TRUE, C2, C3, C4)
  <2>1. PICK yes : yes = TRUE
    BY Zenon
  <2>2. Knows(n, 5, yes, mem, T, M)
    <3>1. Knows(n, 5, TRUE, mem, T, M)
      BY Zenon DEF Part
    <3> QED
      BY <2>1, <3>1, Zenon
  <2>3. InCommit(n, mem, yes \/ 5 = 6, C2, C3, C4)
    <3>1. C2 = At(M, 2) /\ C3 = At(M, 3) /\ C4 = At(M, 4) /\ Single(C3)
      BY <1>1, <1>2, Zenon
    <3> QED
      BY <2>2, <3>1, SMTT(100) DEF Knows
  <2>4. (yes \/ 5 = 6) = TRUE
    BY <2>1, Zenon
  <2> QED
    BY <2>3, <2>4, Zenon
<1>4. vd = Kept(mem, T)
  BY Zenon DEF Part
<1>5. C2 \in SUBSET Messages /\ (\A x \in C2 : x.phase = 2) /\ C5 \in SUBSET Messages
      /\ (\A x \in C5 : x.phase = 5)
  BY <1>1, Zenon DEF At
<1>6. T \in SUBSET Commitments
  BY <1>1, <1>5, MessageKinds, Zenon DEF Complete
<1>7. ASSUME NEW h \in Honest PROVE \E c \in From(T, h) : ForAccepted(c, C2, V)
  <2>1. PICK q, s : q = p[h] /\ s = st[h]
    BY Zenon
  <2>2. Says(h, q, s, M) /\ Begun(q, s, 5)
    BY <2>1, Zenon
  <2>3. \E c \in From(C5, h) : ForAccepted(c, C2, V)
    BY <1>1, <2>2, Zenon DEF Says
  <2>4. ~Many(C5, h)
    <3>1. \A x, y \in From(M, h) : x.phase = y.phase => x = y
      BY <2>2, Zenon DEF Says
    <3>2. \A x \in From(C5, h) : x \in From(M, h) /\ x.phase = 5
      BY <1>1, Zenon DEF From, At
    <3> QED
      BY <3>1, <3>2, Zenon DEF Many
  <2>5. From(T, h) = From(C5, h)
    <3>1. Complete(T, C5)
      BY <1>1, Zenon
    <3> QED
      BY <2>4, <3>1, CompleteFrom, Zenon
  <2> QED
    BY <2>3, <2>5, Zenon
<1>8. Verifies(To(vd, V))
  <2>1. AllCommitted(T, C2, V)
    BY <1>7, Zenon DEF AllCommitted
  <2>2. Enough(V)
    BY <1>2, Zenon DEF Enough
  <2>3. C2 \in SUBSET Messages /\ (\A x \in C2 : x.phase = 2)
    BY <1>5, Zenon
  <2>4. V = Accepted(C2, C3, C4)
    BY <1>1, Zenon
  <2>5. Verifies(To(Kept(mem, T), V))
    BY <1>3, <1>6, <2>1, <2>2, <2>3, <2>4, FinalVerifies, Zenon
  <2> QED
    BY <1>4, <2>5, Zenon
<1>9. PICK first \in To(vd, V) : FinalCommitment(To(vd, V), first) \subseteq fi
  BY <1>8, Zenon DEF Finals, Verifies
<1> QED
  BY <1>8, <1>9, Zenon DEF Verifies

\* FinalizeCommitments leaves the history as it is.
LEMMA FinalizeTrace ==
  ASSUME TypeInv, NEW M \in SUBSET Messages, Trace(M), NEW n \in Honest, FinalizeCommitments(n),
         faults' = 0
  PROVE  Trace(M)'
<1> USE DEF PhaseContribute, PhaseCommit, PhaseFinalize
<1>1. PICK S, fi :
        /\ S \in Batches(n)
        /\ EndPhase(n, S)
        /\ valid' = [valid EXCEPT ![n] = ProcessPendingCommitments(n, S)]
        /\ final' = [final EXCEPT ![n] = fi]
        /\ Finals(ProcessPendingCommitments(n, S), fi)
  BY FinalizeIs, Zenon
<1>2. phase[n] = 5 /\ started[n] = TRUE /\ member' = member
  <2>1. started[n] \in BOOLEAN
    BY TypedAt, Zenon DEF MemberTyped
  <2> QED
    BY <1>1, <2>1, Zenon DEF FinalizeCommitments, EndPhase
<1>3. PICK mem, T, vd, fi0 : /\ mem = member[n] /\ T = seen[n] \cup S /\ fi0 = final[n]
                             /\ vd = ProcessPendingCommitments(n, S)
  BY Zenon
<1>4. /\ Order(phase', started', seen', msgs', M)
      /\ Complete(T, At(M, 5))
      /\ \A h \in Honest : Begun(phase[h], started[h], 5)
  <2>1. Order(phase, started, seen, msgs, M) /\ phase[n] \in PhaseContribute .. PhaseCommit
    BY <1>2, SMTT(100) DEF Trace
  <2>2. /\ Order(phase', started', seen', msgs', M)
        /\ Complete(seen[n] \cup S, At(M, phase[n]))
        /\ \A h \in Honest : Begun(phase[h], started[h], phase[n])
    BY <1>1, <2>1, EndOrder, Zenon
  <2> QED
    BY <1>2, <1>3, <2>2, Zenon
<1>5. IsFiniteSet(T)
  <2>1. phase[n] \in PhaseContribute .. PhaseCommit
    BY <1>2
  <2>2. IsFiniteSet(seen[n] \cup S)
    BY <1>1, <2>1, HandledTyped, Zenon
  <2> QED
    BY <1>3, <2>2, Zenon
<1>6. Part(n, 5, TRUE, mem, T, vd, fi0, M)
  <2>1. ProcessPending(n, S) = mem
    BY <1>2, <1>3 DEF ProcessPending, PhaseComplain, PhaseJustify
  <2>2. Part(n, phase[n], started[n], ProcessPending(n, S), seen[n] \cup S,
              ProcessPendingCommitments(n, S), final[n], M)
    <3>1. Part(n, phase[n], started[n], member[n], seen[n], valid[n], final[n], M)
      BY Zenon DEF Trace
    <3>2. phase[n] \in PhaseContribute .. PhaseCommit
      BY <1>2
    <3> QED
      BY <1>1, <3>1, <3>2, HandledKnown, Zenon
  <2> QED
    BY <1>2, <1>3, <2>1, <2>2, Zenon
<1>7. Ends(M, fi)
  <2>1. PICK p, st : p = phase /\ st = started
    BY Zenon
  <2>2. \A h \in Honest : Says(h, p[h], st[h], M) /\ Begun(p[h], st[h], 5)
    BY <1>4, <2>1, Zenon DEF Trace, Part
  <2>3. Finals(vd, fi)
    BY <1>1, <1>3, Zenon
  <2>4. Complete(T, At(M, 5))
    BY <1>4, Zenon
  <2> QED
    BY <1>5, <1>6, <2>2, <2>3, <2>4, FinalEnds, Zenon
<1>8. Part(n, 6, FALSE, mem, {}, vd, fi, M)
  BY <1>6, <1>7, FinalPart, Zenon
<1>9. /\ phase' = [phase EXCEPT ![n] = 6] /\ started' = [started EXCEPT ![n] = FALSE]
      /\ member' = [member EXCEPT ![n] = mem] /\ seen' = [seen EXCEPT ![n] = {}]
      /\ valid' = [valid EXCEPT ![n] = vd] /\ final' = [final EXCEPT ![n] = fi]
  BY <1>1, <1>2, <1>3, SameAt DEF EndPhase
<1> QED
  BY <1>4, <1>8, <1>9, TraceStep, Zenon

\* A message of a faulty member is added to the history.
LEMMA FaultyTrace ==
  ASSUME TypeInv, NEW M \in SUBSET Messages, Trace(M), FaultySend
  PROVE  \E M2 \in SUBSET Messages : Trace(M2)'
<1>1. PICK x \in FaultyMessages :
        /\ \A h \in Honest : phase[h] <= x.phase
        /\ msgs' = msgs \cup {x}
        /\ UNCHANGED <<phase, started, member, seen, valid, sent, final, faults>>
  BY Zenon DEF FaultySend
<1>2. x \in Messages /\ x.from \notin Honest /\ x.phase \in Int
  BY DKGAssumption, MessagesAssumption, MessageKinds DEF PhaseContribute, PhaseCommit
<1>3. PICK M2 : M2 = M \cup {x}
  BY Zenon
<1>4. M2 \in SUBSET Messages /\ M \subseteq M2
  BY <1>2, <1>3, Zenon
<1>5. Order(phase, started, seen, msgs, M)
  BY Zenon DEF Trace
<1>6. Order(phase', started', seen', msgs', M2)
  <2>1. IsFiniteSet(M2) /\ msgs' \subseteq M2
    BY <1>1, <1>3, <1>5, FS_AddElement, Zenon DEF Order
  <2>2. ASSUME NEW n \in Honest
        PROVE  /\ seen[n] \subseteq At(M2, phase[n])
               /\ \A y \in M2 : y.phase >= phase[n] => y \in msgs'
    BY <1>1, <1>3, <1>5, Zenon DEF Order, At
  <2> QED
    BY <1>1, <1>4, <1>5, <2>1, <2>2, Zenon DEF Order
<1>7. ASSUME NEW h \in Honest
      PROVE  Part(h, phase[h], started[h], member[h], seen[h], valid[h], final[h], M2)
  <2>1. PICK q, s, r, t, v, f : /\ q = phase[h] /\ s = started[h] /\ r = member[h] /\ t = seen[h]
                                /\ v = valid[h] /\ f = final[h]
    BY Zenon
  <2>2. Part(h, q, s, r, t, v, f, M) /\ q \in PhaseContribute .. PhaseFinalize
    BY <2>1, Zenon DEF Trace, Order
  <2>3. \A y \in M2 \ M : y.phase >= q /\ y.from # h
    BY <1>1, <1>2, <1>3, <2>1, <2>2, Zenon DEF PhaseContribute, PhaseFinalize
  <2> QED
    BY <1>4, <2>1, <2>2, <2>3, PartKept, Zenon
<1>8. Trace(M2)'
  BY <1>1, <1>6, <1>7, Zenon DEF Trace
<1> QED
  BY <1>4, <1>8, Zenon

\* As long as nothing is lost.
Clean == faults = 0 => \E M \in SUBSET Messages : Trace(M)

\* A new session has the empty history.
LEMMA CleanInit == Init => Clean
<1> SUFFICES ASSUME Init PROVE Trace({})
  BY Zenon DEF Clean
<1> USE DEF PhaseContribute, PhaseComplain, PhaseJustify, PhaseCommit, PhaseFinalize
<1>1. \A q, m : At({}, q) = {} /\ From({}, m) = {} /\ ~Many({}, m)
  BY Zenon DEF At, From, Many
<1>2. Order(phase, started, seen, msgs, {})
  BY FS_EmptySet DEF Init, Order
<1>3. ASSUME NEW n \in Honest
      PROVE  Part(n, phase[n], started[n], member[n], seen[n], valid[n], final[n], {})
  <2>1. PICK mem : mem = member[n]
    BY Zenon
  <2>2. \A m \in Members : mem[m] = NewMember
    BY <2>1, Zenon DEF Init
  <2>3. phase[n] = 2 /\ started[n] = FALSE /\ seen[n] = {} /\ valid[n] = {}
    BY Zenon DEF Init
  <2>4. InContribute(n, mem, {})
    BY <1>1, <2>2, SMTT(100) DEF InContribute, Vectors, NewMember
  <2>5. PICK no, fi : no = started[n] /\ fi = final[n]
    BY Zenon
  <2>6. Knows(n, 2, no, mem, {}, {})
    BY <2>4 DEF Knows
  <2>7. Says(n, 2, no, {})
    BY <1>1, <2>3, <2>5, SMTT(100) DEF Says, Begun
  <2>8. Part(n, 2, no, mem, {}, {}, fi, {})
    BY <2>6, <2>7 DEF Part
  <2> QED
    BY <2>1, <2>3, <2>5, <2>8, Zenon
<1> QED
  BY <1>2, <1>3, Zenon DEF Trace

\* Every step keeps a history, as long as nothing is lost.
LEMMA CleanNext == TypeInv /\ Clean /\ [Next]_vars => Clean'
<1> SUFFICES ASSUME TypeInv, Clean, [Next]_vars, faults' = 0
             PROVE  \E M2 \in SUBSET Messages : Trace(M2)'
  BY Zenon DEF Clean
<1> USE DEF PhaseContribute, PhaseComplain, PhaseJustify, PhaseCommit
<1>1. ASSUME faults = 0 PROVE \E M \in SUBSET Messages : Trace(M)
  BY <1>1, Zenon DEF Clean
<1>2. ASSUME NEW n \in Honest, SleepBeforePhase(n)
      PROVE  \E M2 \in SUBSET Messages : Trace(M2)'
  <2>1. PICK x \in Pending(n) : Receive(n, {x})
    BY <1>2, Zenon DEF SleepBeforePhase
  <2>2. phase[n] \in PhaseContribute .. PhaseCommit /\ Reached(phase[n])
    BY <1>2 DEF SleepBeforePhase
  <2>3. PICK M \in SUBSET Messages : Trace(M)
    BY <1>1, <2>1, Zenon DEF Receive
  <2>4. Trace(M)'
    BY <2>1, <2>2, <2>3, OnePending, ReceiveTrace, Zenon
  <2> QED
    BY <2>4, Zenon
<1>3. ASSUME NEW n \in Honest, WhileWait(n)
      PROVE  \E M2 \in SUBSET Messages : Trace(M2)'
  <2>1. PICK x \in Pending(n) : Receive(n, {x})
    BY <1>3, Zenon DEF WhileWait
  <2>2. phase[n] \in PhaseContribute .. PhaseCommit /\ started[n]
    BY <1>3, Zenon DEF WhileWait
  <2>3. PICK M \in SUBSET Messages : Trace(M)
    BY <1>1, <2>1, Zenon DEF Receive
  <2>4. Trace(M)'
    BY <2>1, <2>2, <2>3, OnePending, ReceiveTrace, Zenon
  <2> QED
    BY <2>4, Zenon
<1>4. ASSUME NEW n \in Honest, WaitForNextPhase(n)
      PROVE  \E M2 \in SUBSET Messages : Trace(M2)'
  <2>1. faults = 0
    BY <1>4, NothingLost, Zenon DEF WaitForNextPhase
  <2>2. PICK M \in SUBSET Messages : Trace(M)
    BY <1>1, <2>1, Zenon
  <2>3. Trace(M)'
    BY <1>4, <2>2, WaitTrace, Zenon
  <2> QED
    BY <2>3, Zenon
<1>5. ASSUME NEW n \in Honest, FinalizeCommitments(n)
      PROVE  \E M2 \in SUBSET Messages : Trace(M2)'
  <2>1. faults = 0
    BY <1>5, NothingLost, Zenon DEF FinalizeCommitments
  <2>2. PICK M \in SUBSET Messages : Trace(M)
    BY <1>1, <2>1, Zenon
  <2>3. Trace(M)'
    BY <1>5, <2>2, FinalizeTrace, Zenon
  <2> QED
    BY <2>3, Zenon
<1>6. ASSUME NEW n \in Honest, AbortPhase(n) PROVE FALSE
  BY <1>6, TypeParts, DKGAssumption, SMTT(100) DEF AbortPhase, Fault, SharedTyped
<1>7. ASSUME NEW n \in Honest,
             Contribute(n) \/ VerifyAndComplain(n) \/ VerifyAndJustify(n) \/ VerifyAndCommit(n)
      PROVE  \E M2 \in SUBSET Messages : Trace(M2)'
  <2>1. faults' = faults
    BY <1>7, Zenon DEF Contribute, VerifyAndComplain, VerifyAndJustify, VerifyAndCommit, StartPhase
  <2>2. PICK M \in SUBSET Messages : Trace(M)
    BY <1>1, <2>1, Zenon
  <2> QED
    BY <1>7, <2>2, ContributeTrace, ComplainTrace, JustifyTrace, CommitTrace, Zenon
<1>8. ASSUME FaultySend PROVE \E M2 \in SUBSET Messages : Trace(M2)'
  <2>1. faults' = faults
    BY <1>8, Zenon DEF FaultySend
  <2>2. PICK M \in SUBSET Messages : Trace(M)
    BY <1>1, <2>1, Zenon
  <2> QED
    BY <1>8, <2>2, FaultyTrace, Zenon
<1>9. CASE UNCHANGED vars
  <2>1. PICK M \in SUBSET Messages : Trace(M)
    BY <1>1, <1>9, Zenon DEF vars
  <2>2. Trace(M)'
    BY <1>9, <2>1, Zenon DEF vars, Trace
  <2> QED
    BY <2>2, Zenon
<1> QED
  BY <1>2, <1>3, <1>4, <1>5, <1>6, <1>7, <1>8, <1>9, Zenon DEF Next

\* The inductive invariant of sessions in which nothing is lost.
LEMMA CleanAlways == Spec => [](TypeInv /\ Clean)
  BY TypeInit, TypeNext, CleanInit, CleanNext, PTL DEF Spec

\* With a history, an honest member is called bad only on the word of a bad one.
LEMMA CleanValid == TypeInv /\ Clean => HonestStayValid
\* In a session in which nothing was lost, an honest member that is in a phase
\* knows that the others have been through the one before.
<1>OthersBegun.
  ASSUME NEW M, Order(phase, started, seen, msgs, M), NEW n \in Honest, NEW h \in Honest,
         NEW q \in Int, phase[n] > q
  PROVE  Begun(phase[h], started[h], q)
  <2> USE <1>OthersBegun
  <2>1. phase[n] \in Int /\ phase[h] \in Int
    BY DEF Order, PhaseContribute, PhaseFinalize
  <2>2. CASE phase[h] >= phase[n]
    BY <2>1, <2>2 DEF Begun
  <2>3. CASE phase[n] > phase[h]
    BY <2>1, <2>3 DEF Begun, Order
  <2> QED
    BY <2>1, <2>2, <2>3
\* An honest member is not convicted, if its contribution has been sent and the
\* faulty members are too few to vote it out.
<1>HonestUnconvicted.
  ASSUME NEW M \in SUBSET Messages, Single(At(M, 3)), NEW h \in Honest,
         dkgBadVotesThreshold > Cardinality(Faulty), NEW p, NEW st,
         \A x \in Honest : Says(x, p[x], st[x], M), Begun(p[h], st[h], 2),
         NEW T, T \subseteq At(M, 4)
  PROVE  ~Convicted(At(M, 2), At(M, 3), T, h)
  <2> USE <1>HonestUnconvicted
  <2> USE DEF PhaseContribute, PhaseComplain, PhaseJustify, PhaseCommit
  <2>1. PICK C2, C3, C4 : C2 = At(M, 2) /\ C3 = At(M, 3) /\ C4 = At(M, 4)
    BY Zenon
  <2>2. PICK q, s : q = p[h] /\ s = st[h]
    BY Zenon
  <2>3. Says(h, q, s, M) /\ Begun(q, s, 2) /\ Single(C3)
    BY <2>1, <2>2, Zenon
  <2>4. ~NoVector(C2, h)
    BY <2>1, <2>3, SMTT(100) DEF Says, NoVector, Many, From, At
  <2>5. Voters(C3, h) \subseteq Faulty
    <3> SUFFICES ASSUME NEW c \in C3, h \in c.bad PROVE c.from \in Faulty
      BY Zenon DEF Voters
    <3>1. c.from \in Members
      BY <2>1, MessageKinds, Zenon DEF At
    <3>2. ASSUME NEW k \in Honest, c.from = k PROVE FALSE
      <4>1. PICK r, t : r = p[k] /\ t = st[k]
        BY Zenon
      <4>2. Says(k, r, t, M)
        BY <4>1, Zenon
      <4>3. c \in From(C3, k)
        BY <3>2, Zenon DEF From
      <4> QED
        BY <2>1, <2>3, <2>4, <4>2, <4>3, Zenon DEF Says
    <3> QED
      BY <3>1, <3>2, Zenon DEF Faulty
  <2>6. ~VotedBad(C3, h)
    <3>1. IsFiniteSet(Faulty)
      BY DKGAssumption, FS_Subset, Zenon DEF Faulty
    <3>2. /\ IsFiniteSet(Voters(C3, h)) /\ Cardinality(Voters(C3, h)) <= Cardinality(Faulty)
      BY <2>5, <3>1, FS_Subset, Zenon
    <3>3. Cardinality(Voters(C3, h)) \in Nat /\ Cardinality(Faulty) \in Nat
      BY <3>1, <3>2, FS_CardinalityType, Zenon
    <3> QED
      BY <3>2, <3>3, DKGAssumption, SMTT(100) DEF VotedBad
  <2>7. ~Unjust(C2, C3, T, h)
    <3>1. \A j \in From(T, h) : j \in From(C4, h) /\ j.from = h
      BY <2>1, Zenon DEF From
    <3>2. ~Many(T, h)
      <4>1. \A x, y \in From(C4, h) : x = y
        BY <2>1, <2>3, SMTT(100) DEF Says, From, At
      <4> QED
        BY <3>1, <4>1, Zenon DEF Many
    <3>3. ASSUME NEW j \in From(T, h) PROVE Answers(C2, C3, j)
      BY <2>1, <2>3, <3>1, Zenon DEF Says, Answers
    <3> QED
      BY <3>2, <3>3, Zenon DEF Unjust
  <2> QED
    BY <2>1, <2>4, <2>6, <2>7, Zenon DEF Convicted
<1> SUFFICES ASSUME TypeInv, Clean, Undisturbed, dkgBadVotesThreshold > Cardinality(Faulty),
                    NEW n \in Honest, NEW h \in Honest, member[n][h].bad
             PROVE  \E x \in member[n][h].complaintsFromOthers : member[n][x].bad
  BY Zenon DEF HonestStayValid
<1> USE DEF PhaseContribute, PhaseComplain, PhaseJustify, PhaseCommit, PhaseFinalize
<1>1. PICK M \in SUBSET Messages : Trace(M)
  BY Zenon DEF Clean, Undisturbed
<1>2. PICK p, st, mem, T, C2, C3, C4 :
        /\ p = phase /\ st = started /\ mem = member[n] /\ T = seen[n]
        /\ C2 = At(M, 2) /\ C3 = At(M, 3) /\ C4 = At(M, 4)
  BY Zenon
<1>3. PICK q, s : q = p[n] /\ s = st[n]
  BY Zenon
<1>4. Order(phase, started, seen, msgs, M)
  BY <1>1, Zenon DEF Trace
<1>5. q \in 2 .. 6 /\ T \subseteq At(M, q)
  BY <1>2, <1>3, <1>4, Zenon DEF Order
<1>6. Knows(n, q, s, mem, T, M)
  BY <1>1, <1>2, <1>3, Zenon DEF Trace, Part
<1>7. \A x \in Honest : Says(x, p[x], st[x], M)
  BY <1>1, <1>2, Zenon DEF Trace, Part
<1>8. \A r \in Int : q > r => Begun(p[h], st[h], r)
  BY <1>2, <1>3, <1>4, <1>OthersBegun, Zenon
<1>9. h \in Members /\ n \in Members
  BY DKGAssumption, Zenon
<1>10. PICK u, v : u = p[h] /\ v = st[h]
  BY Zenon
<1>11. Says(h, u, v, M)
  BY <1>7, <1>10, Zenon
<1>12. mem[h].bad
  BY <1>2, Zenon
<1>13. \A r : ~Many(At(M, r), h)
  BY <1>11, Zenon DEF Says, Many, From, At
<1>14. CASE q = 2
  <2>1. Many(T, h)
    BY <1>6, <1>9, <1>12, <1>14, Zenon DEF Knows, InContribute
  <2> QED
    BY <1>5, <1>13, <2>1, ManyMore, Zenon
<1>15. CASE q = 3
  <2>1. InComplain(n, mem, s, C2, T)
    BY <1>2, <1>6, <1>15, Zenon DEF Knows
  <2>2. Many(C2, h) \/ From(C2, h) = {} \/ Many(T, h)
    BY <1>9, <1>12, <2>1, Zenon DEF InComplain
  <2>3. ~Many(T, h)
    BY <1>5, <1>13, ManyMore, Zenon
  <2>4. From(C2, h) # {}
    <3>1. Begun(u, v, 2)
      BY <1>8, <1>10, <1>15, SMTT(100)
    <3> QED
      BY <1>2, <1>11, <3>1, Zenon DEF Says
  <2> QED
    BY <1>2, <1>13, <2>2, <2>3, <2>4, Zenon
<1>16. CASE q > 3
  <2>1. Told(mem, C3)
    BY <1>2, <1>6, <1>16, Zenon DEF Knows
  <2>2. Single(C3)
    BY <1>2, <2>1, Zenon DEF Told, Undisturbed
  <2>3. Begun(p[h], st[h], 2)
    BY <1>5, <1>8, <1>16
  <2>4. \A W : W \subseteq C4 => ~Convicted(C2, C3, W, h)
    BY <1>2, <1>7, <2>2, <2>3, <1>HonestUnconvicted, Zenon
  <2>5. CASE q = 4
    <3>1. InJustify(n, mem, s, C2, C3, T)
      BY <1>2, <1>6, <2>2, <2>5, Zenon DEF Knows
    <3>2. Convicted(C2, C3, T, h)
      BY <1>9, <1>12, <3>1, Zenon DEF InJustify, Convicted
    <3> QED
      BY <1>2, <1>5, <2>4, <2>5, <3>2, Zenon
  <2>6. CASE q > 4
    <3>1. PICK z : InCommit(n, mem, z, C2, C3, C4)
      BY <1>2, <1>6, <2>2, <2>6, Zenon DEF Knows
    <3>2. ~Convicted(C2, C3, C4, h)
      BY <2>4, Zenon
    <3>3. /\ Unanswered(C3, C4, h) # {}
          /\ mem[h].complaintsFromOthers = Unanswered(C3, C4, h)
      BY <1>9, <1>12, <3>1, <3>2, Zenon DEF InCommit
    <3>4. PICK x : x \in Unanswered(C3, C4, h)
      BY <3>3, Zenon
    <3>5. x \in Members
      BY <1>2, <3>4, MessageKinds, Zenon DEF Unanswered, Accusers, At
    <3>6. Begun(u, v, 4)
      BY <1>8, <1>10, <2>6
    <3>7. Convicted(C2, C3, C4, x)
      BY <1>2, <1>11, <2>2, <3>4, <3>6, Zenon DEF Says, Unanswered
    <3>8. mem[x].bad
      BY <3>1, <3>5, <3>7, Zenon DEF InCommit
    <3> QED
      BY <1>2, <3>3, <3>4, <3>8, Zenon
  <2> QED
    BY <1>5, <1>16, <2>5, <2>6
<1> QED
  BY <1>5, <1>14, <1>15, <1>16, SMTT(100)

\* In every run: as long as every message reaches every honest member in its phase
\* and no member complains twice, an honest member takes another for bad only over
\* a complaint of a member that it takes for bad itself.
THEOREM HonestStayValidHolds == Spec => []HonestStayValid
  BY CleanAlways, CleanValid, PTL

\* And the session of enough honest members has a final commitment.
LEMMA CleanSucceeds == TypeInv /\ Clean => SessionSucceeds
<1> SUFFICES ASSUME TypeInv, Clean, Undisturbed, Cardinality(Honest) >= minSize,
                    \A n, h \in Honest : ~member[n][h].bad,
                    NEW n \in Honest, phase[n] = PhaseFinalize
             PROVE  \E f \in final[n] : Verify(f)
  BY Zenon DEF SessionSucceeds
<1> USE DEF PhaseContribute, PhaseComplain, PhaseJustify, PhaseCommit, PhaseFinalize
<1>1. PICK M \in SUBSET Messages : Trace(M)
  BY Zenon DEF Clean, Undisturbed
<1>2. PICK s, mem, T, vd, fi, C2, C3, C4 :
        /\ s = started[n] /\ mem = member[n] /\ T = seen[n] /\ vd = valid[n] /\ fi = final[n]
        /\ C2 = At(M, 2) /\ C3 = At(M, 3) /\ C4 = At(M, 4)
  BY Zenon
<1>3. Part(n, 6, s, mem, T, vd, fi, M)
  BY <1>1, <1>2, Zenon DEF Trace
<1>4. Knows(n, 6, s, mem, T, M)
  BY <1>3, Zenon DEF Part
<1>5. Told(mem, C3)
  BY <1>2, <1>4, SMTT(100) DEF Knows
<1>6. Single(C3)
  BY <1>2, <1>5, Zenon DEF Told, Undisturbed
<1>7. InCommit(n, mem, TRUE, C2, C3, C4)
  <2>1. InCommit(n, mem, s \/ 6 = 6, C2, C3, C4)
    BY <1>2, <1>4, <1>6, SMTT(100) DEF Knows
  <2>2. (s \/ 6 = 6) = TRUE
    BY Zenon
  <2> QED
    BY <2>1, <2>2, Zenon
<1>8. Honest \subseteq Accepted(C2, C3, C4)
  <2> SUFFICES ASSUME NEW h \in Honest PROVE h \in Accepted(C2, C3, C4)
    BY Zenon
  <2>1. h \in Members /\ ~mem[h].bad
    BY <1>2, DKGAssumption, Zenon
  <2> QED
    BY <1>7, <2>1, Zenon DEF InCommit, Accepted
<1>9. Agreed(M)
  BY <1>2, <1>6, <1>8, Zenon DEF Agreed
<1> QED
  BY <1>2, <1>3, <1>9, Zenon DEF Part

\* In every run: as long as every message reaches every honest member in its phase,
\* no member complains twice and the honest members are valid and enough, a member
\* that is through with the session has a final commitment that verifies.
THEOREM SessionSucceedsHolds == Spec => []SessionSucceeds
  BY CleanAlways, CleanSucceeds, PTL

=============================================================================
