---------------------------- MODULE MCDKGSession ----------------------------
(* Three honest members and a faulty one.                                   *)
EXTENDS DKGSession, TLC

CONSTANTS h1, h2, h3, f

MCContributions ==
    {[phase |-> PhaseContribute, from |-> f, vvec |-> c[1], fits |-> c[2]] :
        c \in {<<1, Members>>, <<2, {h1}>>}}

MCComplaints ==
    {[phase |-> PhaseComplain, from |-> f, bad |-> c[1], complain |-> c[2]] :
        c \in {<<{}, {h1}>>, <<{h1}, {h2, h3}>>}}

MCJustifications ==
    {[phase |-> PhaseJustify, from |-> f, shares |-> [m \in J[1] |-> J[2]]] :
        J \in {<<{h2, h3}, 1>>, <<{h2, h3}, 2>>}}

MCCommitments ==
    {[phase |-> PhaseCommit, from |-> f, sig |-> k[2],
      key |-> [m \in Members |-> IF m = f THEN k[1] ELSE OwnVvec]] :
        k \in {<<1, TRUE>>, <<2, TRUE>>, <<2, FALSE>>}}

MCFaultyMessages == MCContributions \cup MCComplaints \cup MCJustifications \cup MCCommitments

Symmetry == Permutations({h2, h3})

=============================================================================
