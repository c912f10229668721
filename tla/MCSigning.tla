----------------------------- MODULE MCSigning -----------------------------
(* Instances of Signing for TLC. *)
EXTENDS Signing, TLC

CONSTANTS a, b, c, x, q1

\* One quorum of two honest members and a Byzantine one.
ByzantineMembers == [q \in Quorums |-> {a, b, x}]

\* One quorum of two honest members; c learns of signatures from peers only.
RelayMembers == [q \in Quorums |-> {a, b}]

ByzantineSymmetry == Permutations({a, b}) \cup Permutations(MsgHashes)
=============================================================================
