---------------------------- MODULE DKGMessages ----------------------------
(***************************************************************************)
(* The queue of incoming messages of one kind of a key generation session  *)
(* (CDKGPendingMessages, llmq/quorums_dkgsessionhandler.cpp) and the batch *)
(* verification of their signatures.  The network thread pushes messages,  *)
(* the phase handler thread pops a batch, verifies it and hands to the     *)
(* session what passes.  A message is its content and whether its sender's *)
(* signature verifies; members of the quorum and the contents that         *)
(* PreVerifyMessage refuses are in DKGSession.                             *)
(***************************************************************************)
EXTENDS Integers, Sequences, SequencesExt

CONSTANTS
    Nodes,               \* peers
    Contents,            \* what a message says, all of it signed
    maxMessagesPerNode,  \* size * 2 in the code
    maxCount             \* messages popped in a batch, 8 in the code

VARIABLES
    pendingMessages,     \* sequence of records [node, msg]
    messagesPerNode,
    seenMessages,
    received,            \* messages handed to CDKGSession::ReceiveMessage
    misbehaving          \* peers reported to Misbehaving

vars == <<pendingMessages, messagesPerNode, seenMessages, received, misbehaving>>

Messages == [content : Contents, good : BOOLEAN]
Entries == [node : Nodes, msg : Messages]

Init ==
    /\ pendingMessages = <<>>
    /\ messagesPerNode = [p \in Nodes |-> 0]
    /\ seenMessages = {}
    /\ received = {}
    /\ misbehaving = {}

\* A message counts against its sender before it is looked up among the seen.
PushPendingMessage(from, msg) ==
    /\ messagesPerNode[from] < maxMessagesPerNode
    /\ messagesPerNode' = [messagesPerNode EXCEPT ![from] = @ + 1]
    /\ IF msg \in seenMessages
       THEN UNCHANGED <<pendingMessages, seenMessages>>
       ELSE /\ seenMessages' = seenMessages \cup {msg}
            /\ pendingMessages' = Append(pendingMessages, [node |-> from, msg |-> msg])
    /\ UNCHANGED <<received, misbehaving>>

\* Two messages with one content and different signatures are verified one by
\* one.  Otherwise the aggregate decides; when it fails, the loop that looks
\* whether all messages are from one node assigns firstNodeId in every
\* iteration and never compares it, so the node of the last message is returned.
BatchVerifyMessageSigs(batch) ==
    LET entries == ToSet(batch)
        revertToSingleVerification ==
            \E e, d \in entries : e.msg.content = d.msg.content /\ e.msg # d.msg
    IN  IF revertToSingleVerification
        THEN {e.node : e \in {d \in entries : ~d.msg.good}}
        ELSE IF \A e \in entries : e.msg.good THEN {} ELSE {Last(batch).node}

ProcessPendingMessageBatch ==
    LET count == IF Len(pendingMessages) < maxCount THEN Len(pendingMessages) ELSE maxCount
        batch == SubSeq(pendingMessages, 1, count)
        badNodes == BatchVerifyMessageSigs(batch)
    IN  /\ pendingMessages # <<>>
        /\ pendingMessages' = SubSeq(pendingMessages, count + 1, Len(pendingMessages))
        /\ received' = received \cup
               {e.msg : e \in {d \in ToSet(batch) : d.node \notin badNodes}}
        /\ misbehaving' = misbehaving \cup badNodes
        /\ UNCHANGED <<messagesPerNode, seenMessages>>

\* A new session starts with empty queues (HandleDKGRound).
Clear ==
    /\ pendingMessages' = <<>>
    /\ messagesPerNode' = [p \in Nodes |-> 0]
    /\ seenMessages' = {}
    /\ received' = {}
    /\ UNCHANGED misbehaving

Next ==
    \/ \E p \in Nodes, m \in Messages : PushPendingMessage(p, m)
    \/ ProcessPendingMessageBatch
    \/ Clear

Spec == Init /\ [][Next]_vars

\* Only a message whose signature verifies reaches the session: the batch
\* verification "returns a set of NodeIds which sent invalid messages", and the
\* messages of these are skipped.
OnlySignedReceived == \A m \in received : m.good

=============================================================================
