-------------------------- MODULE MCAggregationLink --------------------------
(***************************************************************************)
(* Aggregation composed with the TCP link from one other scale node,     *)
(* LinkPeer, to this node (PeerLink).  LinkPeer's aggregator thread       *)
(* broadcasts its MySign for each header with PeerHandle::write; the      *)
(* bytes go through the link, and process_readable hands each MySign to   *)
(* this node's performer, which handles its task channel in order: the    *)
(* performer's MySignUpdate for LinkPeer takes LinkPeer's MySigns in the  *)
(* order the link delivered them.  The other scale nodes' MySigns come as *)
(* in Aggregation.                                                        *)
(***************************************************************************)
EXTENDS Aggregation, PeerLink

CONSTANTS
    LinkPeer, \* the scale id whose connection to this node is modelled
    h1, h2    \* the headers, model values

ASSUME LinkPeer \in ScaleIds \ {Self}

\* The serialized MySign of each header: messages of different lengths.
MCPayload == [h \in Hdrs |-> IF h = h1 THEN <<1>> ELSE <<2, 2>>]

allVars == <<vars, linkVars>>

\* LinkPeer's MySigns the performer has handled.
HandledFromLink == {g \in Hdrs : LinkPeer \notin pending[g]}

\* A step of the performer handles LinkPeer's MySign for h only when it is
\* the next of LinkPeer's messages the link handed to the task channel.
FromLink ==
    \A h \in Hdrs :
        (LinkPeer \in pending[h] /\ LinkPeer \notin pending'[h]) =>
            LET k == Cardinality(HandledFromLink)
            IN  k < Len(recvd) /\ recvd[k + 1] = h

NodeStep(A) == A /\ FromLink /\ UNCHANGED linkVars
LinkOnly(A) == A /\ UNCHANGED vars

LinkedNext ==
    \/ NodeStep(Next)
    \/ LinkOnly(LinkStep)
    \/ \E h \in Hdrs : LinkOnly(Enqueue(h))

\* Aggregation's fairness, stated for the composed steps; the link's two
\* server threads keep polling; LinkPeer, a correct node, signs every
\* header.
LinkedFairness ==
    /\ \A h \in Hdrs : /\ WF_allVars(NodeStep(ProposeBlock(h)))
                       /\ WF_allVars(NodeStep(ScaleReqChunks(h)))
                       /\ WF_allVars(NodeStep(ScaleReqChunksReply(h)))
                       /\ WF_allVars(NodeStep(ChunkRecv(h)))
                       /\ WF_allVars(NodeStep(OwnSign(h)))
                       /\ WF_allVars(LinkOnly(Enqueue(h)))
    /\ \A h \in Hdrs, j \in ScaleIds : WF_allVars(NodeStep(MySignUpdate(h, j)))
    /\ WF_allVars(NodeStep(MySignRemove))
    /\ WF_allVars(LinkOnly(LinkStep))

\* main builds the node's performer, and register_peer the connection.
LinkedInit == Init /\ LinkInit

LinkedSpec == LinkedInit /\ [][LinkedNext]_allVars /\ LinkedFairness

=============================================================================
