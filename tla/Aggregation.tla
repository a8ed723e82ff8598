----------------------------- MODULE Aggregation -----------------------------
(***************************************************************************)
(* One scale node's sampling and vote aggregation for the headers of     *)
(* concurrent blocks (src/src/network/performer.rs).                       *)
(*                                                                         *)
(* Sampling: the node handles the proposer's ProposeBlock by recording a   *)
(* channel in proposal_by, asking the proposer for its shard              *)
(* (ScaleReqChunks, answered from the proposer's mempool with             *)
(* get_cmt_sample) and spawning an aggregator thread; the performer hands *)
(* the ScaleReqChunksReply to that thread, which stores it in its BlockDb *)
(* (ScaleStore) and counts its base-layer symbols against chunk_thresh.   *)
(*                                                                         *)
(* Two threads share agg_sig behind one mutex:                            *)
(*  - the aggregator thread: once its count exceeds chunk_thresh, it      *)
(*    signs, broadcasts MySign and, under the lock, adds its own          *)
(*    signature (and may submit the vote);                                *)
(*  - the performer thread, which handles the MySign of every other scale *)
(*    node in two lock sections: update (and maybe submit), then, after   *)
(*    re-taking the lock, remove the entry.                               *)
(* The other nodes' MySign messages arrive in any order, and the blocks  *)
(* of consecutive slots overlap: agg_sig holds one entry per header.      *)
(***************************************************************************)
EXTENDS AggSig, Naturals, Sequences, FiniteSets

CONSTANTS
    N,      \* num_nodes: number of scale nodes (scale ids 1..N)
    Self,   \* this node's scale_id
    Hdrs,   \* the header strings of the blocks being signed
    THRESH  \* BlockDb.thresh of this node's sample store

ScaleIds == 1 .. N

ASSUME N \in 1 .. 63 /\ Self \in ScaleIds

VARIABLES
    aggsig,   \* agg_sig: header -> [sig, bitset]
    pending,  \* header -> scale ids whose MySign the performer has not handled
    own,      \* header -> its aggregator thread: "none" before ProposeBlock,
              \* "wait" before its vote, "done" after
    avail,    \* header -> the shard's way: "req" (ScaleReqChunks in flight),
              \* "reply" (reply in flight), "chan" (in the thread's channel),
              \* "got" (received and stored)
    pc,       \* performer: [at |-> "idle"] or [at |-> "remove", hdr |-> h]
              \* between its two lock sections
    votes,    \* SubmitVote handles sent to the contract thread, in order
    blockRecord, symbolCF   \* the node's BlockDb (ScaleStore)

storeVars == <<blockRecord, symbolCF>>
vars == <<aggsig, pending, own, avail, pc, votes, storeVars>>

Store == INSTANCE ScaleStore WITH Ids <- Hdrs

Thr == Threshold(N)

\* The vote a thread hands to the contract thread: the aggregate it holds
\* for the header.
VoteOf(h, e, who) == [hdr |-> h, by |-> who, sig |-> e.sig, bitset |-> e.bitset]

\* The votes submitted for header h.
VotesFor(h) == {i \in DOMAIN votes : votes[i].hdr = h}

\* performer::new: an empty agg_sig and proposal_by; perform() waits on
\* its task channel.
PerformerNew ==
    /\ aggsig = <<>>
    /\ own = [h \in Hdrs |-> "none"]
    /\ avail = [h \in Hdrs |-> "none"]
    /\ pc = [at |-> "idle"]

\* main: a scale node builds its BlockDb and performer; the other scale
\* nodes' MySign messages are still to come, and no vote is submitted.
Init ==
    /\ PerformerNew
    /\ pending = [h \in Hdrs |-> ScaleIds \ {Self}]
    /\ votes = <<>>
    /\ Store!Init

\* decide_node: the proposer is looked up among the side nodes, and the
\* test that it owns the current slot is commented out, so every side
\* node's proposal is taken.
DecideNode(h) == TRUE

\* Performer, ProposeBlock(proposer, block_id, header) with scale_id > 0
\* and decide_node true: record the
\* channel in proposal_by, send ScaleReqChunks to the proposer and spawn
\* the aggregator thread.
ProposeBlock(h) ==
    /\ own[h] = "none"
    /\ DecideNode(h)
    /\ own' = [own EXCEPT ![h] = "wait"]
    /\ avail' = [avail EXCEPT ![h] = "req"]
    /\ UNCHANGED <<aggsig, pending, pc, votes, storeVars>>

\* The proposer's performer, ScaleReqChunks: get_cmt_sample finds the
\* shard that propose_block stored with insert_symbols before it
\* broadcast the proposal, and replies with it.
ScaleReqChunks(h) ==
    /\ avail[h] = "req"
    /\ avail' = [avail EXCEPT ![h] = "reply"]
    /\ UNCHANGED <<aggsig, pending, own, pc, votes, storeVars>>

\* Performer, ScaleReqChunksReply: proposal_by has the channel of the
\* (proposer, block_id) pair; the shard is sent on it.
ScaleReqChunksReply(h) ==
    /\ avail[h] = "reply"
    /\ avail' = [avail EXCEPT ![h] = "chan"]
    /\ UNCHANGED <<aggsig, pending, own, pc, votes, storeVars>>

\* Aggregator thread, rx.recv(): insert_cmt_sample and num_chunk +=
\* get_num_base_symbols.  One reply comes per proposal, so num_chunk is
\* the size of the node's shard.
ChunkRecv(h) ==
    /\ avail[h] = "chan"
    /\ avail' = [avail EXCEPT ![h] = "got"]
    /\ Store!InsertCmtSample(h)
    /\ UNCHANGED <<aggsig, pending, own, pc, votes>>

\* num_chunk > chunk_thresh once the shard is in.
Enough(h) == avail[h] = "got" /\ SampleCount(Self, N) > ChunkThresh(N)

\* Aggregator thread, after num_chunk > chunk_thresh: sign, broadcast
\* MySign, then lock agg_sig, add the own signature and maybe submit.
OwnSign(h) ==
    /\ own[h] = "wait"
    /\ Enough(h)
    /\ own' = [own EXCEPT ![h] = "done"]
    /\ aggsig' = OwnSignAgg(aggsig, h, Self)
    /\ votes' = IF OwnSignVote(aggsig, h, Self, Thr)
                THEN Append(votes, VoteOf(h, aggsig'[h], "thread"))
                ELSE votes
    /\ UNCHANGED <<pending, avail, pc, storeVars>>

\* Performer, MySign from scale node j: first lock section, then the
\* threshold test and SubmitVote on the local copy of the bitset.
MySignUpdate(h, j) ==
    /\ pc.at = "idle"
    /\ j \in pending[h]
    /\ pending' = [pending EXCEPT ![h] = @ \ {j}]
    /\ aggsig' = MySignAgg(aggsig, h, j)
    /\ IF MySignVote(aggsig, h, j, Thr)
       THEN /\ votes' = Append(votes, VoteOf(h, aggsig'[h], "performer"))
            /\ pc' = [at |-> "remove", hdr |-> h]
       ELSE /\ UNCHANGED pc
            /\ UNCHANGED votes
    /\ UNCHANGED <<own, avail, storeVars>>

\* Performer, second lock section after submitting: remove the entry.
MySignRemove ==
    /\ pc.at = "remove"
    /\ pc' = [at |-> "idle"]
    /\ aggsig' = RemoveEntry(aggsig, pc.hdr)
    /\ UNCHANGED <<pending, own, avail, votes, storeVars>>

\* Every MySign handled and every shard received; each aggregator thread
\* has voted or, its count not above chunk_thresh, waits on rx.recv() for
\* a reply that does not come.  The threads wait on their channels.
Finished ==
    /\ \A h \in Hdrs : /\ pending[h] = {}
                      /\ avail[h] = "got"
                      /\ (own[h] = "done" \/ ~Enough(h))
    /\ pc.at = "idle"
    /\ UNCHANGED vars

Next ==
    \/ \E h \in Hdrs : ProposeBlock(h) \/ ScaleReqChunks(h) \/ ScaleReqChunksReply(h)
    \/ \E h \in Hdrs : ChunkRecv(h)
    \/ \E h \in Hdrs : OwnSign(h)
    \/ \E h \in Hdrs, j \in ScaleIds : MySignUpdate(h, j)
    \/ MySignRemove
    \/ Finished

\* The performer loops on its task channel, the aggregator thread runs
\* once its shard is in, the peers' TCP links deliver, and the side node
\* proposes each block: none stops while it has work.
Fairness ==
    /\ \A h \in Hdrs : WF_vars(ProposeBlock(h)) /\ WF_vars(ScaleReqChunks(h))
    /\ \A h \in Hdrs : WF_vars(ScaleReqChunksReply(h)) /\ WF_vars(ChunkRecv(h))
    /\ \A h \in Hdrs : WF_vars(OwnSign(h))
    /\ WF_vars(MySignRemove)
    /\ \A h \in Hdrs, j \in ScaleIds : WF_vars(MySignUpdate(h, j))

Spec == Init /\ [][Next]_vars /\ Fairness

-----------------------------------------------------------------------------

TypeOK ==
    /\ DOMAIN aggsig \subseteq Hdrs
    /\ \A h \in DOMAIN aggsig :
         /\ aggsig[h].bitset \in 0 .. 2^(N + 1) - 1
         /\ IsABag(aggsig[h].sig) /\ BagToSet(aggsig[h].sig) \subseteq ScaleIds
    /\ pending \in [Hdrs -> SUBSET (ScaleIds \ {Self})]
    /\ own \in [Hdrs -> {"none", "wait", "done"}]
    /\ avail \in [Hdrs -> {"none", "req", "reply", "chan", "got"}]
    /\ Store!TypeOK
    /\ pc \in {[at |-> "idle"]} \cup [at : {"remove"}, hdr : Hdrs]
    /\ \A i \in DOMAIN votes : votes[i].hdr \in Hdrs /\ votes[i].by \in {"thread", "performer"}

\* The quorum the spec asks of a submitted vote: popcount(bitset) >=
\* ceil(UNDECODABLE_RATIO * num_scale_nodes), stated independently of the
\* code's Threshold.
Quorum == CHOOSE q \in 0 .. N : 10 * q >= 9 * N /\ 10 * (q - 1) < 9 * N

\* The set of scale ids whose bits are set in a bitset.
BitsOf(x) == {s \in 0 .. N + 1 : (x \div 2^s) % 2 = 1}

\* _count_sig, which both threads use for the threshold test, agrees with
\* the number of bits set (the reference definition of popcount) on every
\* bitset held in agg_sig or handed to the contract.
CountSigIsPopcount ==
    LET held == {aggsig[h].bitset : h \in DOMAIN aggsig}
                \cup {votes[i].bitset : i \in DOMAIN votes}
    IN  \A x \in held : CountSig(x) = Cardinality(BitsOf(x))

\* Every vote handed to the contract is verifiable: its bitset names
\* exactly the scale nodes whose signatures are in the aggregate, each
\* aggregated once, and they are a quorum.  This relates the two fields the
\* aggregator thread and the performer update under the lock.
VoteCarriesItsSigners ==
    \A i \in DOMAIN votes :
        LET v == votes[i] IN
        /\ BitsOf(v.bitset) = BagToSet(v.sig)
        /\ \A s \in BagToSet(v.sig) : CopiesIn(s, v.sig) = 1
        /\ Cardinality(BagToSet(v.sig)) >= Quorum

\* A node submits the aggregated vote for a header once: when the
\* threshold-th signature arrives; later MySigns are no-ops (spec 8,
\* scenario 6).  Two submissions need two threads to pass the threshold
\* test for the same header.
AtMostOneVote == \A h \in Hdrs : Cardinality(VotesFor(h)) <= 1

\* Every header whose signatures all reach the node is eventually voted on
\* by that node, whichever thread adds the last signature.
EventuallyVoted == \A h \in Hdrs : <>(VotesFor(h) # {})

\* Every scale node that is sent its shard signs the block: the aggregator
\* thread's count of the shard's base-layer symbols exceeds chunk_thresh
\* whichever scale id the node has (spec 4.6, step 3).
SampledNodeSigns == \A h \in Hdrs : <>(own[h] = "done")

=============================================================================
