----------------------------- MODULE Collector -----------------------------
(***************************************************************************)
(* The collector (src/src/mainChainManager/mod.rs): the Manager thread's   *)
(* loop, the per-block job threads of collect_cmt_chunks, the scale nodes' *)
(* ScaleGetAllChunks handler that answers them (performer.rs), and the     *)
(* local chain (blockchain.rs).                                            *)
(*                                                                         *)
(* A block is its contract block id.  A chunk is the number of base       *)
(* symbols its shard carries, or NoChunk when the node's BlockDb has no   *)
(* chunk for the block.  Every scale node answers a broadcast once and    *)
(* the shards of get_sample_index are disjoint, so the dedupe merge adds  *)
(* the new symbols and a job's collection is their number.  Requests and  *)
(* replies in flight are bags: replies of different peers reach the       *)
(* performer in any order.  The                                           *)
(* hashes in ContractState and the decoded transactions are abstracted     *)
(* away; a block whose decoding fails (run_tree_decoder returns Err) is in *)
(* Bad.                                                                    *)
(***************************************************************************)
EXTENDS Naturals, Sequences, FiniteSets, Functions, Bags

CONSTANTS
    NScale,    \* num_nodes: scale ids 1 .. NScale
    NumSym,    \* NUM_BASE_SYMBOL: base symbols of a block
    Ids,       \* block ids the contract may accept (positive numbers)
    Bad,       \* blocks run_tree_decoder rejects (incorrect coding, stopping set)
    Holders    \* block -> the scale nodes whose BlockDb has its chunk

ASSUME /\ NScale \in Nat \ {0} /\ NumSym \in Nat \ {0} /\ NScale <= NumSym
       /\ Ids \subseteq Nat \ {0} /\ Bad \subseteq Ids
       /\ Holders \in [Ids -> SUBSET (1 .. NScale)]

Scale == 1 .. NScale
Genesis == 0        \* ContractState::default(), the first state of the chain
NoChunk == 0        \* a ScaleGetAllChunksReply carrying None

VARIABLES
    contract,  \* the states the contract has gone through (block ids)
    chain,     \* BlockChain.blockchain (block ids), genesis first
    senders,   \* the keys of Manager.chunk_senders
    register,  \* the keys of register_blocks
    ready,     \* the keys of ready_blocks
    sinks,     \* the keys of blocks_sink
    longest,   \* longest_id
    mpc,       \* the Manager loop: "sinks", "dispatch", "poll" or "panicked"
    reqs,      \* bag of <<block, chunk>>: ScaleGetAllChunks not yet answered,
               \* with the chunk the asked node's BlockDb holds
    msink,     \* bag of <<block, chunk>>: replies forwarded to manager_sink
    jobq,      \* block -> the chunks in the job's chunk channel
    coll,      \* block -> the number of base symbols the job collected
    results,   \* blocks whose job sent Ok(sblock) into its block sink
    exited     \* blocks whose job thread has returned

vars == <<contract, chain, senders, register, ready, sinks, longest, mpc,
          reqs, msink, jobq, coll, results, exited>>

\* A set of numbers as the ascending sequence of its elements.
Ascending(S) == [k \in 1 .. Cardinality(S) |->
                    CHOOSE e \in S : Cardinality({x \in S : x < e}) = k - 1]

MaxOf(a, b) == IF a >= b THEN a ELSE b

\* The current contract state's block id (genesis before any vote).
CurrState == IF contract = <<>> THEN Genesis ELSE contract[Len(contract)]
Tip == chain[Len(chain)]

\* get_sample_index: scale id s (from 1) gets indices
\* (s-1)*ceil(n/N) .. min(s*ceil(n/N), n) - 1.
PerNode == (NumSym + NScale - 1) \div NScale
PerNodeOf(s) == PerNode

(***************************************************************************)
(* Plausible faults: a chain update whose loop starts at the tip itself,  *)
(* a sufficiency test that can never pass, a last shard not clamped to   *)
(* the number of symbols, and a chain update that re-appends every ready *)
(* block rather than those beyond the tip.                                *)
(***************************************************************************)
ChainUpdateFromTip(ch, rdy, lg) ==
    ch \o Ascending({i \in rdy : i >= ch[Len(ch)] /\ i <= lg})
SufficientAll(c) == FALSE
ChainUpdateAllReady(ch, rdy, lg) ==
    ch \o Ascending({i \in rdy : i <= lg})
ShardSizeUnclamped(s) == PerNodeOf(s)

-----------------------------------------------------------------------------

ShardSize(s) ==
    LET start == (s - 1) * PerNode
        stop  == IF s * PerNode > NumSym THEN NumSym ELSE s * PerNode
    IN  IF stop > start THEN stop - start ELSE 0

\* is_sufficient_symbols: len > NUM_BASE_SYMBOL * UNDECODABLE_RATIO (0.9).
Sufficient(c) == 10 * c > 9 * NumSym

\* ScaleGetAllChunks on scale node s: get_chunk finds the sample the node
\* stored for the block, or None.
Chunk(s, b) == IF s \in Holders[b] THEN ShardSize(s) ELSE NoChunk

\* The broadcast of ScaleGetAllChunks for block b, as a bag of the answers
\* it will produce.
Broadcast(b) == [m \in {<<b, Chunk(s, b)>> : s \in Scale} |->
                    Cardinality({s \in Scale : Chunk(s, b) = m[2]})]

\* The chain update after a job finished: for i in tip+1 ..= longest_id,
\* append the ready block i, skipping the ids that are not ready.
ChainUpdate(ch, rdy, lg) ==
    LET new == Ascending({i \in rdy : i > ch[Len(ch)] /\ i <= lg})
    IN  ch \o new

\* Manager::new: no chunk_senders.
ManagerNew == senders = {}

Init ==
    /\ contract = <<>>
    /\ chain = <<Genesis>>
    /\ ManagerNew
    /\ register = {} /\ ready = {} /\ sinks = {}
    /\ longest = 0
    /\ mpc = "sinks"
    /\ reqs = EmptyBag /\ msink = EmptyBag
    /\ jobq = [b \in Ids |-> <<>>]
    /\ coll = [b \in Ids |-> 0]
    /\ results = {} /\ exited = {}

\* The contract accepts a vote for a block with a later id (the host-chain
\* contract is not in the repository).
Submit(b) ==
    /\ b > CurrState
    /\ contract' = Append(contract, b)
    /\ UNCHANGED <<chain, senders, register, ready, sinks, longest, mpc,
                   reqs, msink, jobq, coll, results, exited>>

\* A scale node's performer answers ScaleGetAllChunks from its BlockDb
\* (get_chunk), and the collector's performer forwards the
\* ScaleGetAllChunksReply to manager_sink.
ScaleGetAllChunks(m) ==
    /\ BagIn(m, reqs)
    /\ reqs' = reqs (-) SetToBag({m})
    /\ msink' = msink (+) SetToBag({m})
    /\ UNCHANGED <<contract, chain, senders, register, ready, sinks, longest,
                   mpc, jobq, coll, results, exited>>

\* The Manager visits blocks_sink: a finished job's Ok(sblock) moves the
\* block from register_blocks to ready_blocks, the chain is updated, and
\* the sink is removed.
CheckSink(b) ==
    /\ mpc = "sinks"
    /\ b \in sinks \cap results
    /\ sinks' = sinks \ {b}
    /\ register' = register \ {b}
    /\ ready' = ready \cup {b}
    /\ chain' = ChainUpdate(chain, ready \cup {b}, longest)
    /\ UNCHANGED <<contract, senders, longest, mpc, reqs, msink, jobq, coll,
                   results, exited>>

\* Every sink with a result has been visited.
SinksDone ==
    /\ mpc = "sinks"
    /\ sinks \cap results = {}
    /\ mpc' = "dispatch"
    /\ UNCHANGED <<contract, chain, senders, register, ready, sinks, longest,
                   reqs, msink, jobq, coll, results, exited>>

\* The job distributor: at most one pair is taken from manager_sink and
\* sent to the block's chunk channel with send(chunk).unwrap(); the send
\* fails, and the unwrap panics the Manager thread, once the job thread
\* has returned and dropped the receiver.
Dispatch ==
    /\ mpc = "dispatch"
    /\ \/ /\ msink = EmptyBag
          /\ mpc' = "poll"
          /\ UNCHANGED <<msink, jobq>>
       \/ \E m \in BagToSet(msink) :
            /\ msink' = msink (-) SetToBag({m})
            /\ IF m[1] \notin senders
               THEN mpc' = "poll" /\ UNCHANGED jobq
               ELSE IF m[1] \in exited
               THEN mpc' = "panicked" /\ UNCHANGED jobq
               ELSE mpc' = "poll" /\ jobq' = [jobq EXCEPT ![m[1]] = Append(@, m[2])]
    /\ UNCHANGED <<contract, chain, senders, register, ready, sinks, longest,
                   reqs, coll, results, exited>>

\* GetCurrState: if the contract's current state differs from the chain
\* tip and no job exists for it, register it, raise longest_id, spawn
\* collect_cmt_chunks and broadcast ScaleGetAllChunks.
Poll ==
    /\ mpc = "poll"
    /\ mpc' = "sinks"
    /\ LET st == CurrState
       IN  IF st # Tip /\ st \notin senders
           THEN /\ register' = register \cup {st}
                /\ sinks' = sinks \cup {st}
                /\ senders' = senders \cup {st}
                /\ longest' = MaxOf(longest, st)
                /\ reqs' = reqs (+) Broadcast(st)
           ELSE UNCHANGED <<register, sinks, senders, longest, reqs>>
    /\ UNCHANGED <<contract, chain, ready, msink, jobq, coll, results, exited>>

\* collect_cmt_chunks receives a chunk: Some(chunk) is merged, and when the
\* symbols are sufficient the block is decoded; Ok is sent to the block
\* sink and the thread returns, Err is ignored and the job keeps waiting.
JobRecv(b) ==
    /\ b \in senders \ exited
    /\ jobq[b] # <<>>
    /\ LET c  == Head(jobq[b])
           c2 == coll[b] + c
           ok == c # NoChunk /\ Sufficient(c2) /\ b \notin Bad
       IN  /\ jobq' = [jobq EXCEPT ![b] = Tail(@)]
           /\ coll' = [coll EXCEPT ![b] = c2]
           /\ results' = IF ok THEN results \cup {b} ELSE results
           /\ exited' = IF ok THEN exited \cup {b} ELSE exited
    /\ UNCHANGED <<contract, chain, senders, register, ready, sinks, longest,
                   mpc, reqs, msink>>

Next ==
    \/ \E b \in Ids : Submit(b)
    \/ \E m \in BagToSet(reqs) : ScaleGetAllChunks(m)
    \/ \E b \in Ids : CheckSink(b)
    \/ SinksDone
    \/ Dispatch
    \/ Poll
    \/ \E b \in Ids : JobRecv(b)

\* The Manager loop, the scale nodes' performers and the job threads keep
\* running; the contract may stop accepting votes at any time.
Fairness ==
    /\ WF_vars(SinksDone) /\ WF_vars(Dispatch) /\ WF_vars(Poll)
    /\ \A b \in Ids : WF_vars(CheckSink(b)) /\ WF_vars(JobRecv(b))
    /\ WF_vars(\E m \in BagToSet(reqs) : ScaleGetAllChunks(m))

Spec == Init /\ [][Next]_vars /\ Fairness

-----------------------------------------------------------------------------

TypeOK ==
    /\ contract \in Seq(Ids) /\ chain \in Seq({Genesis} \cup Ids)
    /\ senders \subseteq Ids /\ register \subseteq Ids /\ ready \subseteq Ids
    /\ sinks \subseteq Ids /\ longest \in {0} \cup Ids
    /\ mpc \in {"sinks", "dispatch", "poll", "panicked"}
    /\ IsABag(reqs) /\ BagToSet(reqs) \subseteq Ids \X (0 .. NumSym)
    /\ IsABag(msink) /\ BagToSet(msink) \subseteq Ids \X (0 .. NumSym)
    /\ coll \in [Ids -> 0 .. NumSym]
    /\ results \subseteq Ids /\ exited \subseteq Ids

\* The local chain is the genesis followed by blocks the contract accepted
\* and the collector decoded, in strictly increasing id order: the chain
\* update neither appends a block twice nor out of order.
ChainFollowsContract ==
    /\ chain[1] = Genesis
    /\ \A i \in 1 .. Len(chain) - 1 : chain[i] < chain[i + 1]
    /\ \A i \in 2 .. Len(chain) : chain[i] \in Range(contract) \cap ready

\* Every block the contract accepted, up to the chain tip, is in the local
\* chain: the collector does not skip a block (spec: collectors observe
\* the contract's state changes and decode every block).
ChainHasNoGaps ==
    \A i \in DOMAIN contract : contract[i] <= Tip => contract[i] \in Range(chain)

\* The Manager thread never panics on a chunk for a finished job.
ManagerNeverPanics == mpc # "panicked"

\* Every correctly coded block the Manager starts a job for is eventually
\* decoded and handed to the chain update.
EveryJobCompletes == \A b \in Ids \ Bad : (b \in senders) ~> (b \in ready)

-----------------------------------------------------------------------------

\* The refinement mapping: the contract's states are the accepted blocks,
\* the blocks whose job sent Ok(sblock) are the decoded ones.
LC == INSTANCE LocalChain WITH accepted <- contract, decoded <- results

\* The Manager's chain update implements the collector's promise: the
\* local chain only ever grows, by blocks the contract accepted and a job
\* decoded, appended in increasing id order beyond the tip, and a job
\* decodes only a block the contract accepted (GetCurrState polls).
ImplementsLocalChain == LC!Spec

=============================================================================
