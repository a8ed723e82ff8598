# TLA+ models of ACeD

ACeD is a sidechain data-availability layer. Side nodes propose coded blocks in round-robin wall-clock slots. Scale nodes each sample one shard of a block, BLS-sign its header and aggregate the signatures. The aggregated vote is submitted to a contract on the host chain. A collector pulls the shards back from the scale nodes and decodes the block. This directory holds TLA+ models of the parts of the Rust code (`src/src`, `src/coded_merkle_tree/chain/src`) whose correctness depends on concurrency, ordering, timing or arithmetic boundaries. It also holds the TLC configurations that check them.

## The system and how its parts interact

Every node runs the same binary (`main.rs`) with these threads:

| Thread | Code | Role |
|---|---|---|
| networking | `network/server.rs`, `peer.rs` | mio event loop; reads length-prefixed frames into the performer's task channel; `ServerBroadcast` writes to every *outgoing* peer, so a node never receives its own broadcast |
| performer | `network/performer.rs` `perform` | one loop handling every message: `ProposeBlock`, `ScaleReqChunks`, `ScaleReqChunksReply`, `MySign`, `ScaleGetAllChunks(Reply)`, `SendTransaction` |
| aggregator (one per accepted `ProposeBlock`) | `performer.rs` 373-441 | waits for its shard, stores it, signs, broadcasts `MySign`, adds its own signature to `agg_sig`, and may submit the vote |
| scheduler (side nodes) | `mempool/scheduler.rs` `start` | prepares the next block when the mempool holds a full block, proposes it in the node's slot with `block_id = curr_slot + 1`, and aborts if the slot passed |
| contract | `contract/contract.rs` | serialises RPCs to the host chain (`SubmitVote`, `GetCurrState`) |
| collector manager and job threads | `mainChainManager/mod.rs` | polls the contract; per new block, broadcasts `ScaleGetAllChunks` and a job thread merges replies until the base layer is decodable, then runs the CMT decoder |

The shared state is guarded by mutexes: `agg_sig` (performer and aggregator threads), mempool (performer, scheduler), `BlockDb` (aggregator threads, performer), and the chain (collector).

A block goes through these steps:
1. mempool → `prepare_block`;
2. `propose_block` (`insert_symbols`, then the slot check, then broadcast `ProposeBlock`);
3. each scale node sends `ScaleReqChunks`;
4. the proposer replies with the node's shard (`get_cmt_sample`);
5. the aggregator thread counts base symbols and signs once the count exceeds `chunk_thresh`;
6. `MySign` is broadcast;
7. the signatures are aggregated into `agg_sig`;
8. `SubmitVote` is sent once `popcount(bitset) >= ceil(0.9 * num_nodes)`;
9. the contract state advances;
10. the collector sends `ScaleGetAllChunks`, merges the shards, and decodes with `TreeDecoder::run_tree_decoder`.

## Behaviours that make the code hard to test

- Two threads write `agg_sig`. Each submits a vote on a threshold test made outside the lock that changed the entry.
- The scheduler reads the slot, then stores samples, then re-reads the slot. Wall-clock time can pass between any two of these steps.
- Messages from different peers interleave arbitrarily in the performer's single task channel.
- A peer's frames are written and read in pieces, with `WouldBlock` in between, under edge-triggered events and a oneshot write queue re-armed only when the queue drains.
- The collector polls only the contract's *current* state. It appends decoded blocks to the chain in id order, but skips missing ids.
- The peeling decoder keeps three views of the same Tanner graph: `parities`, `parities_set` and `parity_degree`. Each step must keep them consistent.
- `parity_update` fans symbols out to 5 worker threads by `parity % 5` and collects their copies back by index arithmetic.
- There are boundary constants:
  - `tx_thresh = BLOCK_SIZE / 316 - 1`;
  - `num_trans - 1` in the decoder;
  - `chunk_thresh = 460 / num_nodes`, where the last shard is smaller than the others;
  - `is_sufficient_symbols` requires `len > 460.8`;
  - `BlockDb.thresh = 8`.

## Modules

| Module | Models | Status |
|---|---|---|
| `AggSig` | the operators both writers of `agg_sig` use (`performer.rs` 407-482), `utils::_count_sig`, and the shard size of `scheduler::get_sample_index` | done |
| `ScaleStore` | a scale node's `BlockDb`: `insert_cmt_sample` and its eviction | composed into `Aggregation` |
| `Aggregation`, `MCAggregation` | one scale node for overlapping blocks: `ProposeBlock`, `ScaleReqChunks`, the reply, the aggregator threads (store, chunk count, sign) and the performer's `MySign` handler, racing on `agg_sig` | done |
| `BlockPacking`, `MCBlockPacking` | a side node's transactions from the generator and the network through `insert_transactions`, `prepare_block`/`package_trans`, the slot scheduler and `propose_block`, to the collector's base-layer extraction | done |
| `PeelingDecoder` | `Decoder::encode` and one layer of `TreeDecoder::run_tree_decoder` over a `Decoder` on an (8,2) LDPC code | done (the 5 worker threads of `parity_update` with their private copies and index-based collection) |
| `CodedMerkleTree` | `next_index`, `symbol_to_hash`, `generate_merkle_proof`, and the top-down hand-over of hashes between layers in `run_tree_decoder` | done |
| `MCPeelingDecoder` | composes the two: the upper layers hand their hashes over, then the layer is peeled as the base | |
| `Collector`, `MCCollector` | the collector: `Manager::start`'s loop, the `collect_cmt_chunks` job threads, the scale nodes' `ScaleGetAllChunks` handler and the local `BlockChain` | done |
| `LocalChain` | abstract: what the collector promises of its chain (it only grows, by accepted and decoded blocks in increasing id order beyond the tip) | refined by `Collector` |
| `ErasureDecoder` | abstract: what a layer decoder promises (symbols are only learned, never overwritten; Ok only with every symbol known; Stopped only with one unknown; the result is final) | refined by `PeelingDecoder` |
| `PeerLink` | one peer connection: `PeerHandle::write`, the `LOCAL_TOKEN` and socket events of `Server::listen`, `process_writable` with `WriteContext::write`, `process_readable` with `ReadContext::read` | done (set-up, removal on EOF or error, and `ChanClosed` are left out) |
| `MCAggregationLink` | composes `Aggregation` with a `PeerLink` that carries the other scale node's `MySign`s to the performer | |
| `ContractClient`, `MCContractClient` | `ContractHandler`'s handle loop: `submit_vote`, `reset_chain`, `add_scale_node`, the queries and their answer channels, against the Ethereum node's nonce rules | done |

### Aggregation

State and code correspondence:
- `ProposeBlock(h)`, `ScaleReqChunks(h)`, `ScaleReqChunksReply(h)` and `ChunkRecv(h)` are the sampling path: the performer records the proposal and asks the proposer for the node's shard; the proposer answers from `get_cmt_sample`; the aggregator thread stores the shard through `ScaleStore` (`Store!InsertCmtSample`) and counts its base symbols. `SampleCount` is the size of the shard `get_sample_index` gives this scale id: the last shard is what is left of the base layer.
- `aggsig` is `Performer.agg_sig`, a header mapped to `[sig, bitset]`. A BLS signature is abstracted to the *bag* of signer ids, so aggregating a signature twice is visible.
- `own[h]` is the aggregator thread of header `h`. `OwnSign(h)` is lines 391-437 once the count exceeds `chunk_thresh`: sign, broadcast, lock, insert or aggregate, and submit if over the threshold.
- `MySignUpdate(h, j)` is the MySign handler's first lock section with its threshold test and submission (444-479). It leaves the performer at `pc.at = "remove"`. `MySignRemove` is the second lock section (480-482).
- `votes` is the sequence of `SubmitVote` handles sent to the contract thread.
- Every other scale node's `MySign` arrives exactly once (TCP, one broadcast per node), in any order.

`ScaleStore`: `blockRecord` is `BlockDb.block_record` and `symbolCF` the keys of the `SYMBOL` column family. When `block_record.len() > thresh`, `insert_cmt_sample` pops the oldest id and deletes it from the *default* column family, so the `SYMBOL` family is never trimmed.

Fairness: the performer loops on a channel, and each aggregator thread runs once its shard is in. Each of their actions is weakly fair.

### PeerLink and its composition with Aggregation

`PeerLink` is one TCP connection, from a sending node to a receiving one. Its state and actions correspond to the code as follows:
- `Enqueue(m)` is `PeerHandle::write`: `bincode::serialize` (a constant `Payload`, message to bytes) and a send on the write queue `wq`. `sent` records the messages in the order they were queued.
- `w` is the `WriteContext`: state, `len_buffer`, `msg_buffer`, `msg_length` and `written_length`. `PeerContextNew` starts it in `Payload` with nothing to write, so the first call takes a message.
- `qArmed` is the queue's edge|oneshot registration. `wInt` is the socket's writable interest, and `wEdge` a pending writable edge.
- `LocalEvent` is the `LOCAL_TOKEN` handler. The oneshot fires when the queue has a message and disarms, and the socket is re-registered readable|writable, which raises a writable edge.
- `WritableEvent` starts `process_writable`. The loop of `WriteContext::write` is split into its steps:
  - `WriteBytes`: a write takes 1 up to the free bytes of the slice still to write;
  - `WriteLengthDone`: the length is done;
  - `WriteNext`: flush, `try_recv`, and a new length prefix from `to_be_bytes`;
  - `WriteComplete`: the queue is empty, the socket is re-registered readable only, and the queue is re-armed;
  - `WriteBlocked`: `WouldBlock`, which `process_writable` ignores.
- `tcp` is the bytes in flight. The `BufWriter` and both socket buffers are merged into one path of `CAP` bytes.
- `r` is the `ReadContext`. `ReadableEvent` starts `process_readable`, and `ReadBytes` is one `ReadContext::read`: it reads into `buffer[read_length..msg_length]`, decodes the length with `from_be_bytes`, grows the buffer, and deserializes a whole payload into `recvd`, the performer's task channel. A payload no message serializes to panics the server thread (`rpc = "panicked"`). `ReadBlocked` is `WouldBlock`, which ends the loop.

`MCAggregationLink` composes the two modules. `LinkPeer`'s aggregator thread queues its `MySign` for each header on the link. The performer handles `LinkPeer`'s `MySign` for a header only when it is the next one the link delivered (`FromLink`), because `perform` takes its tasks in channel order. Every node step leaves the link unchanged, and every link step leaves the node unchanged.

Fairness: both server threads keep polling, and mio reports each raised edge for a registered interest, so the link's steps are weakly fair. `LinkPeer` is a correct node that signs every header, so `Enqueue` is weakly fair as well. Aggregation's fairness is restated on the composed steps.

### BlockPacking

All transactions have the fixed size `TRANSACTION_SIZE`, so a transaction is its arrival number and the mempool's `VecDeque` is the interval `head .. tail-1`. A block is the interval `[lo, hi)` of the transactions it holds, together with the `block_size` it was packed for.
- `MempoolNew`, `SchedulerNew` and `GeneratorNew` are the constructors `main.rs` calls.
- `Control(c)` is the API server's `/transaction-generator/*` endpoint, which sends a signal; `GenPause`, `GenStep`, `GenCont` and `GenSimulate` are the branches of `TransactionGenerator::start`. `Insert(n)` is `Mempool::insert_transactions`. The throttle holds insertion back while the pool holds `Throttle` transactions, and `MaxTx` bounds the transactions generated.
- `NetInsert` is the performer's `SendTransaction` handler (`Mempool::insert`), bounded by `MaxNet`.
- `ChangeSize(bs)` is `/mempool/change-size`: it sets `block_size` to any value of `Sizes`.
- `Tick` advances the wall-clock slot. `PrepareBlock` is `Scheduler::prepare_block` with `package_trans`: it skips while `num_tx <= tx_thresh`; otherwise it takes the prefix that fits `block_size` (`Packaged`) and pops it, or it drains the queue (`Popped`).
- `Schedule`, `ProposeBlock`, `FinalCheck`, `AfterSend` and `Wake` are the scheduler loop and `propose_block`. The block id is read from the slot, the samples are stored (`InsertSymbols`, a `HashMap` insert into `symbolsBy`), and the slot is re-read; a block whose slot has passed is dropped.
- `ServeReq(i)` is the proposer's performer answering a scale node's `ScaleReqChunks` for broadcast block `i` with `get_cmt_sample` (`GetCmtSample`; 0 stands for its `unreachable!()`).
- `DecodeBlock(i)` is the base-layer end of `run_tree_decoder`: `k * BASE_SYMBOL_SIZE` bytes are cut into `num_trans` records, of which `0 .. num_trans-2` are read (`Extract`).

No fairness is assumed, because only safety is checked here.

### PeelingDecoder and CodedMerkleTree

A symbol is one bit, and XOR is addition mod 2. The hash of a symbol is the symbol itself.
- `Init` is `Decoder::encode`, run with the *encoding* code: it peels the parity symbols from the `k` systematic bits, and with `correct = false` it flips the first parity symbol. The decoder then uses the denser *decoding* code of the same codewords, as the code files do. `recv` is any set of sample indices.
- `dec` holds the `Decoder` fields: `symbol_values` (`val`), `parity_values` (`pv`), `parity_degree` (`deg`), `degree_1_parities` (`d1`), `parities_set` (`pset`) and `num_decoded_symbols` (`ndec`).
- `Receive` is the layer entry of `run_tree_decoder`: `symbol_update_from_reception`, `parity_update`, `check_incorrect_coding` and the decoded test. `check_incorrect_coding` returns its error for the first parity in `NotZeroParities`; `NotZeroProof` is that error's payload (the parity's indices and the symbol values at them).
- `Peel` is one round of the loop while `progress`: `symbol_update_from_degree_1_parities`, which reads `parities[parity][0]` as the code does, then `parity_update` and the check. A hash mismatch ends in `"nothash"`.
- `Stop` returns the Empty symbols as a Stopped proof. `Returned` stutters on a result.
- `ParityUpdate` is `parity_update`: XOR and degree decrement per parity, and the parities that reach degree 1 appended in the order the loop reaches them. The new parity values come from `EngineValues`, the 5 worker threads of `start_parallel_engine`: `WorkerOf` sends a parity to thread `(j-1) % 5`, which XORs the new symbols into its private copy, and the collection loop takes index `i + k*5` (`CollectIdx`) from thread `i`'s copy. Copies are private and channels FIFO, so thread interleaving is invisible; what can go wrong is the index arithmetic, and `ParityValueIsKnownSum` checks it.
- `PeelRound` is one whole round of the loop body; `Peel` binds its outcome once.

`CodedMerkleTree` holds the index arithmetic as operators and the hand-over as state:
- `treeLayer` is the loop variable `i` of `run_tree_decoder`, which goes from the top down. `hashes` is `TreeDecoder.hashes` below the top; `TreeDecoder::new` fills it with default hashes.
- `DecodeLayer` sets `hashes[i-1] = symbol_to_hash(systematic symbols of i)`. A symbol of an upper layer is modelled as `AGGREGATE` slot labels `<<symbol, slot>>`, so a hash in the list names the slot it was read from.
- `MerkleProof` is `generate_merkle_proof`'s walk, with its running `k`.

In `MCPeelingDecoder` the upper layers hand their hashes over first, and then the (8,2) layer is peeled as the base.

Refinement: `ED == INSTANCE ErasureDecoder` maps `symbol_values` to the known symbols (`Empty` is unknown) and `pc` to the result (`"running"` until a result is returned). `ImplementsErasureDecoder == ED!Spec` is checked in `peel_pass`: neither reception nor any peeling round overwrites a recovered symbol, and the returned result is final.

Fairness: the decoder runs on a job thread that keeps executing, so the hand-over, `Peel` and `Stop` are weakly fair. `Receive` is the first step and has no fairness, so `Terminates` is stated from the peeling loop on: `pc = "peel" ~> pc \in Results`.

### Collector

`main.rs` leaves `manager.start()` commented out, so the shipped binary never runs the collector, although the spec says collectors decode every block. The model follows the code of `Manager::start` as written.
- The Manager thread's loop is three actions on `mpc`:
  - `CheckSink(b)` handles a finished job's `Ok` from `blocks_sink`. The block moves from `register_blocks` to `ready_blocks`, and `ChainUpdate` extends the chain with the ready ids in `tip+1 ..= longest_id`, in ascending order, skipping the missing ones. `SinksDone` ends the visit once no sink with a result is left.
  - `Dispatch` forwards at most one reply from `manager_sink` to its job's channel. The `unwrap` of that send panics when the job has returned (`mpc = "panicked"`); after that the Manager takes no step.
  - `Poll` reads `GetCurrState`. If the state differs from the tip and has no job, it registers the block, spawns the job and broadcasts `ScaleGetAllChunks`.
- `JobRecv(b)` is one iteration of `collect_cmt_chunks`: merge, `is_sufficient_symbols`, decode. `Ok` goes to the sink and the thread returns; `Err` is ignored.
- `ScaleGetAllChunks(m)` is a scale node's performer answering from its `BlockDb` (`Chunk`), followed by the collector's performer forwarding the reply to `manager_sink`.
- `Submit(b)` is the anchoring contract accepting a later block. The contract is not in the repository, so this step is modelled from the spec.
- Chunks are counted in base symbols. Requests and replies are bags, because replies from different peers reach the performer in any order.

Fairness: the Manager loop, the job threads and the scale nodes' performers keep running, so each has weak fairness. The contract has none, since it may stop accepting blocks.

Refinement: `LC == INSTANCE LocalChain WITH accepted <- contract, decoded <- results` maps the contract's states to the accepted blocks and the jobs' `Ok` results to the decoded ones; the chain maps to itself. `ImplementsLocalChain == LC!Spec` is checked as a property. It adds to `ChainFollowsContract` the step-wise part: no update rewrites or shortens the chain, and a job only ever decodes a block the contract accepted. The abstract spec promises nothing about skipped blocks, since the code skips them (the `collector_gap` run).

### ContractClient

One thread takes `Handle`s from the `contract_handle` channel in order (`Take`).
- For a transaction it reads the account's transaction count as the nonce, then signs and sends (`Send`).
- `reset_chain` and `add_scale_node` then wait for their receipt. The wait ends with `Receipt` or with `TimeOut` after 60 seconds. `submit_vote` does not wait.
- `Hand(m)` is another thread putting a handle on the channel: the aggregator's `SubmitVote`, the manager's or main's query, or one of the API server's request threads.
- The queries (`Queries`):
  - `get_curr_state`, `count_scale_nodes`, `get_scale_nodes`, `sync_etherchain` and `get_all` answer at once (`Answered`).
  - `GetTxReceipt` runs `get_tx_receipt` on the contract thread: it polls for the receipt of the vote's transaction, or of a hash no transaction has, until it is mined or 60 s pass (`Deadline`). It never answers.
  - `AddSideNode` does nothing.
  - The `Handle` is dropped when its arm returns (`Drop`). A sender blocked on `answer_rx.recv()` (`Awaits`) then gets a disconnected channel.
  - `reply[m]` is what that `recv` returned: `"ok"`, `"broken"`, or `"none"` while it still blocks. So `/contract/get-tx-receipt` always reports "contract channel broken", even when the receipt exists.
- The Ethereum node is modelled by the rules the client relies on:
  - the count is that of mined transactions;
  - a lower nonce is refused;
  - a transaction with the same nonce replaces a pending one only with a 10% higher gas price;
  - `Mine` mines pending transactions in nonce order.
- `lost` records refused transactions, together with whether one was pending when the nonce was read.

Fairness: the client thread and mining keep going. `TimeOut` is weakly fair too: the poll loop re-reads the wall clock on every pass, so a missing receipt ends in the timeout.

## Runs

| Run | Config | Expect | What it shows |
|---|---|---|---|
| `agg_link_n2` | `MCAggregationLink_n2.cfg`: 2 scale nodes, node 1, its `MySign`s from node 2 over the link; headers `{h1, h2}` whose `MySign`s serialize to 1 and 2 bytes; store threshold 1; a 2-byte write path | pass | every submitted vote's bitset names exactly the aggregated signers, each once, a quorum; each header is eventually voted and signed; `_count_sig` is popcount on every bitset; the link hands the performer exactly the queued `MySign`s, in order, over any split of frames into partial writes and reads, and never panics the reader (`LinkIsFifo`); every queued `MySign` is delivered (`LinkDelivers`) |
| `agg_n10_double_vote` | `MCAggregation_n10.cfg`: 10 nodes, one header | violation of `AtMostOneVote` | the threshold is 9 < 10 nodes. The thread's vote does not remove the entry, so a later `MySign` submits again; the drop/remove window of the MySign handler gives a second route |
| `agg_last_shard` | `MCAggregation_last.cfg`: 10 nodes, this node is 10 | violation of `SampledNodeSigns` | the last shard has 44 base symbols, not above `chunk_thresh = 460/10 = 46`, so node 10 never signs |
| `packing_small` | `MCBlockPacking_small.cfg`: 3 transactions per block, batches of 2, 12 transactions, two API signals, one change-size to 8 or 15 bytes, one network transaction, a round of two slots | pass | packaging never loses, duplicates or reorders a transaction; every packaged block fits its `block_size`, and is full when that size is at most `BLOCK_SIZE`; block ids sent strictly increase; every `ScaleReqChunks` for a broadcast block gets that block's shard from `get_cmt_sample` (`SampleMatchesProposal`) |
| `packing_real_decode` | `MCBlockPacking_real.cfg`: the real constants, batches of 1000 | violation of `DecodedIsPacked` | the block holds 53092 transactions, and the collector reads 53091 (`decoder.rs:445`, `0..(num_trans-1)`) |
| `peel_pass` | `MCPeelingDecoder.cfg`: every sample set of 8 symbols, every encoded word (2 bits, correct or not), a 3-layer tree with `AGGREGATE` 8, rate 1/4, `k_set` `<<8,4,2>>` | pass | encoding gives a codeword of the decoding code; degree counts equal the Empty symbols of each parity; no NotZero/NotHash proof for a correct block; Ok only for a correct block with the published values; the peeling loop ends; after every step each parity value equals the XOR of its known symbols (the worker engine collects every parity from the worker that updated it); every NotZero proof holds the published symbols at the parity's indices, and they violate its equation (`NotZeroProofVerifies`); every hand-over gives the layer below one distinct hash per symbol; the Merkle proof walk visits the symbols the hand-over read the hashes from; the decoder implements `ErasureDecoder` (`ImplementsErasureDecoder`) |
| `peel_stopping_set` | `MCPeelingDecoder_stop.cfg` | violation of `StoppedAtStoppingSet` | with samples `{2,4}`, parity `<<2,4,8>>` has one missing symbol (8), but its first listed symbol (2) is known. The parity is skipped and cleared, and Stopped is returned with `{1,3,5,6,7,8}` instead of the true stopping set `{1,3,5,6,7}` |
| `collector` | `MCCollector.cfg`: 3 scale nodes (shards 3, 3, 2 of 8 symbols), ids 1..3, block 3 rejected by the decoder | pass | the chain is the genesis followed by decoded contract blocks in increasing order; every correct block a job was started for is eventually decoded; the collector implements `LocalChain` (`ImplementsLocalChain`) |
| `collector_gap` | `MCCollector_gap.cfg` | violation of `ChainHasNoGaps` | the contract accepts blocks 1 and 2 between two polls. The Manager only sees 2, and the chain becomes `<<0, 2>>` |
| `collector_panic` | `MCCollector_panic.cfg`: 10 scale nodes, 512 symbols | violation of `ManagerNeverPanics` | 9 shards (468 > 460.8 symbols) finish the job. The 10th reply is sent to the dropped receiver, where `unwrap` panics |
| `contract_client` | `MCContractClient.cfg`: one vote, the manager's `GetCurrState`, an add-side-node, tx-receipt queries for the vote and for an unknown hash, a reset and an add-scale-node | pass | the node refuses a transaction of the client only when another was pending as its nonce was read; every thread blocked on a query's answer is eventually released (`SenderReleased`), even behind a 60-second receipt poll for a hash that is never mined |
| `contract_votes_lost` | `MCContractClient_votes.cfg`: votes of blocks 1 and 2 | violation of `VoteEventuallyMined` | `submit_vote` does not wait for its receipt. The second vote is signed with the nonce of the still-pending first one and refused, so block 2's vote never reaches the contract |

Every property of a passing run has a mutant in `PROJECT.json`: a plausible fault in a mapped definition under which TLC finds that property violated.

Why these bounds are enough:
- Aggregation:
  - The threshold `ceil(0.9 N)` equals `N` for `N <= 9` and first drops below `N` at 10; 10 is also where the last shard first falls under `chunk_thresh`.
  - With 2 nodes the own signature comes first or last, and the quorum (2) is completed by either writer. The composed run cannot be larger: 4 nodes with the link exceed 1.5 million states under the liveness checks.
  - `AtMostOneVote` is not in the composed pass run. With 2 nodes, only one writer can see the quorum complete, whatever the threshold. The property is checked, and found violated, in `agg_n10_double_vote`.
- PeerLink: the 4-byte prefix on a 2-byte path forces a `WouldBlock` inside every length, and a resumed write and a split read of it. Payloads of 1 and 2 bytes let a frame end inside a read and make the two lengths differ. Two messages let the second be queued while the first is being written, while the queue is disarmed.
  - With two headers the two blocks interleave, and a removal for one header must leave the other intact. A store threshold of 1 makes the second block evict the first.
- BlockPacking:
  - Batches of 2 against blocks of 3 make the pool hold a partial block, exactly a block, and more than a block when `prepare_block` runs, so both branches of `package_trans` are reached.
  - The change to 8 bytes makes a block smaller than `BLOCK_SIZE` after the threshold passed. The change to 15 bytes goes above it, which `/mempool/change-size` accepts: `tx_thresh` still waits for only `BLOCK_SIZE` bytes, so TLC reaches blocks of 3 transactions where 5 fit. `BlockIsFull` therefore asks for fullness only up to `BLOCK_SIZE`. That oversized blocks are not full is the `apiServer.rs:199` hazard, which has no violation run.
  - The real-constant run uses the real arithmetic, where the off-by-one lives.
- PeelingDecoder:
  - The (8,2) code is (2,4)-regular like the code files: each symbol is in 2 parities.
  - The 256 sample sets cover decoding at reception, decoding by peeling, stopping sets, NotZero and NotHash.
  - The 3-layer tree has a parity part in every layer, and its proof walk crosses two layers, so its running `k` has to change once.
- Collector:
  - Three block ids allow two blocks to be accepted between polls, and two jobs to finish in either order.
  - With three scale nodes a job needs every shard, so the passing run has no late reply.
  - The panic run uses the real 10 nodes and 512 symbols, the smallest setting where fewer than all shards are sufficient.
- ContractClient: one vote with two admin transactions reaches every overlap of a pending transaction with a nonce read; receipt queries for a mined and a never-mined hash reach both ends of `get_tx_receipt`; two votes are the smallest case of consecutive submissions. The pass run keeps one vote: with two votes, the admin transactions and the receipt queries together, TLC does not finish within ten minutes.

## Not modelled

These parts are not modelled:
- the on-chain contract, whose source is not in the repository (its acceptance of blocks is spec-modelled in `Collector`);
- connection set-up (`connect`, `accept`, `process_control`'s broadcast to outgoing peers) and a peer's removal on EOF or an I/O error. `PeerLink` models one established connection; the other modules take links as reliable FIFO. Two `expect` panics of `server.rs` (a peer removed by its read and then looked up by `process_writable` at :178, or by a `LOCAL_TOKEN` event of the same poll at :349) are listed as hazards without a run;
- the performance counters;
- hashing, BLS and serialization;
- `fork.rs`, `utxoDb.rs` and `ethsync`, which the running node does not reach.

Data is abstracted as follows:
- signatures are bags of signer ids;
- headers are model values;
- symbols are bits whose XOR is the parity arithmetic;
- upper-layer symbols are slot labels.

Known hazards without a property, listed in `PROJECT.json`:
- `package_trans`'s panic check tests the pool instead of the packaged vector, so a `block_size` below `TRANSACTION_SIZE` yields empty blocks forever;
- `change-size` above `BLOCK_SIZE`;
- `Mempool::insert`'s `Signal::Control` to a channel nobody reads;
- `remove_block` never being called, so `symbols_by` grows without bound;
- the `SYMBOL` column family never being trimmed.
