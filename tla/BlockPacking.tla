---------------------------- MODULE BlockPacking ----------------------------
(***************************************************************************)
(* A side node's transactions, from the generator to a block and back    *)
(* out of the decoder:                                                    *)
(*  - TransactionGenerator::start (src/src/experiment/                    *)
(*    transactionGenerator.rs) runs the controls the API server sends and *)
(*    appends batches with Mempool::insert_transactions;                  *)
(*  - Scheduler::start (src/src/mempool/scheduler.rs) prepares a block    *)
(*    once the mempool holds more than BLOCK_SIZE / TRANSACTION_SIZE - 1  *)
(*    transactions (prepare_block, Mempool::package_trans), waits for its *)
(*    slot of the round, and propose_block takes the block, stores its    *)
(*    symbols in the mempool and broadcasts it unless the slot has passed *)
(*    by its last check;                                                  *)
(*  - the collector's TreeDecoder::run_tree_decoder cuts the decoded      *)
(*    systematic bytes of the base layer back into transactions           *)
(*    (src/coded_merkle_tree/chain/src/decoder.rs).                       *)
(*                                                                         *)
(* Every transaction has the fixed size TRANSACTION_SIZE, so a            *)
(* transaction is its arrival number and the VecDeque is the interval     *)
(* head .. tail-1; a block is the interval [lo, hi) of the transactions   *)
(* it holds.  The wall clock is the slot number get_curr_slot computes;   *)
(* each thread::sleep is a wait for the slot it targets.  The generator,  *)
(* the scheduler and the clock interleave; their mempool accesses are     *)
(* each one critical section of the mempool lock.                        *)
(***************************************************************************)
EXTENDS Naturals, Sequences, FiniteSets, TLC

CONSTANTS
    BLOCK_SIZE,        \* bytes of transactions in a block
    TRANSACTION_SIZE,  \* bytes of one transaction
    K_SYS,             \* systematic base symbols of the code (n * RATE)
    BASE_SYMBOL_SIZE,  \* bytes of one base symbol
    Batch,             \* transactions per generate_trans(1000) of the generator loop
    StepNum,           \* the step of /transaction-generator/step
    Throttle,          \* the throttle of /transaction-generator/start
    Signals,           \* the generator controls the API server may send
    MaxSig,            \* bound on the controls sent
    MaxTx,             \* bound on the transactions generated
    Round,             \* sidenodes.len(): slots per round
    SideId,            \* get_side_id(): this node's slot in the round
    MaxSlot,           \* bound on the slot clock
    Sizes,             \* the sizes /mempool/change-size may set
    MaxNet             \* bound on the transactions peers send

ASSUME /\ TRANSACTION_SIZE > 0 /\ TRANSACTION_SIZE <= BLOCK_SIZE
       /\ K_SYS * BASE_SYMBOL_SIZE >= BLOCK_SIZE
       /\ Batch > 0 /\ MaxTx >= Batch
       /\ Signals \subseteq {"start", "stop", "step", "simulate"}
       /\ Round > 0 /\ SideId \in 0 .. Round - 1
       /\ Sizes \subseteq Nat

VARIABLES
    head,      \* arrival number of the oldest transaction in the mempool
    tail,      \* arrival number of the next transaction to arrive
    prepared,  \* Scheduler.prepared_block: <<>> or <<block>>
    proposed,  \* blocks propose_block took, in order, with id and fate
    decoded,   \* what the collector decoded: block index -> records
    symbolsBy, \* Mempool.symbols_by: block id -> the proposed block stored
    answered,  \* ScaleReqChunks served: [blk, got], got the block whose
               \* shard get_cmt_sample returned, 0 for unreachable!()
    gen,       \* TransactionGenerator.state
    ctl,       \* the generator's control channel
    sigs,      \* controls sent so far
    slot,      \* get_curr_slot(): the current slot of the wall clock
    sched,     \* the scheduler thread: pc, and the slot it sleeps until
    blockSize, \* Mempool.block_size
    net        \* transactions received from peers so far

vars == <<head, tail, prepared, proposed, decoded, symbolsBy, answered, gen, ctl, sigs, slot, sched, blockSize, net>>
genVars == <<gen, ctl, sigs, blockSize, net>>
schedVars == <<prepared, proposed, symbolsBy, sched>>

MinOf(a, b) == IF a <= b THEN a ELSE b
MaxOf(a, b) == IF a >= b THEN a ELSE b

(***************************************************************************)
(* Plausible faults: the packaging loop stopping at s >= block_size, the  *)
(* drain branch of package_trans forgetting to clear the mempool, and a   *)
(* scheduler that does not sleep out its slot after sending, and the     *)
(* symbols stored under the slot rather than the block id.               *)
(***************************************************************************)
FitCountGe(bs) == (bs - 1) \div TRANSACTION_SIZE
PoppedNoClear(c, bs) == IF c * TRANSACTION_SIZE > bs
                    THEN MinOf(c, bs \div TRANSACTION_SIZE)
                    ELSE 0
SlotEndNow(s) == s
InsertSymbolsPrevId(sb, id, i) == ((id - 1) :> i) @@ sb

-----------------------------------------------------------------------------

PoolSize == tail - head

\* transaction_size_in_bytes for c transactions.
BytesOf(c) == c * TRANSACTION_SIZE

\* tx_thresh = BLOCK_SIZE / TRANSACTION_SIZE - 1 in prepare_block.
TxThresh == BLOCK_SIZE \div TRANSACTION_SIZE - 1

\* The loop of package_trans: it takes transactions while the running sum
\* of their sizes stays <= block_size.  Its panic for a transaction larger
\* than the block tests self.transactions, which is never empty inside
\* the loop, so a block_size below TRANSACTION_SIZE fits none.
FitCount(bs) == bs \div TRANSACTION_SIZE

\* The number of transactions package_trans takes from a mempool of c:
\* the fitting prefix when they exceed block_size bs, all of them otherwise.
Packaged(c, bs) == IF BytesOf(c) > bs THEN MinOf(c, FitCount(bs)) ELSE c

\* The number it removes: pop_front once per packaged transaction, or
\* clear() on the drain branch.
Popped(c, bs) == IF BytesOf(c) > bs THEN MinOf(c, FitCount(bs)) ELSE c

\* run_tree_decoder on the base layer: the k systematic symbols give
\* k * BASE_SYMBOL_SIZE bytes (the block zero-padded by the encoder),
\* num_trans = bytes / TRANSACTION_SIZE, and records 0 .. num_trans-2 are
\* deserialized; records past the block's transactions are padding.
Extract(b) ==
    LET numTrans == (K_SYS * BASE_SYMBOL_SIZE) \div TRANSACTION_SIZE
        recs     == numTrans - 1
        cnt      == b.hi - b.lo
    IN  [lo |-> b.lo, hi |-> b.lo + MinOf(cnt, recs), pads |-> MaxOf(0, recs - cnt)]

\* handle_signal: the generator state a control selects.
SignalState == [start |-> "cont", stop |-> "pause", step |-> "step", simulate |-> "simulate"]

\* The tail of the generator loop: generate_trans(1000) and send_to_mempool,
\* unless the state is Continuous and the mempool holds throttle or more.
LoopTail(g) == IF g = "cont" /\ PoolSize >= Throttle THEN 0 ELSE Batch

\* The slot get_curr_slot() names at the moment, and whether it is ours.
MySlot == slot % Round = SideId

\* The slot the start loop sleeps until when it is not its turn: the start
\* of its slot in this round, or in the next one.
TurnSlot == (slot - (slot % Round)) + (IF slot % Round < SideId THEN SideId ELSE Round + SideId)

\* The slot it sleeps until after sending: the end of its slot.
SlotEnd(s) == s + 1

\* Mempool::insert_symbols: symbols_by.insert(block_id, ...), replacing
\* what the id held before.
InsertSymbols(sb, id, i) == (id :> i) @@ sb

\* Mempool::get_cmt_sample: the shard stored under the block id, or
\* unreachable!() (0) when symbols_by has no entry for it.
GetCmtSample(sb, id) == IF id \in DOMAIN sb THEN sb[id] ELSE 0

\* Mempool::new: no transactions, no stored symbols, block_size BLOCK_SIZE.
MempoolNew ==
    /\ head = 1
    /\ tail = 1
    /\ symbolsBy = <<>>
    /\ blockSize = BLOCK_SIZE

\* Scheduler::new: no prepared block; start() enters its loop.
SchedulerNew ==
    /\ prepared = <<>>
    /\ proposed = <<>>
    /\ sched = [pc |-> "loop", wake |-> 0]

\* TransactionGenerator::new: state Pause and a fresh control channel.
GeneratorNew ==
    /\ gen = "pause"
    /\ ctl = <<>>

\* main: a side node (scale_id 0) builds the mempool, the scheduler and
\* the generator and starts them at slot 0 of start_sec / start_millis;
\* no control, peer transaction or decoded block yet.
Init ==
    /\ MempoolNew
    /\ SchedulerNew
    /\ GeneratorNew
    /\ sigs = 0
    /\ net = 0
    /\ slot = 0
    /\ decoded = <<>>
    /\ answered = {}

\* The API server's /transaction-generator/{start,stop,step,simulate}.
Control(c) ==
    /\ sigs < MaxSig
    /\ ctl' = Append(ctl, c)
    /\ sigs' = sigs + 1
    /\ UNCHANGED <<head, tail, gen, blockSize, net, slot, schedVars, decoded, answered>>

\* The API server's /mempool/change-size: Mempool::change_mempool_size.
\* prepare_block keeps its threshold from the constant BLOCK_SIZE.
ChangeSize(bs) ==
    /\ sigs < MaxSig
    /\ blockSize' = bs
    /\ sigs' = sigs + 1
    /\ UNCHANGED <<head, tail, gen, ctl, net, slot, schedVars, decoded, answered>>

\* Mempool::insert_transactions of n generated transactions (send_to_mempool).
Insert(n) ==
    /\ tail + n - 1 <= MaxTx
    /\ tail' = tail + n

\* Mempool::insert of one transaction; its Signal::Control goes to the
\* scheduler's channel, which no thread reads.
MempoolInsert == Insert(1)

\* The performer's SendTransaction: a peer's transaction into the mempool.
NetInsert ==
    /\ net < MaxNet
    /\ net' = net + 1
    /\ MempoolInsert
    /\ UNCHANGED <<head, gen, ctl, sigs, blockSize, slot, schedVars, decoded, answered>>

\* TransactionGenerator::start, Pause: block on the control channel, handle
\* the control, then fall through to the loop's tail.
GenPause ==
    /\ gen = "pause"
    /\ ctl # <<>>
    /\ gen' = SignalState[Head(ctl)]
    /\ ctl' = Tail(ctl)
    /\ Insert(LoopTail(gen'))
    /\ UNCHANGED <<head, sigs, blockSize, net, slot, schedVars, decoded, answered>>

\* Step(num): send num transactions, pause, and fall through to the tail.
GenStep ==
    /\ gen = "step"
    /\ gen' = "pause"
    /\ Insert(StepNum + LoopTail("pause"))
    /\ UNCHANGED <<head, ctl, sigs, blockSize, net, slot, schedVars, decoded, answered>>

\* Continuous(throttle): try_recv a control, then the loop's tail.
GenCont ==
    /\ gen = "cont"
    /\ IF ctl # <<>>
       THEN gen' = SignalState[Head(ctl)] /\ ctl' = Tail(ctl)
       ELSE UNCHANGED <<gen, ctl>>
    /\ Insert(LoopTail(gen'))
    /\ UNCHANGED <<head, sigs, blockSize, net, slot, schedVars, decoded, answered>>

\* Simulate: replay the history file through estimate_gas (a no-op on the
\* mempool), pause, and continue without the tail.
GenSimulate ==
    /\ gen = "simulate"
    /\ gen' = "pause"
    /\ UNCHANGED <<head, tail, ctl, sigs, blockSize, net, slot, schedVars, decoded, answered>>

\* Time passes.
Tick ==
    /\ slot < MaxSlot
    /\ slot' = slot + 1
    /\ UNCHANGED <<head, tail, genVars, schedVars, decoded, answered>>

\* Scheduler::start with no prepared block: Scheduler::prepare_block skips
\* unless the mempool holds more than tx_thresh, else packages a block with
\* Mempool::prepare_transaction_block and encodes it (create_cmt_block).
PrepareBlock ==
    /\ sched.pc = "loop"
    /\ prepared = <<>>
    /\ PoolSize > TxThresh
    /\ prepared' = <<[lo |-> head, hi |-> head + Packaged(PoolSize, blockSize), size |-> blockSize]>>
    /\ head' = head + Popped(PoolSize, blockSize)
    /\ UNCHANGED <<tail, genVars, slot, proposed, symbolsBy, sched, decoded, answered>>

\* Scheduler::start with a prepared block: in its slot it calls
\* propose_block, otherwise it sleeps until its slot comes.
Schedule ==
    /\ sched.pc = "loop"
    /\ prepared # <<>>
    /\ sched' = IF MySlot THEN [sched EXCEPT !.pc = "propose"]
                ELSE [pc |-> "sleep", wake |-> TurnSlot]
    /\ UNCHANGED <<head, tail, genVars, slot, prepared, proposed, symbolsBy, decoded, answered>>

\* propose_block up to its last check: the block id is the slot read now
\* plus one; the symbols go into the mempool (insert_symbols) and the
\* prepared block is cleared.
ProposeBlock ==
    /\ sched.pc = "propose"
    /\ proposed' = Append(proposed, [lo |-> prepared[1].lo, hi |-> prepared[1].hi,
                                     size |-> prepared[1].size, id |-> slot + 1, fate |-> "taken"])
    /\ symbolsBy' = InsertSymbols(symbolsBy, slot + 1, Len(proposed) + 1)
    /\ prepared' = <<>>
    /\ sched' = [sched EXCEPT !.pc = "check"]
    /\ UNCHANGED <<head, tail, genVars, slot, decoded, answered>>

\* The last check of propose_block: broadcast the block if the slot is
\* still ours, else return false (preempted).  After a broadcast the start
\* loop reads the slot again and sleeps to the end of it if still ours.
FinalCheck ==
    /\ sched.pc = "check"
    /\ proposed' = [proposed EXCEPT ![Len(proposed)].fate =
                                       IF MySlot THEN "sent" ELSE "preempted"]
    /\ sched' = [sched EXCEPT !.pc = IF MySlot THEN "sent" ELSE "loop"]
    /\ UNCHANGED <<head, tail, genVars, slot, prepared, symbolsBy, decoded, answered>>

AfterSend ==
    /\ sched.pc = "sent"
    /\ sched' = IF MySlot THEN [pc |-> "sleep", wake |-> SlotEnd(slot)]
                ELSE [sched EXCEPT !.pc = "loop"]
    /\ UNCHANGED <<head, tail, genVars, slot, prepared, proposed, symbolsBy, decoded, answered>>

\* thread::sleep returns once the target time has passed.
Wake ==
    /\ sched.pc = "sleep"
    /\ slot >= sched.wake
    /\ sched' = [sched EXCEPT !.pc = "loop"]
    /\ UNCHANGED <<head, tail, genVars, slot, prepared, proposed, symbolsBy, decoded, answered>>

\* The collector decodes a sent block.
DecodeBlock(i) ==
    /\ i \in DOMAIN proposed
    /\ proposed[i].fate = "sent"
    /\ i \notin DOMAIN decoded
    /\ decoded' = [j \in DOMAIN decoded \cup {i} |->
                     IF j = i THEN Extract(proposed[i]) ELSE decoded[j]]
    /\ UNCHANGED <<head, tail, genVars, slot, schedVars, answered>>

\* The proposer's performer, ScaleReqChunks(proposer, block_id, scale_id)
\* from a scale node that received the broadcast of block i: under the
\* mempool lock, get_cmt_sample(block_id, scale_id), and the reply.
ServeReq(i) ==
    /\ i \in DOMAIN proposed
    /\ proposed[i].fate = "sent"
    /\ i \notin {a.blk : a \in answered}
    /\ answered' = answered \cup {[blk |-> i, got |-> GetCmtSample(symbolsBy, proposed[i].id)]}
    /\ UNCHANGED <<head, tail, genVars, slot, schedVars, decoded>>

\* The bound on the slot clock is reached.
Horizon ==
    /\ slot = MaxSlot
    /\ UNCHANGED vars

Next ==
    \/ \E c \in Signals : Control(c)
    \/ \E bs \in Sizes : ChangeSize(bs)
    \/ GenPause \/ GenStep \/ GenCont \/ GenSimulate \/ NetInsert
    \/ Tick
    \/ PrepareBlock \/ Schedule \/ ProposeBlock \/ FinalCheck \/ AfterSend \/ Wake
    \/ \E i \in 1 .. Len(proposed) : DecodeBlock(i) \/ ServeReq(i)
    \/ Horizon

Spec == Init /\ [][Next]_vars

-----------------------------------------------------------------------------

\* The blocks packaged so far, then the prepared one, then the mempool,
\* partition the transactions that arrived, in arrival order: package_trans
\* never loses, duplicates or reorders a transaction.
Segments ==
    [i \in 1 .. Len(proposed) |-> [lo |-> proposed[i].lo, hi |-> proposed[i].hi,
                                  size |-> proposed[i].size]]
    \o prepared \o <<[lo |-> head, hi |-> tail, size |-> blockSize]>>

PackagingConserves ==
    /\ Segments[1].lo = 1
    /\ Segments[Len(Segments)].hi = tail
    /\ \A i \in 1 .. Len(Segments) - 1 : Segments[i].hi = Segments[i + 1].lo

\* Every block prepare_block packages fits the mempool's block_size of
\* that moment, and is full when block_size is at most BLOCK_SIZE: then
\* the threshold of prepare_block (from the constant BLOCK_SIZE) lets a
\* block be packaged only once the byte loop of package_trans (from
\* block_size) has more transactions than fit.  A block_size above
\* BLOCK_SIZE, which /mempool/change-size accepts, yields blocks that are
\* not full: tx_thresh still waits for BLOCK_SIZE bytes only.
BlockIsFull ==
    \A i \in 1 .. Len(Segments) - 1 :
        LET n == Segments[i].hi - Segments[i].lo
        IN  /\ n * TRANSACTION_SIZE <= Segments[i].size
            /\ Segments[i].size <= BLOCK_SIZE => (n + 1) * TRANSACTION_SIZE > Segments[i].size

\* The blocks this node broadcasts carry strictly increasing block ids: it
\* never sends two blocks for one slot, although propose_block reads the
\* slot three times and a preempted block is followed by a new one.
SentIdsIncrease ==
    \A i, j \in DOMAIN proposed :
        /\ i < j
        /\ proposed[i].fate = "sent"
        /\ proposed[j].fate = "sent"
        => proposed[i].id < proposed[j].id

\* A scale node's ScaleReqChunks for a broadcast block is answered by
\* get_cmt_sample with the shard of that very block: propose_block stores
\* the symbols under the broadcast id before the last check sends the
\* header, and no later block, preempted or sent, reuses the id.
SampleMatchesProposal ==
    \A a \in answered : a.got = a.blk

\* What the collector decodes from a block is exactly what its proposer
\* packaged into it: no transaction dropped, no padding read as one.
DecodedIsPacked ==
    \A i \in DOMAIN decoded :
        /\ decoded[i].lo = proposed[i].lo
        /\ decoded[i].hi = proposed[i].hi
        /\ decoded[i].pads = 0

=============================================================================
