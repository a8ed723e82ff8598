------------------------------- MODULE AggSig -------------------------------
(***************************************************************************)
(* The per-header signature aggregate a scale node keeps in               *)
(* Performer.agg_sig (src/src/network/performer.rs): a map from the hex    *)
(* header string to (sigx, sigy, bitset).  Two threads write it: the      *)
(* per-block aggregator thread spawned on ProposeBlock (own signature)    *)
(* and the performer thread on MySign (signatures of the other nodes).    *)
(*                                                                         *)
(* This module holds, with no variables, the operators both write paths  *)
(* use, and the sample arithmetic of the aggregator thread's chunk count. *)
(*                                                                         *)
(* A BLS signature is abstracted to the bag of scale ids aggregated into  *)
(* it: _aggregate_sig is bag union, so aggregating a signature twice is   *)
(* visible (BLS aggregation is not idempotent).  The bitset is the usize  *)
(* integer of the code, updated with +, not with a set union.             *)
(***************************************************************************)
EXTENDS Naturals, Bags, Bitwise

\* num_symbol = BLOCK_SIZE / BASE_SYMBOL_SIZE * (1.0 / RATE): 128 systematic
\* base-layer symbols, 512 coded ones.
NumSymbol == (16777216 \div 131072) * 4

(***************************************************************************)
(* Plausible faults of the code below, one per property they must break:  *)
(* a floor for the ceiling, 1 << (scale_id - 1) or 1 << (scale_id + 1),   *)
(* a popcount loop that stops at t > 1, an aggregator thread that never   *)
(* tests the threshold.                                                    *)
(***************************************************************************)
ThresholdFloor(numNodes) == (9 * numNodes) \div 10
BitBelow(sid) == 2^(sid - 1)
BitAbove(sid) == 2^(sid + 1)
RECURSIVE CountSigStopAtOne(_)
CountSigStopAtOne(x) == IF x <= 1 THEN 0 ELSE (x % 2) + CountSigStopAtOne(x \div 2)
OwnSignNoVote(agg, h, sid, thr) == FALSE
ChunkThreshWhole(numNodes) == (NumSymbol * 9) \div 10

-----------------------------------------------------------------------------

\* threshold = (UNDECODABLE_RATIO * num_nodes as f32).ceil() with
\* UNDECODABLE_RATIO = 0.9.  For num_nodes <= 63 the f32 product rounds to
\* the nearest multiple of 0.1, so the ceiling is the integer ceiling of
\* 9 * num_nodes / 10.
Threshold(numNodes) == (9 * numNodes + 9) \div 10

\* chunk_thresh = ((BLOCK_SIZE / BASE_SYMBOL_SIZE) as f32 / RATE *
\* UNDECODABLE_RATIO) as u64 / num_nodes: 512 * 0.9 = 460.8 truncated to
\* 460, then divided by the number of scale nodes.
ChunkThresh(numNodes) == ((NumSymbol * 9) \div 10) \div numNodes

\* get_num_base_symbols of the shard the proposer's create_cmt_block
\* stored for the node with scheduler::get_sample_index(scale_id,
\* num_symbol, num_nodes) (the performer's own copy of it at ProposeBlock
\* computes samples_idx and never uses it): the shard of scale id sid is ceil(num_symbol / num_nodes) indices from
\* (sid - 1) * that, clamped at num_symbol; a start past the end is empty.
SampleCount(sid, numNodes) ==
    LET per   == (NumSymbol + numNodes - 1) \div numNodes
        start == (sid - 1) * per
        stop  == IF sid * per > NumSymbol THEN NumSymbol ELSE sid * per
    IN  IF stop > start THEN stop - start ELSE 0

\* 1 << scale_id.
Bit(sid) == 2^sid

\* utils::_count_sig: the number of one bits of the bitset, by repeated
\* halving.
RECURSIVE CountSig(_)
CountSig(x) == IF x = 0 THEN 0 ELSE (x % 2) + CountSig(x \div 2)

\* A fresh agg_sig entry holding one signature.
NewEntry(sid) == [sig |-> SetToBag({sid}), bitset |-> Bit(sid)]

\* _aggregate_sig followed by bitset + (1 << sid).
AddSig(e, sid) == [sig |-> e.sig (+) SetToBag({sid}), bitset |-> e.bitset + Bit(sid)]

\* The aggregator thread's critical section (performer.rs 407-418): insert
\* its own signature, aggregating without testing the bit.
OwnSignAgg(agg, h, sid) ==
    IF h \notin DOMAIN agg
    THEN [x \in DOMAIN agg \cup {h} |-> IF x = h THEN NewEntry(sid) ELSE agg[x]]
    ELSE [agg EXCEPT ![h] = AddSig(@, sid)]

\* Whether that critical section submits a vote (performer.rs 419-430):
\* only on the branch where an entry already existed.
OwnSignVote(agg, h, sid, thr) ==
    /\ h \in DOMAIN agg
    /\ CountSig(AddSig(agg[h], sid).bitset) >= thr

\* The MySign handler's first critical section (performer.rs 454-467):
\* insert a new entry, or aggregate if the sender's bit is not yet set.
MySignAgg(agg, h, sid) ==
    IF h \notin DOMAIN agg
    THEN [x \in DOMAIN agg \cup {h} |-> IF x = h THEN NewEntry(sid) ELSE agg[x]]
    ELSE IF (Bit(sid) & agg[h].bitset) = 0
         THEN [agg EXCEPT ![h] = AddSig(@, sid)]
         ELSE agg

\* Whether the MySign handler submits (performer.rs 468-479): only when the
\* entry existed, on the bitset it holds after the update, whether or not
\* the sender's bit was already set.
MySignVote(agg, h, sid, thr) ==
    /\ h \in DOMAIN agg
    /\ CountSig(MySignAgg(agg, h, sid)[h].bitset) >= thr

\* aggsig.remove(&header) (performer.rs 480-482).
RemoveEntry(agg, h) == [x \in DOMAIN agg \ {h} |-> agg[x]]

=============================================================================
