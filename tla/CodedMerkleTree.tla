--------------------------- MODULE CodedMerkleTree ---------------------------
(***************************************************************************)
(* The index arithmetic of the coded Merkle tree in                       *)
(* src/coded_merkle_tree/chain/src/decoder.rs, and the hand-over loop:    *)
(*  - next_index and the hash slot of symbol_to_hash: which symbol of the *)
(*    layer above, and which of its AGGREGATE 32-byte slots, holds the    *)
(*    hash of a symbol (systematic symbols fill the first reduce_factor   *)
(*    slots, parity symbols the rest);                                    *)
(*  - symbol_to_hash: the hash list the tree decoder hands to the layer   *)
(*    below once a layer is decoded;                                      *)
(*  - generate_merkle_proof: the symbols of the layers above that         *)
(*    authenticate a symbol in an incorrect-coding proof.                 *)
(* Layers are numbered from 1 (the base); indices are 0-based as in the   *)
(* code.  A symbol of an upper layer is a sequence of AGGREGATE hashes.   *)
(***************************************************************************)
EXTENDS Naturals, Sequences, FiniteSets

CONSTANTS
    AGGREGATE,  \* hashes per upper-layer symbol
    RATE_INV,   \* 1 / RATE
    KSet        \* k of each layer, base first (main.rs k_set)

ASSUME /\ AGGREGATE > 0 /\ RATE_INV > 0
       /\ Len(KSet) >= 2 /\ \A l \in DOMAIN KSet : KSet[l] > 0

(***************************************************************************)
(* Plausible fault: the proof walk dividing its k by AGGREGATE instead of *)
(* by the reduce factor.                                                   *)
(***************************************************************************)
MovingKAggregate(k) == k \div AGGREGATE

\* Plausible fault: next_index dividing a parity offset by AGGREGATE, the
\* reduce factor's slots not taken out.
NextIndexAllSlots(index, k, rf) ==
    IF index <= k - 1 THEN index \div rf ELSE (index - k) \div AGGREGATE

-----------------------------------------------------------------------------

\* reduce_factor = (AGGREGATE as f32 * RATE) as u64: the systematic
\* symbols whose hashes one upper symbol holds.
ReduceFactor == AGGREGATE \div RATE_INV

\* read_code_from_file: n = k / RATE.
LayerN(l) == KSet[l] * RATE_INV

\* next_index: the upper-layer symbol holding the hash of symbol index.
NextIndex(index, k, rf) ==
    IF index <= k - 1 THEN index \div rf ELSE (index - k) \div (AGGREGATE - rf)

\* The slot of that symbol which holds the hash (symbol_to_hash).
HashIndex(index, k, rf) ==
    IF index <= k - 1 THEN index % rf ELSE ((index - k) % (AGGREGATE - rf)) + rf

\* symbol_to_hash: from the systematic symbols of a decoded layer, the
\* hashes of all symbols of the layer below (k = hashes * RATE).
SymbolToHash(symbols) ==
    LET nh == Len(symbols) * AGGREGATE
        k  == nh \div RATE_INV
    IN  [i \in 0 .. nh - 1 |->
            symbols[NextIndex(i, k, ReduceFactor) + 1][HashIndex(i, k, ReduceFactor) + 1]]

\* The k the proof walk uses for the next layer up.
NextMovingK(k) == k \div ReduceFactor

\* generate_merkle_proof(lvl, index): the indices, in the layers lvl+1 up
\* to the top, of the symbols pushed into the proof.
RECURSIVE ProofWalk(_, _, _)
ProofWalk(l, index, k) ==
    IF l >= Len(KSet) THEN <<>>
    ELSE LET up == NextIndex(index, k, ReduceFactor)
         IN  <<up>> \o ProofWalk(l + 1, up, NextMovingK(k))

MerkleProof(lvl, index) == ProofWalk(lvl, index, KSet[lvl])

-----------------------------------------------------------------------------

\* A label for every hash slot of the systematic symbols of layer l: the
\* 0-based symbol index in layer l and the slot within it.
Slots(l) == [j \in 1 .. KSet[l] |-> [s \in 1 .. AGGREGATE |-> <<j - 1, s - 1>>]]

Top == Len(KSet)

\* H256::default(), the hash TreeDecoder::new puts in every slot below the top.
NoHash == <<>>

-----------------------------------------------------------------------------
(***************************************************************************)
(* The hand-over of run_tree_decoder: layers are decoded from the top     *)
(* down; once layer i is decoded, self.hashes[i-1] becomes symbol_to_hash *)
(* of its systematic symbols, the hashes the layer below is checked       *)
(* against.  The peeling of one layer is PeelingDecoder; here a layer is  *)
(* decoded in one step, its systematic symbols being the slot labels.     *)
(***************************************************************************)
VARIABLES
    treeLayer,  \* the layer i run_tree_decoder is at (1 = base)
    hashes      \* self.hashes of the layers below the top (the top's are the header's)

treeVars == <<treeLayer, hashes>>

\* TreeDecoder::new: default hashes of each layer's length, decoding starts
\* at the top.
TreeInit ==
    /\ treeLayer = Top
    /\ hashes = [l \in 1 .. Top - 1 |-> [i \in 0 .. LayerN(l) - 1 |-> NoHash]]

\* Layer i > 0 decoded: self.hashes[i-1] = symbol_to_hash(symbol_values[0..k]),
\* and the loop goes on with layer i-1.  The base layer returns instead.
DecodeLayer ==
    /\ treeLayer > 1
    /\ hashes' = [hashes EXCEPT ![treeLayer - 1] = SymbolToHash(Slots(treeLayer))]
    /\ treeLayer' = treeLayer - 1

\* The layers whose hash list has been handed over.
Handed == treeLayer .. Top - 1

\* The hand-over of every decoded layer gives the layer below exactly one
\* hash per symbol, each read from its own slot, every slot used: the
\* tree decoder's hash list has the length of the layer below, and no two
\* symbols are checked against the same hash.
HandOverIsPartition ==
    \A l \in Handed :
        /\ DOMAIN hashes[l] = 0 .. LayerN(l) - 1
        /\ Cardinality({hashes[l][i] : i \in DOMAIN hashes[l]}) = LayerN(l)

\* The chain of symbols, one per layer above l, whose slots the hand-over
\* read the hash of symbol index of layer l and of its ancestors from.
RECURSIVE HandOverChain(_, _)
HandOverChain(l, index) ==
    IF l >= Top THEN <<>>
    ELSE LET up == hashes[l][index][1]
         IN  <<up>> \o HandOverChain(l + 1, up)

\* The Merkle proof of an incorrect-coding proof authenticates a symbol of
\* a decoded layer by the very symbols whose slots held its hash and its
\* ancestors' hashes in the hand-over: generate_merkle_proof's running k
\* agrees with the k run_tree_decoder used at every layer.
ProofFollowsHandOver ==
    \A l \in Handed :
        \A i \in 0 .. LayerN(l) - 1 : MerkleProof(l, i) = HandOverChain(l, i)

=============================================================================
