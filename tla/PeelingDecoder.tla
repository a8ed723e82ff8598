--------------------------- MODULE PeelingDecoder ---------------------------
(***************************************************************************)
(* One layer of the coded Merkle tree decoder                              *)
(* (src/coded_merkle_tree/chain/src/decoder.rs): the per-layer body of    *)
(* TreeDecoder::run_tree_decoder over a Decoder, with the calls it makes:  *)
(*  - symbol_update_from_reception;                                        *)
(*  - parity_update with the worker threads of start_parallel_engine;    *)
(*  - check_incorrect_coding;                                              *)
(*  - symbol_update_from_degree_1_parities, with the hash check against   *)
(*    the hashes committed in the header.                                  *)
(*                                                                         *)
(* A symbol is one bit, and XOR of symbols is addition mod 2: the         *)
(* properties only tell decoded values apart from published ones.  The    *)
(* hash of a symbol is the symbol itself (dhash256 is injective on what   *)
(* is compared).  The published word is what Decoder::encode produces   *)
(* from k systematic symbols with the encoding code (peeling_encode),    *)
(* with its first parity symbol flipped when correct = false (an         *)
(* incorrectly coded block); the decoder reads the decoding code.  Both   *)
(* codes come from the code files (read_code_from_file).                  *)
(***************************************************************************)
EXTENDS Naturals, Sequences, FiniteSets, SequencesExt

CONSTANTS
    NSym,      \* n: number of coded symbols of the layer
    Parities,  \* decoding code.parities: parity j -> the sequence of its symbols
    EncParities, \* encoding code.parities, same form
    Received   \* the sample index sets the collector may hand the decoder

Syms == 1 .. NSym
Checks == DOMAIN Parities

ASSUME /\ \A j \in Checks : ToSet(Parities[j]) \subseteq Syms
       /\ DOMAIN EncParities = Checks
       /\ \A j \in Checks : ToSet(EncParities[j]) \subseteq Syms
       /\ \A S \in Received : S \subseteq Syms

\* k = n * RATE systematic symbols; the first parity symbol is k + 1.
K == NSym \div 4

Empty == 2          \* Symbol::Empty
Results == {"ok", "notzero", "nothash", "stopped"}

\* A finite set of numbers as the ascending sequence of its elements.
Ascending(S) == [k \in 1 .. Cardinality(S) |->
                    CHOOSE e \in S : Cardinality({x \in S : x < e}) = k - 1]

\* Whether a word satisfies every parity equation of the decoding code.
XorOf(w, S) == (Cardinality({i \in S : w[i] = 1})) % 2
IsCodeword(w) == \A j \in Checks : XorOf(w, ToSet(Parities[j])) = 0
Flip(w, i) == [w EXCEPT ![i] = 1 - @]

VARIABLES
    sys,       \* the systematic symbols handed to encode
    correct,   \* encode's flag: FALSE flips the first parity symbol
    word,      \* the published symbols (and so the committed hashes)
    recv,      \* the sample indices received
    dec,       \* the Decoder: symbol_values, parity_values, parity_degree,
               \* degree_1_parities, parities_set, num_decoded_symbols
    progress,  \* the last result of parity_update
    pc,        \* "recv", "peel", or a result in Results
    stopSet    \* the stopping set of a Stopped proof

vars == <<sys, correct, word, recv, dec, progress, pc, stopSet>>

(***************************************************************************)
(* Plausible faults: a parity update that adds without reducing mod 2;  *)
(* a degree-1 round that decodes a symbol         *)
(* without passing it on; a missing incorrect-coding check, or one that *)
(* already tests parities with one unknown symbol; and a                 *)
(* degree-1 list that is not reset; an encoder that takes the parity's  *)
(* first listed symbol, as the decoding path does, instead of the one   *)
(* left in parities_set.                                                  *)
(***************************************************************************)
XorAdd(pv, v) == pv + v
DecodedNotPassed(out, s) == out
CheckNothing(d) == FALSE
NotZeroAtOne(d) == \E j \in Checks : d.deg[j] <= 1 /\ d.pv[j] # 0
KeepDegreeOne(d) == d
StaleEncodeSymbol(d, p) == d.code[p][1]

\* num_thread in parity_update, and u = ceil(p / num_thread): the parities
\* each worker's residue class has.
NumThread == 5
PerWorker == (Cardinality(Checks) + NumThread - 1) \div NumThread

\* Plausible fault: the collection copying back a block of u consecutive
\* parities per worker instead of its residue class.
CollectBlock(w, k) == w * PerWorker + k

-----------------------------------------------------------------------------

\* parity_values[parity].bitxor(symbol).
XorInto(pv, v) == (pv + v) % 2

\* The worker threads of start_parallel_engine, and the one of them
\* parity_update sends the XOR for a parity to: senders[parity % num_thread]
\* (parities are 0-based in the code, j - 1 here).
Workers == 0 .. NumThread - 1
WorkerOf(j) == (j - 1) % NumThread

\* The collection loop of parity_update copies parity j + k * num_thread of
\* worker j's returned vector, for k in 0 .. u - 1.
CollectIdx(w, k) == w + k * NumThread

\* start_parallel_engine and the collection: every worker clones
\* parity_values, XORs in the Data messages its FIFO channel brings (a
\* Symbol::Empty is skipped), and returns its copy on Control; the caller
\* polls the five result channels with try_recv, in whatever order they
\* answer, and copies each worker's indices back.  The copies are private
\* and a channel keeps its order, so only which copy an index is taken
\* from matters: an index no worker is collected for keeps its old value,
\* and one collected from several takes any of theirs.
EngineValues(d, new) ==
    LET copy(w, j) == IF WorkerOf(j) = w
                      THEN XorInto(d.pv[j], XorOf(d.val, new \cap ToSet(d.code[j])))
                      ELSE d.pv[j]
        from(j) == {w \in Workers : \E k \in 0 .. PerWorker - 1 : CollectIdx(w, k) = j - 1}
    IN  [j \in Checks |-> IF from(j) = {} THEN d.pv[j]
                          ELSE copy(CHOOSE w \in from(j) : TRUE, j)]

\* Decoder::parity_update on the newly known symbols idx, in order: the
\* parity values come from the worker engine above; on the calling
\* thread, for each symbol and each parity it takes part in (ascending),
\* the degree is decremented, the parity recorded in degree_1_parities
\* when the degree reaches 1, and the symbol removed from parities_set.
\* The loop's net effect per parity j is stated directly: hit is the new
\* symbols of j; j reaches degree 1 when its (deg - 1)-th new symbol is
\* processed, and the parities doing so are appended in the order
\* (position in idx, parity index) of that moment.
ParityUpdate(d, idx) ==
    LET new  == ToSet(idx)
        M    == Cardinality(Checks) + 1
        hit(j) == new \cap ToSet(d.code[j])
        seen(j, t) == Cardinality({s \in 1 .. t : idx[s] \in ToSet(d.code[j])})
        reaches1(t, j) == /\ idx[t] \in ToSet(d.code[j])
                          /\ d.deg[j] >= 2
                          /\ seen(j, t) = d.deg[j] - 1
        keys == {q[1] * M + q[2] : q \in {q \in (DOMAIN idx) \X Checks : reaches1(q[1], q[2])}}
        order == Ascending(keys)
    IN  [d EXCEPT !.pv   = EngineValues(d, new),
                  !.deg  = [j \in Checks |-> @[j] - Cardinality(hit(j))],
                  !.d1   = @ \o [k \in DOMAIN order |-> order[k] % M],
                  !.pset = [j \in Checks |-> @[j] \ new]]

\* Its result: whether degree-1 parities are available.
HasDegreeOne(d) == Len(d.d1) # 0

\* symbol_equal_to_zero: every byte of the symbol is 0.
IsZero(v) == v = 0

\* check_incorrect_coding: the parities all of whose symbols are known but
\* whose value is not zero; it returns the error for the first of them.
NotZeroParities(d) == {j \in Checks : d.deg[j] = 0 /\ ~IsZero(d.pv[j])}
NotZeroFound(d) == NotZeroParities(d) # {}

\* Plausible fault: the proof's symbols read by position in 0..len, as
\* the NotHash path of symbol_update_from_degree_1_parities does.
NotZeroProofByPosition(d) ==
    LET j == Min(NotZeroParities(d))
    IN  [j |-> j, idx |-> d.code[j], syms |-> [t \in DOMAIN d.code[j] |-> d.val[t]]]

\* The error check_incorrect_coding returns: the parity, its indices
\* (code.parities[j]) and the symbol_values at those indices.
NotZeroProof(d) ==
    LET j == Min(NotZeroParities(d))
    IN  [j |-> j, idx |-> d.code[j], syms |-> [t \in DOMAIN d.code[j] |-> d.val[d.code[j][t]]]]

\* symbol_update_from_reception: store every received symbol not yet
\* known, and output them in the order received.
Reception(d, w, idx) ==
    LET new == SelectSeq(idx, LAMBDA i : d.val[i] = Empty)
    IN  [d EXCEPT !.val  = [i \in Syms |-> IF i \in ToSet(new) THEN w[i] ELSE @[i]],
                  !.ndec = @ + Len(new)]

\* Append the symbol decoded from a degree-1 parity to the output.
PassOn(out, s) == Append(out, s)

\* Plausible fault: the degree-1 loop without its `if let Symbol::Empty`
\* test, decoding the parity's first symbol even when it is known.
RECURSIVE DegreeOneLoopAnySymbol(_, _, _, _)
DegreeOneLoopAnySymbol(d, w, ps, out) ==
    IF ps = <<>> THEN [d |-> d, out |-> out, bad |-> FALSE]
    ELSE LET p  == Head(ps)
             s  == d.code[p][1]
             d2 == [d EXCEPT !.val[s] = d.pv[p]]
         IN  IF d.pv[p] = w[s]
             THEN DegreeOneLoopAnySymbol([d2 EXCEPT !.ndec = @ + 1], w, Tail(ps), PassOn(out, s))
             ELSE [d |-> d2, out |-> out, bad |-> TRUE]

\* The loop of symbol_update_from_degree_1_parities: for each degree-1
\* parity, take the FIRST symbol of its original list (parities[parity][0]);
\* if it is still Empty, set it to the parity value and check its hash;
\* a mismatch returns the NotHash error at once.
RECURSIVE DegreeOneLoop(_, _, _, _)
DegreeOneLoop(d, w, ps, out) ==
    IF ps = <<>> THEN [d |-> d, out |-> out, bad |-> FALSE]
    ELSE LET p == Head(ps)
             s == d.code[p][1]
         IN  IF d.val[s] # Empty
             THEN DegreeOneLoop(d, w, Tail(ps), out)
             ELSE LET d2 == [d EXCEPT !.val[s] = d.pv[p]]
                  IN  IF d.pv[p] = w[s]
                      THEN DegreeOneLoop([d2 EXCEPT !.ndec = @ + 1], w, Tail(ps), PassOn(out, s))
                      ELSE [d |-> d2, out |-> out, bad |-> TRUE]

\* degree_1_parities = vec![] at the end of the round.
ClearDegreeOne(d) == [d EXCEPT !.d1 = <<>>]

\* The state after a check and the decoded test: a result or more peeling.
After(d) == IF NotZeroFound(d) THEN "notzero"
            ELSE IF d.ndec = NSym THEN "ok"
            ELSE "peel"

\* Decoder::new(code, ...): nothing known, parity values zero, degrees the
\* parity sizes, parities_set the parities' symbol sets.
NewDecoder(P) ==
    [code |-> P,
     val  |-> [i \in Syms |-> Empty],
     pv   |-> [j \in Checks |-> 0],
     deg  |-> [j \in Checks |-> Len(P[j])],
     d1   |-> <<>>,
     pset |-> [j \in Checks |-> ToSet(P[j])],
     ndec |-> 0]

\* The symbol a degree-1 parity determines while encoding: the element of
\* parities_set[parity] (iter().last(); the set has one element).
EncodeSymbol(d, p) == CHOOSE s \in d.pset[p] : TRUE

\* symbol_update_from_degree_1_parities_encode: for each degree-1 parity
\* with a symbol left in parities_set, decode that symbol if it is still
\* Empty and pass it on; no hash is checked.  degree_1_parities is reset.
RECURSIVE EncodeRound(_, _, _)
EncodeRound(d, ps, out) ==
    IF ps = <<>> THEN [d |-> ClearDegreeOne(d), out |-> out]
    ELSE LET p == Head(ps)
         IN  IF d.pset[p] = {} \/ d.val[EncodeSymbol(d, p)] # Empty
             THEN EncodeRound(d, Tail(ps), out)
             ELSE LET s == EncodeSymbol(d, p)
                  IN  EncodeRound([d EXCEPT !.val[s] = d.pv[p], !.ndec = @ + 1],
                                  Tail(ps), PassOn(out, s))

\* peeling_encode: rounds of the above, each followed by parity_update on
\* the symbols it decoded, while new degree-1 parities appear; the result
\* is whether all n symbols are known.
RECURSIVE PeelingEncode(_)
PeelingEncode(d) ==
    LET r  == EncodeRound(d, d.d1, <<>>)
        d2 == IF r.out = <<>> THEN r.d ELSE ParityUpdate(r.d, r.out)
    IN  IF r.d.ndec = NSym THEN [d |-> r.d, ok |-> TRUE]
        ELSE IF r.out # <<>> /\ HasDegreeOne(d2) THEN PeelingEncode(d2)
        ELSE [d |-> d2, ok |-> d2.ndec = NSym]

\* Decoder::encode(sys_symbols, correct) on a fresh decoder of the encoding
\* code: receive the k systematic symbols, parity_update, peeling_encode;
\* where the code reaches unreachable!() the symbols stay Empty.  With
\* correct = false the first parity symbol (index k) is flipped.
Encode(s, c) ==
    LET sysIdx == [i \in 1 .. K |-> i]
        d1 == Reception(NewDecoder(EncParities),
                        [i \in Syms |-> IF i <= K THEN s[i] ELSE 0], sysIdx)
        d2 == ParityUpdate(d1, sysIdx)
        r  == PeelingEncode(d2)
        v  == IF d1.ndec = NSym THEN d1.val
              ELSE IF HasDegreeOne(d2) /\ r.ok THEN r.d.val
              ELSE [i \in Syms |-> IF i <= K THEN s[i] ELSE Empty]
    IN  IF c THEN v ELSE Flip(v, K + 1)

\* The block is encoded from any systematic symbols, correctly or not; the
\* decoder of the sampling node starts as Decoder::new of the decoding code.
Init ==
    /\ sys \in [1 .. K -> {0, 1}]
    /\ correct \in BOOLEAN
    /\ word = Encode(sys, correct)
    /\ recv \in Received
    /\ dec = NewDecoder(Parities)
    /\ progress = FALSE
    /\ pc = "recv"
    /\ stopSet = {}

\* run_tree_decoder, layer entry: reception, parity_update, the check,
\* and the decoded test.
Receive ==
    /\ pc = "recv"
    /\ LET idx == Ascending(recv)
           d1  == Reception(dec, word, idx)
           new == SelectSeq(idx, LAMBDA i : dec.val[i] = Empty)
           d2  == ParityUpdate(d1, new)
       IN  /\ dec' = d2
           /\ progress' = HasDegreeOne(d2)
           /\ pc' = After(d2)
    /\ UNCHANGED <<sys, correct, word, recv, stopSet>>

\* One round of the peeling loop while parity_update reported progress:
\* decode from degree-1 parities, then parity_update, check, decoded test;
\* its outcome is the decoder, the result or "peel", and the progress flag.
PeelRound(d, w) ==
    LET r  == DegreeOneLoop(d, w, d.d1, <<>>)
        d2 == ParityUpdate(ClearDegreeOne(r.d), r.out)
    IN  IF r.bad THEN [dec |-> r.d, pc |-> "nothash", progress |-> TRUE]
        ELSE [dec |-> d2, pc |-> After(d2), progress |-> HasDegreeOne(d2)]

Peel ==
    /\ pc = "peel"
    /\ progress
    /\ \E o \in {PeelRound(dec, word)} :
           /\ dec' = o.dec
           /\ pc' = o.pc
           /\ progress' = o.progress
    /\ UNCHANGED <<sys, correct, word, recv, stopSet>>

\* No progress: the Empty symbols are returned as a Stopped proof.
Stop ==
    /\ pc = "peel"
    /\ ~progress
    /\ stopSet' = {i \in Syms : dec.val[i] = Empty}
    /\ pc' = "stopped"
    /\ UNCHANGED <<sys, correct, word, recv, dec, progress>>

\* The decoder has returned; the job thread acts on the result.
Returned ==
    /\ pc \in Results
    /\ UNCHANGED vars

Next == Receive \/ Peel \/ Stop \/ Returned

\* The decoder runs on its own job thread, which keeps executing: every
\* step of the peeling loop that can be taken eventually is.
Spec == Init /\ [][Next]_vars /\ WF_vars(Peel) /\ WF_vars(Stop)

-----------------------------------------------------------------------------

TypeOK ==
    /\ word \in [Syms -> {0, 1}]
    /\ dec.val \in [Syms -> {0, 1, Empty}]
    /\ dec.pv \in [Checks -> {0, 1}]
    /\ dec.deg \in [Checks -> Nat]
    /\ dec.ndec \in 0 .. NSym
    /\ pc \in {"recv", "peel"} \cup Results
    /\ stopSet \subseteq Syms

\* Decoder::encode, run with the encoding code, yields a word that keeps
\* the k systematic symbols and satisfies every parity of the decoding
\* code exactly when correct is set: peeling from the systematic symbols
\* always completes (no unreachable!()), and the two code files describe
\* the same code.
EncodeIsSystematicCodeword ==
    /\ \A i \in 1 .. K : word[i] = sys[i]
    /\ correct <=> IsCodeword(word)

\* The reference peeling decoder: repeatedly recover the one unknown
\* symbol of any parity that has exactly one.
RECURSIVE PeelClosure(_)
PeelClosure(known) ==
    LET newly == {i \in Syms \ known :
                    \E j \in Checks : ToSet(Parities[j]) \ known = {i}}
    IN  IF newly = {} THEN known ELSE PeelClosure(known \cup newly)

\* The decoder's bookkeeping invariant (parity_degree[j] is the number of
\* Empty symbols of parity j) holds between the steps of run_tree_decoder,
\* except after the NotHash return that leaves a rejected value behind.
DegreeCountsEmpty ==
    pc # "nothash" =>
        \A j \in Checks :
            dec.deg[j] = Cardinality({i \in ToSet(Parities[j]) : dec.val[i] = Empty})

\* A correctly coded block never yields an incorrect-coding proof: every
\* symbol the peeling loop recovers matches its committed hash and every
\* complete parity is zero.
NoFalseCodingProof ==
    IsCodeword(word) => pc \notin {"notzero", "nothash"}

\* The decoder never accepts an incorrectly coded block: whenever it
\* returns Ok, the published word is a codeword and the symbols it holds
\* are the published ones.
OkOnlyForCodewords ==
    pc = "ok" => IsCodeword(word) /\ \A i \in Syms : dec.val[i] = word[i]

\* A NotZero incorrect-coding proof is one a light node accepts: each of
\* its symbols is the published symbol at its index (so it matches the
\* committed hash and Merkle proof), and together they violate the
\* parity equation.  The values come from reception and from peeled
\* symbols whose hash was checked, over several rounds of parity_update.
NotZeroProofVerifies ==
    pc = "notzero" =>
        LET pf == NotZeroProof(dec)
        IN  /\ \A t \in DOMAIN pf.idx : pf.syms[t] = word[pf.idx[t]]
            /\ XorOf(word, ToSet(pf.idx)) = 1

\* Once reception is done, the peeling loop of run_tree_decoder ends with
\* a result: it does not spin on degree-1 parities it has already used.
Terminates == (pc = "peel") ~> (pc \in Results)

\* Every parity value is the XOR of the symbols already taken out of the
\* parity's parities_set: the five workers of parity_update, each XORing
\* into a private copy, and the collection that copies their residue
\* classes back, together lose no XOR and apply none twice, over every
\* call of encode, reception and the peeling rounds.
ParityValueIsKnownSum ==
    \A j \in Checks : dec.pv[j] = XorOf(dec.val, ToSet(dec.code[j]) \ dec.pset[j])

\* A Stopped proof carries the real stopping set of the samples: the
\* symbols the reference peeling decoder cannot recover from them
\* (spec 4.3: the remaining Empty indices form a stopping set).
StoppedAtStoppingSet ==
    pc = "stopped" => stopSet = Syms \ PeelClosure(recv)

-----------------------------------------------------------------------------

\* The refinement mapping: symbol_values are the known symbols (Empty is
\* unknown) and the decoder is running until run_tree_decoder returns.
ED == INSTANCE ErasureDecoder
        WITH Values <- {0, 1}, Unknown <- Empty,
             known <- dec.val,
             result <- IF pc \in Results THEN pc ELSE "running"

\* The layer decoder keeps its promise over reception and every peeling
\* round: symbol_update_from_reception and the degree-1 loop only fill
\* Empty symbols and never overwrite a recovered one, Ok is returned with
\* every symbol known, a Stopped proof with some symbol Empty, and the
\* returned result is final.
ImplementsErasureDecoder == ED!Spec

=============================================================================
