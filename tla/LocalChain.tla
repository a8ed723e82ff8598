----------------------------- MODULE LocalChain -----------------------------
(***************************************************************************)
(* What a collector promises about its local chain (spec: collectors      *)
(* observe the contract's state changes, collect the blocks' samples,     *)
(* decode them and append them to their chain).  The contract accepts    *)
(* block ids in increasing order; a block is decoded only after the       *)
(* contract accepted it; the chain starts at the genesis and only grows,  *)
(* by a run of decoded blocks in increasing id order beyond its tip.      *)
(* Nothing is promised about blocks the chain passes over: the collector  *)
(* may skip a block it has not decoded yet.                               *)
(***************************************************************************)
EXTENDS Naturals, Sequences, FiniteSets, SequencesExt

CONSTANTS
    Ids,      \* block ids the contract may accept
    Genesis   \* the chain's first entry

VARIABLES
    accepted, \* the block ids the contract accepted, in order
    decoded,  \* the blocks the collector decoded
    chain     \* the local chain, genesis first

vars == <<accepted, decoded, chain>>

LastAccepted == IF accepted = <<>> THEN Genesis ELSE Last(accepted)

Init ==
    /\ accepted = <<>>
    /\ decoded = {}
    /\ chain = <<Genesis>>

\* The contract moves to a block with a later id.
Accept(b) ==
    /\ b > LastAccepted
    /\ accepted' = Append(accepted, b)
    /\ UNCHANGED <<decoded, chain>>

\* The collector decodes a block the contract accepted.
Decode(b) ==
    /\ b \in Range(accepted) \ decoded
    /\ decoded' = decoded \cup {b}
    /\ UNCHANGED <<accepted, chain>>

\* The chain is extended by decoded blocks with increasing ids, all beyond
\* its tip.
IsAscending(s) == \A i \in 1 .. Len(s) - 1 : s[i] < s[i + 1]

Extend ==
    \E S \in SUBSET (decoded \cap {b \in Ids : b > Last(chain)}) :
        /\ S # {}
        /\ \E s \in [1 .. Cardinality(S) -> S] :
              /\ IsAscending(s)
              /\ chain' = chain \o s
        /\ UNCHANGED <<accepted, decoded>>

Next == (\E b \in Ids : Accept(b) \/ Decode(b)) \/ Extend

Spec == Init /\ [][Next]_vars

=============================================================================
