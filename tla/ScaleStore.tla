----------------------------- MODULE ScaleStore -----------------------------
(***************************************************************************)
(* A scale node's sample store, BlockDb (src/src/db/blockDb.rs): the      *)
(* aggregator thread stores the shard it received for a block with        *)
(* insert_cmt_sample, and the ScaleGetAllChunks handler serves it with    *)
(* get_chunk.  The RocksDB column families are the sets of keys they      *)
(* hold; a key is the block id.  Aggregation composes it with the         *)
(* aggregator threads that call insert_cmt_sample.                        *)
(***************************************************************************)
EXTENDS Naturals, Sequences, FiniteSets, SequencesExt

CONSTANTS
    THRESH,      \* BlockDb.thresh
    Ids          \* block ids whose samples the node may store

VARIABLES
    blockRecord, \* BlockDb.block_record
    symbolCF     \* keys in the SYMBOL column family

vars == <<blockRecord, symbolCF>>

(***************************************************************************)
(* Plausible fault: the record is trimmed one insert late.                *)
(***************************************************************************)
OverfullLate(rec) == Len(rec) > THRESH + 1

-----------------------------------------------------------------------------

\* self.db.delete(&id): a delete on the default column family, where no
\* sample is ever put; the SYMBOL column family is left as it is.
Evict(cf, id) == cf

\* block_record.len() > thresh.
Overfull(rec) == Len(rec) > THRESH

\* BlockDb::new: a fresh database and an empty record.
Init ==
    /\ blockRecord = <<>>
    /\ symbolCF = {}

\* insert_cmt_sample: put the chunk under the block id in SYMBOL, record
\* the id, and when the record is longer than thresh pop its oldest id and
\* delete that key.
InsertCmtSample(b) ==
    LET rec == Append(blockRecord, b)
    IN  IF Overfull(rec)
        THEN /\ blockRecord' = Tail(rec)
             /\ symbolCF' = Evict(symbolCF \cup {b}, Head(rec))
        ELSE /\ blockRecord' = rec
             /\ symbolCF' = symbolCF \cup {b}

-----------------------------------------------------------------------------

TypeOK ==
    /\ blockRecord \in Seq(Ids) /\ Len(blockRecord) <= THRESH
    /\ symbolCF \subseteq Ids

=============================================================================
