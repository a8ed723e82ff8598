---------------------------- MODULE MCCollector ----------------------------
(***************************************************************************)
(* Model-checking instances of Collector.                                  *)
(*  - MCCollector.cfg: three scale nodes sharing an 8-symbol block (shards *)
(*    3, 3, 2), so a job needs all three; block ids 1 .. 3, block 3       *)
(*    incorrectly coded.                                                   *)
(*  - MCCollector_gap.cfg: the same system, checking the chain for gaps.   *)
(*  - MCCollector_panic.cfg: ten scale nodes and the real 512 base         *)
(*    symbols, one block: nine shards can suffice, the tenth reply comes   *)
(*    after the job has returned.                                          *)
(***************************************************************************)
EXTENDS Collector

MCHoldersAll == [b \in Ids |-> Scale]

=============================================================================
