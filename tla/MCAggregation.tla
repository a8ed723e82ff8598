---------------------------- MODULE MCAggregation ----------------------------
(***************************************************************************)
(* Model-checking instance of Aggregation.  The .cfg of each run sets    *)
(* the number of scale nodes, this node's scale id and the headers:      *)
(*  - 10 nodes (the first size whose threshold, 9, is below the node      *)
(*    count), one header;                                                  *)
(*  - 10 nodes with this node the last, whose shard is the smallest.     *)
(***************************************************************************)
EXTENDS Aggregation

=============================================================================
