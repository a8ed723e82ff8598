--------------------------- MODULE MCBlockPacking ---------------------------
(***************************************************************************)
(* Model-checking instance of BlockPacking.  The .cfg of each run gives   *)
(* the sizes: a scaled-down block of 9 bytes and transactions of 3 bytes  *)
(* (three transactions fill a block exactly, as the boundary the code's   *)
(* <= must get right), or the code's own constants (16 MiB blocks, 316-   *)
(* byte transactions, 128 systematic symbols of 128 KiB, batches of 1000  *)
(* from the generator).  Two side nodes share the round and the node is  *)
(* the second of them; the API server may send two controls.            *)
(***************************************************************************)
EXTENDS BlockPacking

=============================================================================
