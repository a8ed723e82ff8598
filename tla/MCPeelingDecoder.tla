-------------------------- MODULE MCPeelingDecoder --------------------------
(***************************************************************************)
(* Model-checking instance of PeelingDecoder: an (n, k) = (8, 2) layer.  *)
(* As in the code files, the layer has an encoding code, lower           *)
(* triangular so that peeling from the k systematic symbols finds parity *)
(* symbol k + j from parity j, and a decoding code of the same codewords *)
(* with denser parities (the k=..._decode.txt matrix).  The collector    *)
(* may hand the decoder any subset of the 8 symbols, and the block is    *)
(* encoded from any 2 systematic bits, correctly or not.  The index      *)
(* hand-over of the tree decoder (CodedMerkleTree) runs on a 3-layer    *)
(* tree before it, the layer standing for the base that is decoded last.*)
(***************************************************************************)
EXTENDS PeelingDecoder, CodedMerkleTree

\* A three-layer tree with the code's AGGREGATE = 8 and RATE = 1/4 and a
\* halving k_set, as main.rs uses (there 128, 64, ..., 4).
MCKSet == <<8, 4, 2>>

MCEncParities == << <<1, 2, 3>>, <<2, 3, 4>>, <<3, 4, 5>>,
                    <<2, 3, 6>>, <<3, 5, 7>>, <<4, 5, 8>> >>

MCParities == << <<5, 7, 8>>, <<5, 6, 8>>, <<3, 6, 7, 8>>,
                 <<2, 4, 8>>, <<1, 3, 4, 8>>, <<1, 2, 4, 5>> >>

MCReceived == SUBSET (1 .. 8)

\* run_tree_decoder decodes from the top down, so the layer is peeled, as
\* the base, once the layers above have handed their hashes over.
MCInit == Init /\ TreeInit

BaseStep(A) == treeLayer = 1 /\ A /\ UNCHANGED treeVars

UpperStep == DecodeLayer /\ UNCHANGED vars

MCNext == BaseStep(Next) \/ UpperStep

MCSpec == /\ MCInit /\ [][MCNext]_<<vars, treeVars>>
          /\ WF_<<vars, treeVars>>(UpperStep)
          /\ WF_<<vars, treeVars>>(BaseStep(Peel))
          /\ WF_<<vars, treeVars>>(BaseStep(Stop))

=============================================================================
