-------------------------- MODULE MCContractClient --------------------------
(***************************************************************************)
(* Model-checking instance of ContractClient.  The pass run has one vote, *)
(* the manager's query, a ResetChain and an AddScaleNode, so the vote and *)
(* the API's transactions are sent in every order, with and without      *)
(* timeouts between them; the violation run has the votes of two         *)
(* consecutive blocks.                                                    *)
(***************************************************************************)
EXTENDS ContractClient

=============================================================================
