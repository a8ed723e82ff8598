--------------------------- MODULE ContractClient ---------------------------
(***************************************************************************)
(* A node's client of the anchoring contract, ContractHandler              *)
(* (src/src/contract/contract.rs): one thread takes Handles from the      *)
(* contract_handle channel in order and, for SubmitVote and ResetChain,   *)
(* reads the account's transaction count, signs a raw transaction with    *)
(* that nonce and sends it to the Ethereum node; reset_chain then polls   *)
(* for the receipt for up to 60 seconds.  The queries send no            *)
(* transaction: most answer on the Handle's answer channel at once,       *)
(* GetTxReceipt polls for a receipt for up to 60 seconds and answers      *)
(* nothing, AddSideNode does nothing; the Handle, and with it its answer  *)
(* channel, is dropped when the handler returns.                          *)
(*                                                                         *)
(* The Ethereum node is modelled by the rules the client depends on:      *)
(* transaction_count(addr, None) is the count at the latest block (the    *)
(* mined transactions); a transaction whose nonce is below it is refused; *)
(* one with the nonce of a pending transaction replaces it only when its  *)
(* gas price is at least 10% higher, and is refused otherwise; pending    *)
(* transactions are mined in nonce order.                                 *)
(***************************************************************************)
EXTENDS Naturals, Sequences, FiniteSets, SequencesExt

CONSTANTS
    Blocks,  \* block ids whose aggregated vote the aggregators hand over
    Admin,   \* the API server's transactions: a subset of {"reset", "addscale"}
    Queries  \* the queries handed: a subset of {"state", "count", "nodes",
             \* "sync", "getall", "sidenode", "receipt"}; "receipt" stands
             \* for a GetTxReceipt of each vote and of an unknown hash

Vote(b) == [k |-> "vote", b |-> b]
Reset   == [k |-> "reset", b |-> 0]
\* /contract/add-scale-node: the AddScaleNode Handle of the request thread.
AddScale == [k |-> "addscale", b |-> 0]
\* A query Handle; GetTxReceipt carries the block whose vote transaction
\* it asks about, or 0 for a hash of no transaction of the account.
Query(k, b) == [k |-> k, b |-> b]

\* The Handles other threads may put on the channel, each once: the
\* aggregator's SubmitVote for each block, the manager's and the API
\* server's queries, and the API server's ResetChain and AddScaleNode.
AdminHandle == [reset |-> Reset, addscale |-> AddScale]
QueryHandles ==
    {Query(k, 0) : k \in Queries \ {"receipt"}}
    \cup {Query("receipt", b) : b \in IF "receipt" \in Queries THEN Blocks \cup {0} ELSE {}}
Inputs == {Vote(b) : b \in Blocks} \cup QueryHandles \cup {AdminHandle[a] : a \in Admin}

\* The queries whose handler sends an answer: get_curr_state,
\* count_scale_nodes, get_scale_nodes, sync_etherchain and get_all.
Answered == {"state", "count", "nodes", "sync", "getall"}

\* The senders that block on answer_rx.recv(): the manager's and the API's
\* GetCurrState, main's sync_chain and the API's sync-chain, and the API's
\* count-scale-nodes, get-scale-nodes, tx-receipt and add-side-node.  The
\* API's get-all and add-scale-node drop their receiver without waiting.
Awaits(m) == m.k \in {"state", "count", "nodes", "sync", "receipt", "sidenode"}

VARIABLES
    handles,  \* the contract_handle channel
    handed,   \* the Handles put on the channel so far
    cl,       \* the client thread: pc, the Handle in progress, the
              \* transaction it sends or polls for, its nonce, and whether
              \* a transaction was pending when the nonce was read
    pool,     \* the node's pending transactions [m, n, price]
    mined,    \* the account's mined transactions, in nonce order
    lost,     \* transactions refused by the node, with the pending flag
    reply     \* what each sender's answer_rx.recv() returned: "none" while
              \* it blocks, "ok" for an answer, "broken" for a dropped channel

vars == <<handles, handed, cl, pool, mined, lost, reply>>

(***************************************************************************)
(* Plausible faults: the nonce taken as the last used one rather than the *)
(* next, or counted one ahead; get_tx_receipt polling without a deadline. *)
(***************************************************************************)
NonceLastUsed(ch) == Len(ch) - 1
NonceAhead(ch) == Len(ch) + 1
NoDeadline == FALSE

-----------------------------------------------------------------------------

\* _transaction_count: transaction_count(address, None), the count at the
\* latest block.
TransactionCount(ch) == Len(ch)

\* The gas prices, in Gwei: submit_vote signs at 20 Gwei, reset_chain and
\* add_scale_node at 1.
VotePrice == 20
ResetPrice == 1
AddScalePrice == 1
PriceOf(m) == CASE m.k = "vote" -> VotePrice
              [] m.k = "reset" -> ResetPrice
              [] OTHER -> AddScalePrice

\* _send_transaction: the node's answer to send_raw_transaction.
Accepts(tx) ==
    /\ tx.n >= Len(mined)
    /\ \A t \in pool : t.n = tx.n => 100 * tx.price >= 110 * t.price

\* get_tx_receipt: `now.elapsed().as_secs() > 60`, checked on every poll;
\* the wall clock keeps running, so it eventually holds while the receipt
\* is missing.
Deadline == TRUE

\* Contract::new: the contract_handle channel main created, still empty;
\* start() blocks on its recv.
ContractNew ==
    /\ handles = <<>>
    /\ cl = [pc |-> "idle", h |-> Reset, m |-> Reset, n |-> 0, pend |-> FALSE]

\* Contract::start: spawn the receipt-measurement thread, which only logs
\* the receipts submit_vote hands it, and the thread of the handle loop.
Init ==
    /\ ContractNew
    /\ handed = {}
    /\ pool = {}
    /\ mined = <<>>
    /\ lost = {}
    /\ reply = [m \in Inputs |-> "none"]

\* Another thread sends a Handle on the channel: the aggregator, the
\* manager, main's sync_chain, or one of the API server's request threads
\* (ApiServer::start spawns one per request), in any order.
Hand(m) ==
    /\ m \notin handed
    /\ handles' = Append(handles, m)
    /\ handed' = handed \cup {m}
    /\ UNCHANGED <<cl, pool, mined, lost, reply>>

\* The Handle is dropped when its handler returns: a sender still blocked
\* on recv gets a disconnected channel.
Drop(r, m) == IF Awaits(m) /\ r[m] = "none" THEN [r EXCEPT ![m] = "broken"] ELSE r

\* ContractHandler::start: contract_handle.recv() and the dispatch.  An
\* answered query sends its answer and drops the Handle; AddSideNode only
\* drops it; get_tx_receipt starts polling for the transaction's receipt;
\* submit_vote, reset_chain and add_scale_node first read the nonce
\* (_transaction_count).
Take ==
    /\ cl.pc = "idle"
    /\ handles # <<>>
    /\ LET m == Head(handles)
       IN  /\ cl' = CASE m.k \in Answered \cup {"sidenode"} -> cl
                    [] m.k = "receipt" ->
                         [pc |-> "wait", h |-> m, m |-> Vote(m.b), n |-> 0, pend |-> FALSE]
                    [] OTHER ->
                         [pc |-> "send", h |-> m, m |-> m, n |-> TransactionCount(mined),
                          pend |-> pool # {}]
           /\ reply' = IF m.k \in Answered /\ Awaits(m)
                       THEN [reply EXCEPT ![m] = "ok"]
                       ELSE IF m.k = "sidenode" THEN Drop(reply, m) ELSE reply
    /\ handles' = Tail(handles)
    /\ UNCHANGED <<handed, pool, mined, lost>>

\* The rest of submit_vote, reset_chain and add_scale_node: sign with the
\* nonce read and send.  An accepted transaction replaces a pending one of
\* the same nonce; a refused one is only logged.  submit_vote returns at
\* once (the receipt is fetched by the measurement thread); reset_chain and
\* add_scale_node wait for their receipt.
Send ==
    /\ cl.pc = "send"
    /\ LET tx == [m |-> cl.m, n |-> cl.n, price |-> PriceOf(cl.m)]
       IN  IF Accepts(tx)
           THEN /\ pool' = {t \in pool : t.n # tx.n} \cup {tx}
                /\ cl' = [cl EXCEPT !.pc = IF cl.m.k = "vote" THEN "idle" ELSE "wait"]
                /\ UNCHANGED lost
           ELSE /\ lost' = lost \cup {[m |-> cl.m, pend |-> cl.pend]}
                /\ cl' = [cl EXCEPT !.pc = "idle"]
                /\ UNCHANGED pool
    /\ UNCHANGED <<handles, handed, mined, reply>>

\* get_tx_receipt: the receipt is there once the transaction is mined.  It
\* returns true and the Handle is dropped without an answer.
Receipt ==
    /\ cl.pc = "wait"
    /\ cl.m \in ToSet(mined)
    /\ cl' = [cl EXCEPT !.pc = "idle"]
    /\ reply' = Drop(reply, cl.h)
    /\ UNCHANGED <<handles, handed, pool, mined, lost>>

\* get_tx_receipt: 60 seconds pass without a receipt ("Transaction
\* TimeOut"); it returns false and the Handle is dropped.
TimeOut ==
    /\ cl.pc = "wait"
    /\ cl.m \notin ToSet(mined)
    /\ Deadline
    /\ cl' = [cl EXCEPT !.pc = "idle"]
    /\ reply' = Drop(reply, cl.h)
    /\ UNCHANGED <<handles, handed, pool, mined, lost>>

\* The chain mines the pending transaction with the next nonce.
Mine ==
    \E t \in pool :
        /\ t.n = Len(mined)
        /\ mined' = Append(mined, t.m)
        /\ pool' = pool \ {t}
        /\ UNCHANGED <<handles, handed, cl, lost, reply>>

\* Every Handle has been served: the client blocks on recv.
Served ==
    /\ handed = Inputs
    /\ handles = <<>>
    /\ cl.pc = "idle"
    /\ pool = {}
    /\ UNCHANGED vars

Next == (\E m \in Inputs : Hand(m)) \/ Take \/ Send \/ Receipt \/ TimeOut
        \/ Mine \/ Served

\* The client thread keeps running and the chain keeps mining.  The
\* receipt poll is a busy loop that re-reads the clock on every pass, so a
\* missing receipt eventually times out: weak fairness on TimeOut.
Spec == Init /\ [][Next]_vars
        /\ WF_vars(Take) /\ WF_vars(Send) /\ WF_vars(Receipt) /\ WF_vars(Mine)
        /\ WF_vars(TimeOut)

-----------------------------------------------------------------------------

TypeOK ==
    /\ handed \subseteq Inputs
    /\ cl.pc \in {"idle", "send", "wait"}
    /\ cl.n \in 0 .. Len(mined)
    /\ \A t \in pool : t.m \in Inputs /\ t.n \in 0 .. Cardinality(Inputs)
    /\ Len(mined) <= Cardinality(Inputs)
    /\ \A r \in lost : r.m \in Inputs /\ r.pend \in BOOLEAN
    /\ reply \in [Inputs -> {"none", "ok", "broken"}]

\* The node refuses a vote or reset of this client only when another
\* transaction of the account was still pending when submit_vote or
\* reset_chain read the transaction count: the nonce read is never stale
\* on its own.
LossOnlyWhenPending ==
    \A r \in lost : r.pend

\* Every thread that sends a Handle and blocks on its answer_rx.recv() (the
\* manager, main's sync_chain, an API request thread) is eventually
\* released, with an answer or a dropped channel, even behind a
\* GetTxReceipt for a transaction that is never mined.
SenderReleased ==
    \A m \in Inputs : Awaits(m) => ((m \in handed) ~> (reply[m] # "none"))

\* Every aggregated vote handed to the client (SubmitVote) ends up mined
\* on the contract (spec: the aggregated signature is submitted on chain).
VoteEventuallyMined ==
    \A b \in Blocks : (Vote(b) \in handed) ~> (Vote(b) \in ToSet(mined))

=============================================================================
