------------------------------ MODULE PeerLink ------------------------------
(***************************************************************************)
(* One TCP connection between two nodes (src/src/network/peer.rs and      *)
(* server.rs), in the direction from a sending node to a receiving one.   *)
(*                                                                         *)
(* Sender: a thread calls PeerHandle::write, which serializes the message *)
(* and puts it on the peer's write queue, a mio_extras channel registered *)
(* with the server's poll (edge, oneshot) under the peer's local token.  *)
(* The server thread handles the local-token event by registering the     *)
(* socket for readable|writable; the writable event runs process_writable, *)
(* whose WriteContext::write loop frames each queued message as a 4-byte  *)
(* big-endian length and the payload, resuming a partly written frame     *)
(* after WouldBlock.  When the queue is empty (Complete) the socket is    *)
(* registered for readable only and the queue re-armed.                   *)
(*                                                                         *)
(* Receiver: the readable event runs process_readable, whose loop calls   *)
(* ReadContext::read until WouldBlock: it fills the 4-byte length, then   *)
(* the payload, and hands each whole payload, deserialized, to the        *)
(* performer's task channel.                                              *)
(*                                                                         *)
(* The BufWriter and the socket's buffers are one byte path of CAP bytes: *)
(* a write call takes some of the bytes offered, or blocks when the path  *)
(* is full; a read takes some of the bytes in it.  Messages are model     *)
(* values whose serialization is a short byte sequence.  The peer's      *)
(* removal on EOF or an I/O error is not modelled.                        *)
(***************************************************************************)
EXTENDS Naturals, Sequences, SequencesExt

CONSTANTS
    Msgs,     \* the messages the sending node puts on this peer's queue
    Payload,  \* bincode::serialize: message -> its bytes (nonempty)
    CAP       \* bytes the write path holds before a write would block

ASSUME /\ Payload \in [Msgs -> Seq(0 .. 255)]
       /\ \A m \in Msgs : Len(Payload[m]) \in 1 .. 255
       /\ CAP \in Nat \ {0}

\* std::mem::size_of::<u32>(): the length prefix.
LENSIZE == 4

VARIABLES
    sent,     \* the messages put on the write queue, in order
    wq,       \* WriteContext.queue: serialized messages not yet taken
    w,        \* WriteContext: st, lenBuf, msgBuf, msgLen, written
    wpc,      \* the sending server thread: "poll" or inside process_writable
    qArmed,   \* the queue's oneshot registration is armed
    wInt,     \* the socket is registered for writable as well
    wEdge,    \* a writable edge is pending for the socket
    tcp,      \* bytes written and not yet read
    r,        \* ReadContext: st, buf, msgLen, readLen
    rpc,      \* the receiving server thread: "poll", "reading" or "panicked"
    rEdge,    \* a readable edge is pending for the receiving socket
    recvd     \* the messages handed to the receiver's performer, in order

linkVars == <<sent, wq, w, wpc, qArmed, wInt, wEdge, tcp, r, rpc, rEdge, recvd>>

(***************************************************************************)
(* Plausible faults: a read into buffer[read_length..] not bounded by    *)
(* msg_length; Complete without re-registering the queue.                 *)
(***************************************************************************)
ReadWindowUnbounded(x) == CAP
NoRearm == FALSE

-----------------------------------------------------------------------------

\* (len as u32).to_be_bytes() and u32::from_be_bytes.
ToBeBytes(n) == [i \in 1 .. LENSIZE |-> (n \div 256 ^ (LENSIZE - i)) % 256]
FromBeBytes(b) == ((b[1] * 256 + b[2]) * 256 + b[3]) * 256 + b[4]

\* bincode::deserialize(&m).unwrap(): the message whose bytes these are.
Decodes(b) == {m \in Msgs : Payload[m] = b}

Free == CAP - Len(tcp)

\* PeerContext::new: the writer starts in Payload with nothing to write, so
\* its first call takes a message from the queue; the reader expects a
\* length.
PeerContextNew ==
    /\ w = [st |-> "Payload", lenBuf |-> ToBeBytes(0), msgBuf |-> <<>>,
            msgLen |-> 0, written |-> 0]
    /\ r = [st |-> "Length", buf |-> [i \in 1 .. LENSIZE |-> 0],
            msgLen |-> LENSIZE, readLen |-> 0]

\* register_peer: the socket registered readable (edge), the queue
\* readable (edge | oneshot).
LinkInit ==
    /\ PeerContextNew
    /\ sent = <<>> /\ wq = <<>> /\ recvd = <<>> /\ tcp = <<>>
    /\ wpc = "poll" /\ rpc = "poll"
    /\ qArmed = TRUE /\ wInt = FALSE /\ wEdge = FALSE /\ rEdge = FALSE

\* PeerHandle::write: serialize and send on the write queue.
Enqueue(m) ==
    /\ m \notin ToSet(sent)
    /\ sent' = Append(sent, m)
    /\ wq' = Append(wq, Payload[m])
    /\ UNCHANGED <<w, wpc, qArmed, wInt, wEdge, tcp, r, rpc, rEdge, recvd>>

\* listen, LOCAL_TOKEN: the queue has a message and its oneshot fires; the
\* socket is re-registered for readable | writable, which raises a
\* writable edge.
LocalEvent ==
    /\ wpc = "poll"
    /\ qArmed /\ wq # <<>>
    /\ qArmed' = FALSE
    /\ wInt' = TRUE
    /\ wEdge' = TRUE
    /\ UNCHANGED <<sent, wq, w, wpc, tcp, r, rpc, rEdge, recvd>>

\* listen, NETWORK_TOKEN writable: process_writable calls writer.write().
WritableEvent ==
    /\ wpc = "poll"
    /\ wInt /\ wEdge /\ Free > 0
    /\ wEdge' = FALSE
    /\ wpc' = "writing"
    /\ UNCHANGED <<sent, wq, w, qArmed, wInt, tcp, r, rpc, rEdge, recvd>>

\* The bytes of the current frame part still to write.
ToWrite == IF w.st = "Length"
           THEN SubSeq(w.lenBuf, w.written + 1, LENSIZE)
           ELSE SubSeq(w.msgBuf, w.written + 1, w.msgLen)

\* self.writer.write(&buf[written..]): n bytes taken; the receiving
\* socket becomes readable.
WriteBytes ==
    /\ wpc = "writing"
    /\ ToWrite # <<>> /\ Free > 0
    /\ \E n \in 1 .. Min({Len(ToWrite), Free}) :
         /\ tcp' = tcp \o SubSeq(ToWrite, 1, n)
         /\ w' = [w EXCEPT !.written = @ + n]
    /\ rEdge' = TRUE
    /\ UNCHANGED <<sent, wq, wpc, qArmed, wInt, wEdge, r, rpc, recvd>>

\* The write returns WouldBlock: the `?` returns it and process_writable
\* ignores it; the socket stays registered for writable.
WriteBlocked ==
    /\ wpc = "writing"
    /\ ToWrite # <<>> /\ Free = 0
    /\ wpc' = "poll"
    /\ UNCHANGED <<sent, wq, w, qArmed, wInt, wEdge, tcp, r, rpc, rEdge, recvd>>

\* WriteState::Length with the whole length written: go to the payload.
LengthDone(x) == [x EXCEPT !.st = "Payload", !.written = 0]

WriteLengthDone ==
    /\ wpc = "writing"
    /\ w.st = "Length" /\ w.written = LENSIZE
    /\ w' = LengthDone(w)
    /\ UNCHANGED <<sent, wq, wpc, qArmed, wInt, wEdge, tcp, r, rpc, rEdge, recvd>>

\* WriteState::Payload with the whole payload written: flush, and
\* try_recv the next message, whose length is put in len_buffer.
WriteNext ==
    /\ wpc = "writing"
    /\ w.st = "Payload" /\ w.written = w.msgLen
    /\ wq # <<>>
    /\ w' = [st |-> "Length", lenBuf |-> ToBeBytes(Len(Head(wq))),
             msgBuf |-> Head(wq), msgLen |-> Len(Head(wq)), written |-> 0]
    /\ wq' = Tail(wq)
    /\ UNCHANGED <<sent, wpc, qArmed, wInt, wEdge, tcp, r, rpc, rEdge, recvd>>

\* process_writable, Ok(Complete): register the socket for readable
\* only, and re-register the queue (edge | oneshot).
RearmQueue == TRUE

WriteComplete ==
    /\ wpc = "writing"
    /\ w.st = "Payload" /\ w.written = w.msgLen
    /\ wq = <<>>
    /\ wInt' = FALSE
    /\ qArmed' = RearmQueue
    /\ wpc' = "poll"
    /\ UNCHANGED <<sent, wq, w, wEdge, tcp, r, rpc, rEdge, recvd>>

\* listen, NETWORK_TOKEN readable on the receiving node: process_readable.
ReadableEvent ==
    /\ rpc = "poll" /\ rEdge
    /\ rEdge' = FALSE
    /\ rpc' = "reading"
    /\ UNCHANGED <<sent, wq, w, wpc, qArmed, wInt, wEdge, tcp, r, recvd>>

\* ReadContext::read, Ok(size): bytes into buffer[read_length..msg_length];
\* a filled length switches to the payload (the buffer grown to fit), a
\* filled payload is deserialized and sent to the performer.  The
\* sending socket regains room: a writable edge.
Filled(x, bytes) ==
    [x EXCEPT !.buf = [i \in 1 .. Max({Len(x.buf), x.readLen + Len(bytes)}) |->
                         IF i > x.readLen /\ i <= x.readLen + Len(bytes)
                         THEN bytes[i - x.readLen] ELSE x.buf[i]],
              !.readLen = @ + Len(bytes)]

Grown(buf, n) == [i \in 1 .. Max({Len(buf), n}) |-> IF i <= Len(buf) THEN buf[i] ELSE 0]

\* The slice buffer[read_length..msg_length] a read fills.
ReadWindow(x) == x.msgLen - x.readLen

ReadBytes ==
    /\ rpc = "reading"
    /\ tcp # <<>>
    /\ \E n \in 1 .. Min({Len(tcp), ReadWindow(r)}) :
         LET x == Filled(r, SubSeq(tcp, 1, n))
             body == SubSeq(x.buf, 1, x.msgLen)
         IN  /\ tcp' = SubSeq(tcp, n + 1, Len(tcp))
             /\ CASE x.readLen < x.msgLen ->
                       r' = x /\ UNCHANGED <<recvd, rpc>>
                  [] x.st = "Length" ->
                       /\ r' = [x EXCEPT !.st = "Payload", !.readLen = 0,
                                         !.msgLen = FromBeBytes(x.buf),
                                         !.buf = Grown(x.buf, FromBeBytes(x.buf))]
                       /\ UNCHANGED <<recvd, rpc>>
                  [] OTHER ->
                       /\ r' = [x EXCEPT !.st = "Length", !.readLen = 0, !.msgLen = LENSIZE]
                       /\ IF Decodes(body) = {}
                          THEN rpc' = "panicked" /\ UNCHANGED recvd
                          ELSE /\ recvd' = Append(recvd, CHOOSE m \in Decodes(body) : TRUE)
                               /\ UNCHANGED rpc
    /\ wEdge' = TRUE
    /\ UNCHANGED <<sent, wq, w, wpc, qArmed, wInt, rEdge>>

\* The read returns WouldBlock: process_readable stops reading.
ReadBlocked ==
    /\ rpc = "reading"
    /\ tcp = <<>>
    /\ rpc' = "poll"
    /\ UNCHANGED <<sent, wq, w, wpc, qArmed, wInt, wEdge, tcp, r, rEdge, recvd>>

LinkStep ==
    \/ LocalEvent \/ WritableEvent \/ WriteBytes \/ WriteBlocked
    \/ WriteLengthDone \/ WriteNext \/ WriteComplete
    \/ ReadableEvent \/ ReadBytes \/ ReadBlocked

\* Both server threads keep polling, and mio reports every event whose
\* readiness is raised while the source is registered for it.
LinkFairness == WF_linkVars(LinkStep)

-----------------------------------------------------------------------------

\* The receiving performer gets exactly the messages put on the queue, in
\* the order they were put, each once: the framing, resumed after every
\* partial or blocked write and split over any reads, loses, duplicates
\* and corrupts nothing, and the bincode unwrap never panics.
LinkIsFifo ==
    /\ rpc # "panicked"
    /\ IsPrefix(recvd, sent)

\* Every message put on the queue reaches the receiving performer: the
\* oneshot registration of the queue and the edge-triggered socket
\* events never leave a queued message unwritten or written bytes unread.
LinkDelivers ==
    \A m \in Msgs : (m \in ToSet(sent)) ~> (m \in ToSet(recvd))

=============================================================================
