------------------------------ MODULE Transport ------------------------------
(***************************************************************************)
(* The Transport of one socket generation: concurrent calls of invoke      *)
(* (send loops, keepalive, login) share the send_order and sink locks, the *)
(* sequence counter and the pending map with the read loop, which delivers *)
(* responses and writes acknowledgements, and with close().                *)
(*                                                                         *)
(* The state mutex is never held across an await, so each critical section *)
(* under it is one step. A call carries at most one frame, so the frame is *)
(* named by its call; its sequence number is seq[c].                       *)
(***************************************************************************)
EXTENDS Integers, Sequences, FiniteSets

CONSTANTS
    Calls,        \* calls of Connection::invoke on this connection
    Reader,       \* the read loop, as a holder of the sink lock
    None,         \* nobody, nothing
    Gone,         \* what a oneshot receiver gets when its sender was dropped
    SeqModulus,   \* sequence numbers wrap here; 2^32 in the program
    MaxPushes     \* bound: pushes the server sends that need an acknowledgement

Seqs == 0 .. SeqModulus - 1

ASSUME ModulusAssumption == SeqModulus \in Nat /\ SeqModulus > 1
ASSUME PushesAssumption == MaxPushes \in Nat
ASSUME NamesAssumption ==
    /\ Reader # None /\ None # Gone /\ Reader # Gone
    /\ {Reader, None, Gone} \cap Calls = {}

VARIABLES
    sendOrder,   \* send_order: the call holding it, or None
    sinkLock,    \* the sink mutex: a call, the reader, or None
    sink,        \* the sink is Some
    nextSeq,     \* TransportState.next_seq
    pending,     \* TransportState.pending: the call whose sender is stored, or None
    pc,          \* where each call is
    seq,         \* the number each call took
    inbox,       \* its oneshot: None, the call whose response it got, or Gone
    result,      \* what it returned
    wire,        \* frames handed to the socket, in order
    served,      \* calls the server has answered
    replies,     \* answers the read loop has not seen yet
    reader,      \* what the read loop is doing
    pushes,      \* pushes taken so far
    cancelled,   \* Connection.cancellation
    closing      \* how far Attempt::close is

lockVars   == <<sendOrder, sinkLock>>
stateVars  == <<nextSeq, pending>>
callVars   == <<pc, seq, inbox, result>>
serverVars == <<served, replies>>
readerVars == <<reader, pushes>>
closeVars  == <<sink, cancelled, closing>>
vars == <<lockVars, stateVars, callVars, wire, serverVars, readerVars, closeVars>>

\* Past the allocation, with the receiver of the oneshot alive.
Waiting == {"registered", "feeding", "flushing", "unsending", "awaiting"}
\* At an await of invoke, where its future may be dropped.
InFlight == {"ordering", "numbered", "removing"} \cup Waiting
CallPcs == {"idle", "returned", "dropped"} \cup InFlight

TypeOK ==
    /\ sendOrder \in Calls \cup {None}
    /\ sinkLock \in Calls \cup {Reader, None}
    /\ sink \in BOOLEAN
    /\ nextSeq \in Seqs
    /\ pending \in [Seqs -> Calls \cup {None}]
    /\ pc \in [Calls -> CallPcs]
    /\ seq \in [Calls -> Seqs]
    /\ inbox \in [Calls -> Calls \cup {None, Gone}]
    /\ result \in [Calls -> {"none", "response", "failed", "duplicate"}]
    /\ wire \in Seq(Calls)
    /\ served \in SUBSET Calls
    /\ replies \in SUBSET Calls
    /\ reader \in {"reading", "ackWait", "acking", "ended"}
    /\ pushes \in 0 .. MaxPushes
    /\ cancelled \in BOOLEAN
    /\ closing \in {"no", "joined", "cleared", "closed"}

Init ==
    /\ sendOrder = None
    /\ sinkLock = None
    /\ sink = TRUE
    /\ nextSeq = 1
    /\ pending = [n \in Seqs |-> None]
    /\ pc = [c \in Calls |-> "idle"]
    /\ seq = [c \in Calls |-> 0]
    /\ inbox = [c \in Calls |-> None]
    /\ result = [c \in Calls |-> "none"]
    /\ wire = <<>>
    /\ served = {}
    /\ replies = {}
    /\ reader = "reading"
    /\ pushes = 0
    /\ cancelled = FALSE
    /\ closing = "no"

-----------------------------------------------------------------------------
(* Helpers. A definition named ...Mutant is a plausible slip in the one     *)
(* after it; no action uses it.                                             *)

Goto(c, label) == pc' = [pc EXCEPT ![c] = label]
OnWire == {wire[i] : i \in DOMAIN wire}

\* next_seq.wrapping_add(1)
NextSeqMutant == nextSeq
NextSeq == (nextSeq + 1) % SeqModulus

\* The receiver has not been dropped.
Alive(c) == pc[c] \in Waiting

\* pending.retain(|_, waiter| !waiter.is_closed())
PrunedMutant == pending
PrunedInvertedMutant == [n \in Seqs |->
              IF pending[n] # None /\ Alive(pending[n]) THEN None ELSE pending[n]]
Pruned == [n \in Seqs |->
              IF pending[n] # None /\ ~Alive(pending[n]) THEN None ELSE pending[n]]

\* contains_key after the prune.
TakenMutant(n) == FALSE
Taken(n) == Pruned[n] # None

\* pending.remove(&n) at the end of a call: whoever is stored loses its sender.
RemoveEntry(n) ==
    /\ pending' = [pending EXCEPT ![n] = None]
    /\ inbox' = [d \in Calls |-> IF pending[n] = d THEN Gone ELSE inbox[d]]

\* A call is over, whatever it holds is released.
UnlockOrder(c) == sendOrder' = IF sendOrder = c THEN None ELSE sendOrder
UnlockSinkMutant(c) == UNCHANGED sinkLock
UnlockSink(c) == sinkLock' = IF sinkLock = c THEN None ELSE sinkLock

\* Connection::invoke cancels the connection on every transport failure.
FailsWith(c, how) ==
    /\ Goto(c, "returned")
    /\ result' = [result EXCEPT ![c] = how]
    /\ cancelled' = TRUE

-----------------------------------------------------------------------------
(* Connection::invoke and Transport::invoke.                               *)

\* The biased select! looks at the token first.
Invoke(c) ==
    /\ pc[c] = "idle"
    /\ ~cancelled
    /\ Goto(c, "ordering")
    /\ UNCHANGED <<lockVars, stateVars, seq, inbox, result, wire, serverVars, readerVars, closeVars>>

\* send_order is held from here until the frame is flushed. The mutant gives it
\* back once the number is allocated.
TakeNumberMutant(c) ==
    /\ pc[c] = "ordering"
    /\ sendOrder = None
    /\ seq' = [seq EXCEPT ![c] = nextSeq]
    /\ nextSeq' = NextSeq
    /\ Goto(c, "numbered")
    /\ UNCHANGED <<lockVars, pending, inbox, result, wire, serverVars, readerVars, closeVars>>
TakeNumber(c) ==
    /\ pc[c] = "ordering"
    /\ sendOrder = None
    /\ sendOrder' = c
    /\ seq' = [seq EXCEPT ![c] = nextSeq]
    /\ nextSeq' = NextSeq
    /\ Goto(c, "numbered")
    /\ UNCHANGED <<sinkLock, pending, inbox, result, wire, serverVars, readerVars, closeVars>>

Register(c) ==
    /\ pc[c] = "numbered"
    /\ ~Taken(seq[c])
    /\ pending' = [Pruned EXCEPT ![seq[c]] = c]
    /\ Goto(c, "registered")
    /\ UNCHANGED <<lockVars, nextSeq, seq, inbox, result, wire, serverVars, readerVars, closeVars>>

Duplicate(c) ==
    /\ pc[c] = "numbered"
    /\ Taken(seq[c])
    /\ pending' = Pruned
    /\ UnlockOrder(c)
    /\ FailsWith(c, "duplicate")
    /\ UNCHANGED <<sinkLock, nextSeq, seq, inbox, wire, serverVars, readerVars, sink, closing>>

\* Transport::send: the sink lock, then the sink if it is still there.
TakeSink(c) ==
    /\ pc[c] = "registered"
    /\ sinkLock = None
    /\ IF sink THEN sinkLock' = c /\ Goto(c, "feeding")
               ELSE UNCHANGED sinkLock /\ Goto(c, "unsending")
    /\ UNCHANGED <<sendOrder, stateVars, seq, inbox, result, wire, serverVars, readerVars, closeVars>>

\* The frame is in the socket's buffer: the server may see it whatever follows.
Feed(c) ==
    /\ pc[c] = "feeding"
    /\ wire' = Append(wire, c)
    /\ Goto(c, "flushing")
    /\ UNCHANGED <<lockVars, stateVars, seq, inbox, result, serverVars, readerVars, closeVars>>

Flushed(c) ==
    /\ pc[c] = "flushing"
    /\ UnlockSink(c)
    /\ UnlockOrder(c)
    /\ Goto(c, "awaiting")
    /\ UNCHANGED <<stateVars, seq, inbox, result, wire, serverVars, readerVars, closeVars>>

\* The socket fails, or the write takes longer than DEFAULT_TIMEOUT.
WriteFails(c) ==
    /\ pc[c] \in {"feeding", "flushing"}
    /\ UnlockSink(c)
    /\ Goto(c, "unsending")
    /\ UNCHANGED <<sendOrder, stateVars, seq, inbox, result, wire, serverVars, readerVars, closeVars>>

\* The error path of register_and_send.
Unsend(c) ==
    /\ pc[c] = "unsending"
    /\ RemoveEntry(seq[c])
    /\ UnlockOrder(c)
    /\ FailsWith(c, "failed")
    /\ UNCHANGED <<sinkLock, nextSeq, seq, wire, serverVars, readerVars, sink, closing>>

\* await_response: an answer, which the server may have marked CMD_ERROR.
Answered(c) ==
    /\ pc[c] = "awaiting"
    /\ inbox[c] \in Calls
    /\ Goto(c, "returned")
    /\ result' = [result EXCEPT ![c] = "response"]
    /\ UNCHANGED <<lockVars, stateVars, seq, inbox, wire, serverVars, readerVars, closeVars>>

\* await_response: the sender was dropped, or DEFAULT_TIMEOUT passed. The receiver
\* is gone, the entry is removed in a later step. The mutant has no timeout.
GivesUpMutant(c) ==
    /\ pc[c] = "awaiting"
    /\ inbox[c] = Gone
    /\ Goto(c, "removing")
    /\ UNCHANGED <<lockVars, stateVars, seq, inbox, result, wire, serverVars, readerVars, closeVars>>
GivesUp(c) ==
    /\ pc[c] = "awaiting"
    /\ inbox[c] \notin Calls
    /\ Goto(c, "removing")
    /\ UNCHANGED <<lockVars, stateVars, seq, inbox, result, wire, serverVars, readerVars, closeVars>>

Remove(c) ==
    /\ pc[c] = "removing"
    /\ RemoveEntry(seq[c])
    /\ FailsWith(c, "failed")
    /\ UNCHANGED <<lockVars, nextSeq, seq, wire, serverVars, readerVars, sink, closing>>

\* The future is dropped at an await, by Connection::invoke when the connection
\* is cancelled or by whoever called it. Its guards go; its entry stays.
Drop(c) ==
    /\ pc[c] \in InFlight
    /\ UnlockOrder(c)
    /\ UnlockSink(c)
    /\ Goto(c, "dropped")
    /\ UNCHANGED <<stateVars, seq, inbox, result, wire, serverVars, readerVars, closeVars>>

-----------------------------------------------------------------------------
(* The server and the read loop.                                           *)

\* The server answers a frame it was sent, in any order, at most once.
Serve(c) ==
    /\ c \in OnWire \ served
    /\ served' = served \cup {c}
    /\ replies' = replies \cup {c}
    /\ UNCHANGED <<lockVars, stateVars, callVars, wire, readerVars, closeVars>>

\* receive_response: to whoever is stored under that number; a receiver that is
\* gone does not get it.
ReadResponse(c) ==
    /\ reader = "reading"
    /\ c \in replies
    /\ replies' = replies \ {c}
    /\ pending' = [pending EXCEPT ![seq[c]] = None]
    /\ inbox' = [d \in Calls |->
                    IF pending[seq[c]] = d /\ Alive(d) THEN c ELSE inbox[d]]
    /\ UNCHANGED <<lockVars, nextSeq, pc, seq, result, wire, served, readerVars, closeVars>>

\* handle_server_request: a push is acknowledged through the sink before the
\* read loop takes its next frame.
ReadPush ==
    /\ reader = "reading"
    /\ pushes < MaxPushes
    /\ pushes' = pushes + 1
    /\ reader' = "ackWait"
    /\ UNCHANGED <<lockVars, stateVars, callVars, wire, serverVars, closeVars>>

AckTakesSink ==
    /\ reader = "ackWait"
    /\ sinkLock = None
    /\ IF sink THEN sinkLock' = Reader /\ reader' = "acking"
               ELSE UNCHANGED sinkLock /\ reader' = "reading"
    /\ UNCHANGED <<sendOrder, stateVars, callVars, wire, serverVars, pushes, closeVars>>

\* Written or not: the outcome of an acknowledgement is ignored.
AckEnds ==
    /\ reader = "acking"
    /\ sinkLock' = None
    /\ reader' = "reading"
    /\ UNCHANGED <<sendOrder, stateVars, callVars, wire, serverVars, pushes, closeVars>>

-----------------------------------------------------------------------------
(* Cancellation and Attempt::close.                                        *)

\* RECONNECT, a lost socket, a failed ping, a stop, or the start of close.
Cancel ==
    /\ ~cancelled
    /\ cancelled' = TRUE
    /\ UNCHANGED <<lockVars, stateVars, callVars, wire, serverVars, readerVars, sink, closing>>

\* The read loop is aborted, wherever it is, and joined.
CloseJoin ==
    /\ cancelled
    /\ closing = "no"
    /\ reader' = "ended"
    /\ sinkLock' = IF sinkLock = Reader THEN None ELSE sinkLock
    /\ closing' = "joined"
    /\ UNCHANGED <<sendOrder, stateVars, callVars, wire, serverVars, pushes, sink, cancelled>>

\* Transport::close, first half: every stored sender is dropped.
ClosePending ==
    /\ closing = "joined"
    /\ pending' = [n \in Seqs |-> None]
    /\ inbox' = [d \in Calls |-> IF \E n \in Seqs : pending[n] = d THEN Gone ELSE inbox[d]]
    /\ closing' = "cleared"
    /\ UNCHANGED <<lockVars, nextSeq, pc, seq, result, wire, serverVars, readerVars, sink, cancelled>>

\* Second half: the sink, once nobody is writing to it.
CloseSink ==
    /\ closing = "cleared"
    /\ sinkLock = None
    /\ sink' = FALSE
    /\ closing' = "closed"
    /\ UNCHANGED <<lockVars, stateVars, callVars, wire, serverVars, readerVars, cancelled>>

-----------------------------------------------------------------------------
Proceed(c) ==
    \/ TakeNumber(c) \/ Register(c) \/ Duplicate(c) \/ TakeSink(c) \/ Feed(c)
    \/ Flushed(c) \/ WriteFails(c) \/ Unsend(c) \/ Answered(c) \/ GivesUp(c) \/ Remove(c)

Call(c)  == Invoke(c) \/ Proceed(c) \/ Drop(c)
Server   == \E c \in Calls : Serve(c)
ReadLoop == (\E c \in Calls : ReadResponse(c)) \/ ReadPush \/ AckTakesSink \/ AckEnds
Close    == Cancel \/ CloseJoin \/ ClosePending \/ CloseSink

Next == (\E c \in Calls : Call(c)) \/ Server \/ ReadLoop \/ Close

Spec == Init /\ [][Next]_vars

\* Every lock wait and every await of invoke ends: the locks are fair queues and
\* writes and responses have a 20 s timeout. The server need not answer.
Fairness ==
    /\ \A c \in Calls : SF_vars(Proceed(c))
    /\ SF_vars(AckTakesSink)
    /\ WF_vars(AckEnds)
    /\ WF_vars(CloseJoin)
    /\ WF_vars(ClosePending)
    /\ SF_vars(CloseSink)

FairSpec == Spec /\ Fairness

-----------------------------------------------------------------------------
(* Properties.                                                             *)

\* A call that returns a response returns the response to its own request, while
\* requests are dropped, time out and are answered late or out of order.
ResponseMatches ==
    \A c \in Calls : result[c] = "response" => inbox[c] = c

\* Frames leave in the order of their sequence numbers: send_order covers the
\* allocation and the write.
WireInOrder ==
    \A i, j \in DOMAIN wire : i < j => seq[wire[i]] < seq[wire[j]]

\* A call still waiting for its response can be found by it: its sender is stored
\* under its number until it is used, or dropped by close.
NoWaiterLost ==
    \A c \in Calls : Alive(c) /\ inbox[c] = None => pending[seq[c]] = c

\* At the wrap of the sequence counter, a request never takes the entry of one
\* that is still waiting (DuplicateSequence is raised instead).
NoWaiterReplaced ==
    [][\A n \in Seqs, c \in Calls :
        pending[n] = c /\ Alive(c) => pending'[n] \in {c, None}]_vars

\* DuplicateSequence is raised only for a number that a waiting request holds:
\* what dropped requests leave behind does not block the counter when it wraps.
DuplicateMeansInFlight ==
    [][\A c \in Calls : result'[c] = "duplicate" /\ result[c] = "none" =>
        \E d \in Calls \ {c} : Alive(d) /\ seq[d] = seq[c]]_vars

\* What is left of a call, for its caller and for the server.
Status(c) ==
    CASE pc[c] = "idle" -> "new"
      [] pc[c] \in InFlight -> "open"
      [] pc[c] = "dropped" -> "failed"
      [] pc[c] = "returned" -> IF result[c] = "response" THEN "answered" ELSE "failed"

Abstract == INSTANCE RequestReply
                WITH status <- [c \in Calls |-> Status(c)], asked <- OnWire, answered <- served

\* Locks, numbers, table, late answers and close() implement RequestReply: no
\* call returns a response the server did not give to it.
ImplementsRequestReply == Abstract!Spec

\* Every call ends, whatever the server, the socket and the other calls do.
CallsReturn ==
    \A c \in Calls : pc[c] = "ordering" ~> pc[c] \in {"returned", "dropped"}

\* Whoever waits for the sink gets it, although calls contend for it: the read
\* loop gets through its acknowledgement, so that responses flow again, and a
\* close() that has joined the read loop goes on to close the socket.
SinkWaitsEnd ==
    /\ reader = "ackWait" ~> reader \in {"reading", "ended"}
    /\ closing = "joined" ~> closing = "closed" /\ ~sink
=============================================================================
