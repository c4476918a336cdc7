------------------------------- MODULE FileSend -------------------------------
(***************************************************************************)
(* Calls of send_file_bytes on one handle: ask for an upload, register for *)
(* its completion, upload over HTTP, wait until the server has processed   *)
(* the file, send the message; replay all of it when the session is lost,  *)
(* under the client message id that next_cid gave the call at its start.   *)
(* Each connection has its own AttachmentRegistry, which its read loop     *)
(* completes. How sessions come and go is MaxClient's; here they do.       *)
(***************************************************************************)
EXTENDS Integers, FiniteSets

CONSTANTS
    Sends,           \* calls of send_file_bytes
    FileIds,         \* file ids the server hands out
    None,            \* nobody
    MaxGenerations,  \* bound: connections; the last one is not lost
    MaxMillis        \* bound: what the clock may read

Generations == 1 .. MaxGenerations

ASSUME GenerationsAssumption == MaxGenerations \in Nat \ {0}
ASSUME MillisAssumption == MaxMillis \in Nat
ASSUME NoneAssumption == None \notin Sends \cup FileIds

VARIABLES
    gen,         \* the newest connection
    cancelled,   \* connections that are cancelled
    readers,     \* connections whose read loop is alive
    registry,    \* whose registration each connection stores under each file id
    pc,          \* where each call is
    on,          \* the connection it uses
    file,        \* the file id it was given there
    completion,  \* its oneshot: "empty", "sent", or "dropped" with its registration
    lastCid,     \* InnerClient::cid, the id given last
    cid,         \* the id of each call's message, 0 before it has one
    written,     \* messages, with their ids, that may have reached the server
    stored,      \* ids of the messages the server has stored
    delivered    \* how often each call's message was stored

sessionVars == <<gen, cancelled, readers>>
callVars    == <<pc, on, file>>
idVars      == <<lastCid, cid>>
serverVars  == <<written, stored, delivered>>
vars == <<sessionVars, registry, callVars, completion, idVars, serverVars>>

\* An AttachmentWaiter exists.
Registered == {"uploading", "processing"}
\* At an await on the connection: invoke, or a select! with its cancellation.
OnConnection == {"asking", "sending"} \cup Registered
Final == {"ok", "error", "timeout", "abandoned"}

UploadsTypeOK ==
    /\ gen \in Generations
    /\ cancelled \in SUBSET Generations
    /\ readers \in SUBSET Generations
    /\ registry \in [Generations -> [FileIds -> Sends \cup {None}]]
    /\ pc \in [Sends -> {"new", "current"} \cup OnConnection \cup Final]
    /\ on \in [Sends -> Generations]
    /\ file \in [Sends -> FileIds \cup {None}]
    /\ \A s \in Sends : pc[s] \in Registered => file[s] \in FileIds
    /\ completion \in [Sends -> {"empty", "sent", "dropped"}]

MessagesTypeOK ==
    /\ lastCid \in Int
    /\ cid \in [Sends -> Int]
    /\ written \subseteq Sends \X Int
    /\ stored \subseteq Int
    /\ delivered \in [Sends -> Nat]

TypeOK == UploadsTypeOK /\ MessagesTypeOK

Init ==
    /\ gen = 1
    /\ cancelled = {}
    /\ readers = {1}
    /\ registry = [g \in Generations |-> [f \in FileIds |-> None]]
    /\ pc = [s \in Sends |-> "new"]
    /\ on = [s \in Sends |-> 1]
    /\ file = [s \in Sends |-> None]
    /\ completion = [s \in Sends |-> "empty"]
    /\ \E millis \in 0 .. MaxMillis : lastCid = -millis
    /\ cid = [s \in Sends |-> 0]
    /\ written = {} /\ stored = {}
    /\ delivered = [s \in Sends |-> 0]

-----------------------------------------------------------------------------
(* The registry. A definition named ...Mutant is a plausible slip in the one *)
(* after it; no action uses it.                                             *)

Goto(s, label) == pc' = [pc EXCEPT ![s] = label]

\* Connection::cancelled, looked at first by every biased select!.
IsCancelled(g) == g \in cancelled

\* A call uses a connection once, so its name is the identity of its
\* registration there.
OwnsMutant(s) == file[s] # None
OwnsNeverMutant(s) == FALSE
Owns(s) == file[s] # None /\ registry[on[s]][file[s]] = s

\* AttachmentWaiter::drop. Whoever's registration it removes loses its sender.
DropWaiter(s) ==
    IF pc[s] \in Registered /\ Owns(s)
    THEN /\ registry' = [registry EXCEPT ![on[s]][file[s]] = None]
         /\ completion' = [r \in Sends |->
                              IF registry[on[s]][file[s]] = r /\ completion[r] = "empty"
                              THEN "dropped" ELSE completion[r]]
    ELSE UNCHANGED <<registry, completion>>

\* AttachmentRegistry::register. The mutant forgets the file ids in use.
CanRegisterMutant(g, f) == TRUE
CanRegister(g, f) == registry[g][f] = None

\* is_transport_failure, and cancellation, send the loop round.
Replay(s) == Goto(s, "current")

\* FILE_PROCESS_TIMEOUT.
WaitMayTimeOutMutant(s) == FALSE
WaitMayTimeOut(s) == completion[s] = "empty"

\* The bound: the environment does not lose the last connection.
MayFail(g) == g < MaxGenerations

-----------------------------------------------------------------------------
(* One call of send_file_bytes.                                            *)

\* next_cid. The clock is read before the lock is taken, and may stand still or
\* go back: whatever it reads, the id is below all others.
FreshCidMutant(millis) == IF -millis < lastCid THEN -millis ELSE lastCid
FreshCid(millis) == IF -millis < lastCid - 1 THEN -millis ELSE lastCid - 1

NextCid(s) ==
    /\ pc[s] = "new"
    /\ \E millis \in 0 .. MaxMillis : lastCid' = FreshCid(millis)
    /\ cid' = [cid EXCEPT ![s] = lastCid']
    /\ Goto(s, "current")
    /\ UNCHANGED <<sessionVars, registry, on, file, completion, serverVars>>

Current(s) ==
    /\ pc[s] = "current"
    /\ ~IsCancelled(gen)
    /\ on' = [on EXCEPT ![s] = gen]
    /\ file' = [file EXCEPT ![s] = None]
    /\ Goto(s, "asking")
    /\ UNCHANGED <<sessionVars, registry, completion, idVars, serverVars>>

\* The answer to FILE_UPLOAD names a file id: register before uploading.
UploadGranted(s, f) ==
    /\ pc[s] = "asking"
    /\ ~IsCancelled(on[s])
    /\ CanRegister(on[s], f)
    /\ registry' = [registry EXCEPT ![on[s]][f] = s]
    /\ completion' = [completion EXCEPT ![s] = "empty"]
    /\ file' = [file EXCEPT ![s] = f]
    /\ Goto(s, "uploading")
    /\ UNCHANGED <<sessionVars, on, idVars, serverVars>>

\* The server refuses, answers without a url or file id, or names an id in use.
UploadRefused(s) ==
    /\ pc[s] = "asking"
    /\ ~IsCancelled(on[s])
    /\ Goto(s, "error")
    /\ UNCHANGED <<sessionVars, registry, on, file, completion, idVars, serverVars>>

Uploaded(s) ==
    /\ pc[s] = "uploading"
    /\ ~IsCancelled(on[s])
    /\ Goto(s, "processing")
    /\ UNCHANGED <<sessionVars, registry, on, file, completion, idVars, serverVars>>

UploadFails(s) ==
    /\ pc[s] = "uploading"
    /\ ~IsCancelled(on[s])
    /\ DropWaiter(s)
    /\ Goto(s, "error")
    /\ UNCHANGED <<sessionVars, on, file, idVars, serverVars>>

\* wait() returns when its sender was used, and also when it was dropped.
Processed(s) ==
    /\ pc[s] = "processing"
    /\ ~IsCancelled(on[s])
    /\ completion[s] # "empty"
    /\ DropWaiter(s)
    /\ Goto(s, "sending")
    /\ written' = written \cup {<<s, cid[s]>>}
    /\ UNCHANGED <<sessionVars, on, file, idVars, stored, delivered>>

ProcessingTimesOut(s) ==
    /\ pc[s] = "processing"
    /\ ~IsCancelled(on[s])
    /\ WaitMayTimeOut(s)
    /\ DropWaiter(s)
    /\ Goto(s, "timeout")
    /\ UNCHANGED <<sessionVars, on, file, idVars, serverVars>>

\* MSG_SEND is answered: refused, or the server has a message with this id.
MessageAnswered(s) ==
    /\ pc[s] = "sending"
    /\ ~IsCancelled(on[s])
    /\ \/ cid[s] \in stored /\ Goto(s, "ok")
       \/ Goto(s, "error")
    /\ UNCHANGED <<sessionVars, registry, on, file, completion, idVars, serverVars>>

\* The connection is cancelled at an await, or a request fails in the transport
\* and cancels it.
Interrupted(s) ==
    /\ pc[s] \in OnConnection
    /\ \/ IsCancelled(on[s])
       \/ pc[s] \in {"asking", "sending"} /\ MayFail(on[s])
    /\ cancelled' = cancelled \cup {on[s]}
    /\ DropWaiter(s)
    /\ Replay(s)
    /\ UNCHANGED <<gen, readers, on, file, idVars, serverVars>>

\* The caller drops the future.
Abandoned(s) ==
    /\ pc[s] \in {"new", "current"} \cup OnConnection
    /\ DropWaiter(s)
    /\ Goto(s, "abandoned")
    /\ UNCHANGED <<sessionVars, on, file, idVars, serverVars>>

-----------------------------------------------------------------------------
(* The read loops and the sessions.                                        *)

\* NOTIF_ATTACH: early, late, repeated or for nobody. The read loop goes on
\* until it is joined, also on a cancelled connection.
Complete(g, f) ==
    /\ g \in readers
    /\ registry[g][f] # None
    /\ completion' = [completion EXCEPT ![registry[g][f]] = "sent"]
    /\ registry' = [registry EXCEPT ![g][f] = None]
    /\ UNCHANGED <<sessionVars, callVars, idVars, serverVars>>

Lose(g) ==
    /\ g = gen
    /\ ~IsCancelled(g)
    /\ MayFail(g)
    /\ cancelled' = cancelled \cup {g}
    /\ UNCHANGED <<gen, readers, registry, callVars, completion, idVars, serverVars>>

\* The old read loop is joined before the next attempt begins.
Reconnect ==
    /\ IsCancelled(gen)
    /\ gen < MaxGenerations
    /\ gen' = gen + 1
    /\ readers' = {gen + 1}
    /\ UNCHANGED <<cancelled, registry, callVars, completion, idVars, serverVars>>

\* The server gets to a MSG_SEND, now or much later, once for each replay; it
\* drops a message whose id it has.
Store(s, id) ==
    /\ <<s, id>> \in written
    /\ id \notin stored
    /\ stored' = stored \cup {id}
    /\ delivered' = [delivered EXCEPT ![s] = @ + 1]
    /\ UNCHANGED <<sessionVars, registry, callVars, completion, idVars, written>>

-----------------------------------------------------------------------------
Transfer(s) == Uploaded(s) \/ UploadFails(s)

Proceed(s) ==
    \/ NextCid(s) \/ Current(s) \/ (\E f \in FileIds : UploadGranted(s, f)) \/ UploadRefused(s)
    \/ Processed(s) \/ ProcessingTimesOut(s) \/ MessageAnswered(s) \/ Interrupted(s)

Next ==
    \/ \E s \in Sends : Proceed(s) \/ Transfer(s) \/ Abandoned(s)
    \/ \E m \in written : Store(m[1], m[2])
    \/ \E g \in Generations : Lose(g) \/ \E f \in FileIds : Complete(g, f)
    \/ Reconnect

Spec == Init /\ [][Next]_vars

\* A polled future moves, requests and the wait for processing have timeouts, and
\* the supervisor reconnects. The server need not process anything. The HTTP client
\* is built without a timeout: a transfer need not end.
FairSpec == Spec /\ WF_vars(Reconnect) /\ \A s \in Sends : WF_vars(Proceed(s))

-----------------------------------------------------------------------------
(* Properties.                                                             *)

\* A message that names a file is only sent after the read loop of the same
\* connection was told that this very upload was processed: no other upload's
\* end, of this connection or of an earlier one, lets it through.
SentIsProcessed == \A s \in Sends : pc[s] = "sending" => completion[s] = "sent"

\* A call that waits for its file can be found by the read loop of its connection
\* until it is told, and is not told by another upload's end: nobody else takes
\* its registration, or drops it.
WaiterIsFound ==
    \A s \in Sends : pc[s] \in Registered =>
        \/ completion[s] = "empty" /\ registry[on[s]][file[s]] = s
        \/ completion[s] = "sent" /\ registry[on[s]][file[s]] # s

\* No registration outlives its waiter, however the call ended: an id the server
\* uses again is not refused because of an upload that is over.
RegistryIsLive ==
    \A g \in Generations, f \in FileIds : registry[g][f] # None =>
        LET s == registry[g][f] IN pc[s] \in Registered /\ on[s] = g /\ file[s] = f

\* A message is stored once, over all its replays and however late the server gets
\* to an earlier one, and is there when its call has returned Ok: its id stays the
\* same and is nobody else's, also if the clock stands still or goes back. That the
\* server drops a message whose id it has is what the code relies on.
OkMeansStoredOnce ==
    \A s \in Sends : delivered[s] <= 1 /\ (pc[s] = "ok" => delivered[s] = 1)

\* A call returns, also if the server never reports the file, unless the HTTP transfer
\* of its bytes hangs.
FileSendReturns ==
    \A s \in Sends : []<>(pc[s] # "uploading") => (pc[s] # "uploading" ~> pc[s] \in Final)
=============================================================================
