------------------------------- MODULE Dispatch -------------------------------
(***************************************************************************)
(* Messages pushed by the server on their way to the handler: the socket,  *)
(* the read loop that acknowledges and filters them, the queue of the      *)
(* session, the dispatcher. The read loop runs before and during login,    *)
(* which learns the account's own id; the dispatcher runs after it. The    *)
(* life of sessions is MaxClient's; here an attempt just ends at any time. *)
(***************************************************************************)
EXTENDS Integers, Sequences, SequencesExt

CONSTANTS
    MaxPushes,    \* bound: messages the server pushes
    MaxSessions   \* bound: sessions

ASSUME BoundsAssumption == MaxPushes \in Nat /\ MaxSessions \in Nat \ {0}

Pushes   == 1 .. MaxPushes
Sessions == 1 .. MaxSessions
None     == 0    \* no push, no session; on the socket: the answer to LOGIN

VARIABLES
    session,     \* the newest connection
    cancelled,   \* it is cancelled
    login,       \* how far its attempt is
    ownIdKnown,  \* the connection holds the account's own id
    receiver,    \* the attempt still holds the receiving end of its queue
    socket,      \* frames not read yet: pushes, and the answer to LOGIN
    reading,     \* the read loop is alive
    reader,      \* the push the read loop is acknowledging, if any
    queue,       \* messages between read loop and dispatcher
    pushed,      \* by whom, on which session's socket, sent in which session
    unpushed,    \* sessions of this handle's sends the server has not pushed yet
    acked,       \* pushes acknowledged on the wire
    dispatched   \* pushes handed to a handler task, each with its session

vars == <<session, cancelled, login, ownIdKnown, receiver, socket, reading, reader, queue,
          pushed, unpushed, acked, dispatched>>

Push == [by : {"own", "service", "peer"}, on : Sessions, sentIn : Sessions \cup {None}]

TypeOK ==
    /\ session \in Sessions
    /\ {cancelled, receiver, reading, ownIdKnown} \subseteq BOOLEAN
    /\ login \in {"asked", "answered", "online"}
    /\ socket \in Seq(Pushes \cup {None})
    /\ reader \in Pushes \cup {None}
    /\ queue \in Seq(Pushes)
    /\ pushed \in Seq(Push) /\ Len(pushed) <= MaxPushes
    /\ unpushed \subseteq Sessions
    /\ acked \subseteq Pushes
    /\ dispatched \in Seq([push : Pushes, on : Sessions])

Init ==
    /\ session = 1
    /\ cancelled = FALSE /\ receiver = TRUE /\ reading = TRUE
    /\ login = "asked" /\ ownIdKnown = FALSE
    /\ reader = None
    /\ socket = <<>> /\ queue = <<>> /\ pushed = <<>> /\ dispatched = <<>>
    /\ unpushed = {} /\ acked = {}

-------------------------------------------------------------------------------
(* The server. It may push as soon as it has accepted LOGIN, before or     *)
(* after its answer, and pushes the account's own messages too: those of   *)
(* other devices and those this handle sent, in whichever session it gets  *)
(* to them.                                                                *)

ServerPush(by, sentIn) ==
    /\ Len(pushed) < MaxPushes
    /\ sentIn # None => by = "own" /\ sentIn \in unpushed
    /\ pushed' = Append(pushed, [by |-> by, on |-> session, sentIn |-> sentIn])
    /\ unpushed' = unpushed \ {sentIn}
    /\ socket' = Append(socket, Len(pushed'))
    /\ UNCHANGED <<session, cancelled, login, ownIdKnown, receiver, reading,
                   reader, queue, acked, dispatched>>

AnswerLogin ==
    /\ login = "asked" /\ ~Contains(socket, None)
    /\ socket' = Append(socket, None)
    /\ UNCHANGED <<session, cancelled, login, ownIdKnown, receiver, reading,
                   reader, queue, pushed, unpushed, acked, dispatched>>

(* A send of this handle: only through a published session. *)
Send ==
    /\ login = "online" /\ receiver
    /\ unpushed' = unpushed \cup {session}
    /\ UNCHANGED <<session, cancelled, login, ownIdKnown, receiver, socket,
                   reading, reader, queue, pushed, acked, dispatched>>

-------------------------------------------------------------------------------
(* The read loop. *)

ReadLoginAnswer ==
    /\ reading /\ reader = None
    /\ socket # <<>> /\ Head(socket) = None
    /\ socket' = Tail(socket)
    /\ login' = "answered"
    /\ UNCHANGED <<session, cancelled, ownIdKnown, receiver, reading, reader,
                   queue, pushed, unpushed, acked, dispatched>>

(* A push that does not parse, or names no chat, is skipped unacknowledged. *)
ReadUnparsable ==
    /\ reading /\ reader = None
    /\ socket # <<>> /\ Head(socket) # None
    /\ socket' = Tail(socket)
    /\ UNCHANGED <<session, cancelled, login, ownIdKnown, receiver, reading,
                   reader, queue, pushed, unpushed, acked, dispatched>>

ReadPush ==
    /\ reading /\ reader = None
    /\ socket # <<>> /\ Head(socket) # None
    /\ reader' = Head(socket)
    /\ socket' = Tail(socket)
    /\ UNCHANGED <<session, cancelled, login, ownIdKnown, receiver, reading,
                   queue, pushed, unpushed, acked, dispatched>>

Acknowledge ==
    /\ reading /\ reader # None /\ reader \notin acked
    /\ acked' = acked \cup {reader}
    /\ UNCHANGED <<session, cancelled, login, ownIdKnown, receiver, socket,
                   reading, reader, queue, pushed, unpushed, dispatched>>

IsFiltered(p) ==
    \/ pushed[p].by = "own" /\ ownIdKnown
    \/ pushed[p].by = "service"

(* Mutant: the loop forwards only to an attempt that is online. *)
ForwardMutant ==
    /\ reading /\ reader # None
    /\ queue' = IF receiver /\ login = "online" /\ ~IsFiltered(reader)
                 THEN Append(queue, reader) ELSE queue
    /\ reader' = None
    /\ UNCHANGED <<session, cancelled, login, ownIdKnown, receiver, socket,
                   reading, pushed, unpushed, acked, dispatched>>

(* The acknowledgement was written, or failed: its result is ignored, and  *)
(* so is the error of a queue whose receiver is gone.                      *)
Forward ==
    /\ reading /\ reader # None
    /\ queue' = IF receiver /\ ~IsFiltered(reader) THEN Append(queue, reader) ELSE queue
    /\ reader' = None
    /\ UNCHANGED <<session, cancelled, login, ownIdKnown, receiver, socket,
                   reading, pushed, unpushed, acked, dispatched>>

(* Close frame, read error or end of stream: the drop guard cancels. *)
StopReading ==
    /\ reading /\ reader = None
    /\ reading' = FALSE
    /\ cancelled' = TRUE
    /\ UNCHANGED <<session, login, ownIdKnown, receiver, socket, reader,
                   queue, pushed, unpushed, acked, dispatched>>

-------------------------------------------------------------------------------
(* The attempt: login, then the dispatcher. *)

SetOwnUserId ==
    /\ receiver /\ login = "answered" /\ ~ownIdKnown
    /\ ownIdKnown' = TRUE
    /\ UNCHANGED <<session, cancelled, login, receiver, socket, reading,
                   reader, queue, pushed, unpushed, acked, dispatched>>

(* Mutant: the session is published as soon as LOGIN is answered. *)
PublishMutant ==
    /\ receiver /\ login = "answered" /\ ~cancelled
    /\ login' = "online"
    /\ UNCHANGED <<session, cancelled, ownIdKnown, receiver, socket, reading,
                   reader, queue, pushed, unpushed, acked, dispatched>>

Publish ==
    /\ receiver /\ login = "answered" /\ ownIdKnown /\ ~cancelled
    /\ login' = "online"
    /\ UNCHANGED <<session, cancelled, ownIdKnown, receiver, socket, reading,
                   reader, queue, pushed, unpushed, acked, dispatched>>

(* Mutant: the newest message first. *)
DispatchMutant ==
    /\ receiver /\ login = "online" /\ queue # <<>>
    /\ dispatched' = Append(dispatched, [push |-> Last(queue), on |-> session])
    /\ queue' = Front(queue)
    /\ UNCHANGED <<session, cancelled, login, ownIdKnown, receiver, socket,
                   reading, reader, pushed, unpushed, acked>>

Dispatch ==
    /\ receiver /\ login = "online" /\ queue # <<>>
    /\ dispatched' = Append(dispatched, [push |-> Head(queue), on |-> session])
    /\ queue' = Tail(queue)
    /\ UNCHANGED <<session, cancelled, login, ownIdKnown, receiver, socket,
                   reading, reader, pushed, unpushed, acked>>

(* RECONNECT, a failed ping, a timed out request or disconnect() cancels;  *)
(* a failed login ends the attempt without that.                           *)
Cancel ==
    /\ ~cancelled
    /\ cancelled' = TRUE
    /\ UNCHANGED <<session, login, ownIdKnown, receiver, socket, reading,
                   reader, queue, pushed, unpushed, acked, dispatched>>

DropAttempt ==
    /\ receiver
    /\ cancelled \/ login # "online"
    /\ receiver' = FALSE
    /\ queue' = <<>>
    /\ UNCHANGED <<session, cancelled, login, ownIdKnown, socket, reading,
                   reader, pushed, unpushed, acked, dispatched>>

(* Attempt::close cancels, aborts and joins the read loop wherever it      *)
(* waits, and closes the socket; then the next attempt connects.           *)
NextSession ==
    /\ ~receiver /\ session < MaxSessions
    /\ session' = session + 1
    /\ cancelled' = FALSE /\ receiver' = TRUE /\ reading' = TRUE
    /\ login' = "asked" /\ ownIdKnown' = FALSE
    /\ socket' = <<>>
    /\ reader' = None
    /\ UNCHANGED <<queue, pushed, unpushed, acked, dispatched>>

Next ==
    \/ \E by \in {"own", "service", "peer"}, sentIn \in Sessions \cup {None} :
           ServerPush(by, sentIn)
    \/ AnswerLogin \/ Send
    \/ ReadLoginAnswer \/ ReadUnparsable \/ ReadPush \/ Acknowledge \/ Forward
    \/ StopReading
    \/ SetOwnUserId \/ Publish \/ Dispatch \/ Cancel \/ DropAttempt \/ NextSession

Spec == Init /\ [][Next]_vars

-------------------------------------------------------------------------------
PushesDispatched == {dispatched[i].push : i \in DOMAIN dispatched}

(* Handler tasks are spawned in the order in which the server pushed the   *)
(* messages, and none twice for one message, over all sessions of the      *)
(* handle.                                                                 *)
HandledInOrder ==
    \A i, j \in DOMAIN dispatched : i < j => dispatched[i].push < dispatched[j].push

(* The acknowledgement comes before the filter and the queue, so that      *)
(* a message can be acknowledged and never handled; this happens only if   *)
(* the attempt that read it has ended: while it lives the message is being *)
(* read, queued or handled.                                                *)
LostOnlyWithSession ==
    \A p \in acked :
        pushed[p].by = "peer" =>
            \/ p = reader \/ Contains(queue, p) \/ p \in PushesDispatched
            \/ pushed[p].on < session \/ ~receiver

(* The own id is not known while LOGIN is being answered, and then the     *)
(* account's own messages pass the filter. No handler is given a message   *)
(* this handle sent in the same session: a session is published, and can   *)
(* send, only after its own id is stored.                                  *)
EchoIsOld ==
    \A i \in DOMAIN dispatched :
        pushed[dispatched[i].push].sentIn # dispatched[i].on

===============================================================================
