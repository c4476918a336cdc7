------------------------------ MODULE MaxClient ------------------------------
(***************************************************************************)
(* The life of one MaxClient handle and its clones: callers of run(), the  *)
(* supervisor task each accepted run() spawns, callers of disconnect()     *)
(* (outside the client, or inside a message handler), send loops, and the  *)
(* socket generations ("attempts") the supervisor opens and tears down.    *)
(*                                                                         *)
(* A step is what a task does between two points where another task can    *)
(* observe or change what it reads: an await, or an access to a token,     *)
(* a lock or the watch channel.                                            *)
(***************************************************************************)
EXTENDS Integers, FiniteSets

CONSTANTS
    Runners,         \* calls of run() on the handle
    Disconnecters,   \* calls of disconnect() from outside any handler
    Handlers,        \* message handlers, each of which may call disconnect()
    Senders,         \* calls of send_text() / send_file_bytes()
    Free,            \* run_lock is not held
    MaxAttempts      \* bound: socket generations; the last one does not fail

Callers     == Disconnecters \cup Handlers
Generations == 1 .. MaxAttempts

ASSUME AttemptsAssumption == MaxAttempts \in Nat \ {0}
ASSUME NamesAssumption ==
    /\ Runners \cap Callers = {}
    /\ Disconnecters \cap Handlers = {}
    /\ Free \notin Runners \cup Callers

VARIABLES
    shutdown,         \* Recovery.shutdown: the token every connection descends from
    state,            \* Recovery.state: the value of the watch channel
    dirty,            \* the channel changed since sender s last looked at it
    gen,              \* generations created so far
    cancelled,        \* Connection.cancellation of each generation, by itself
    open,             \* generations whose Transport holds a sink
    tasks,            \* Attempt.tasks: workers of each generation still alive
    authenticated,    \* generations that finished LOGIN
    runLock,          \* InnerClient.run_lock: Free or its holder
    runner,           \* what each call of run() is doing
    runOutcome,       \* what each call of run() returned
    sup,              \* where the supervisor spawned by each run() is
    att,              \* the generation that supervisor works on, 0 before the first
    verdict,          \* the result of its attempt, then of its run_loop
    handlerShutdown,  \* InnerClient.handler_shutdown
    disc,             \* what each caller of disconnect() is doing
    sendPc,           \* where each send loop is
    conn,             \* the generation a send loop last took from the channel
    sendOutcome       \* what each send returned

recoveryVars == <<shutdown, state, dirty>>
sessionVars  == <<gen, cancelled, open, tasks, authenticated>>
runVars      == <<runLock, runner, runOutcome, sup, att, verdict>>
callVars     == <<handlerShutdown, disc>>
sendVars     == <<sendPc, conn, sendOutcome>>
vars == <<recoveryVars, sessionVars, runVars, callVars, sendVars>>

Offline  == [tag |-> "Offline", gen |-> 0]
Stopped  == [tag |-> "Stopped", gen |-> 0]

Workers == {"read_loop", "keepalive"}

\* Inside run_attempt, where the select! of run_loop may drop it at an await.
Awaiting == {"connecting", "sessionInit", "login", "dispatch"}
\* From begin_attempt to the end of Attempt::close.
InAttempt == Awaiting \cup {"publish", "offline", "cancel", "join", "close"}
\* Dropping the locals of the spawned task, in reverse order of declaration.
Leaving == {"stop", "stopPublish", "handlers", "unlock"}
SupPcs == {"none", "begin", "decide", "backoff", "finished"} \cup InAttempt \cup Leaving

RunnerPcs == {"idle", "locked", "running", "dropping", "dropped", "returning", "returned"}
CallerPcs == {"none", "idle", "stopping", "waitLock", "locked", "done", "returned", "aborted"}
SenderPcs == {"idle", "current", "waiting", "invoking", "returned"}

TypeOK ==
    /\ shutdown \in BOOLEAN
    /\ state \in {Offline, Stopped} \cup [tag : {"Ready"}, gen : Generations]
    /\ dirty \in [Senders -> BOOLEAN]
    /\ gen \in 0 .. MaxAttempts
    /\ cancelled \in [Generations -> BOOLEAN]
    /\ open \in SUBSET Generations
    /\ tasks \in [Generations -> SUBSET Workers]
    /\ authenticated \in SUBSET Generations
    /\ runLock \in {Free} \cup Runners \cup Callers
    /\ runner \in [Runners -> RunnerPcs]
    /\ runOutcome \in [Runners -> {"none", "Ok", "AlreadyRunning", "ConnectionClosed", "Error"}]
    /\ sup \in [Runners -> SupPcs]
    /\ att \in [Runners -> 0 .. MaxAttempts]
    /\ verdict \in [Runners -> {"none", "again", "fatal", "Ok"}]
    /\ handlerShutdown \in BOOLEAN
    /\ disc \in [Callers -> CallerPcs]
    /\ sendPc \in [Senders -> SenderPcs]
    /\ conn \in [Senders -> 0 .. MaxAttempts]
    /\ sendOutcome \in [Senders -> {"none", "Ok", "ConnectionClosed", "Error"}]

Init ==
    /\ shutdown = FALSE
    /\ state = Offline
    /\ dirty = [s \in Senders |-> FALSE]
    /\ gen = 0
    /\ cancelled = [g \in Generations |-> FALSE]
    /\ open = {}
    /\ tasks = [g \in Generations |-> {}]
    /\ authenticated = {}
    /\ runLock = Free
    /\ runner = [r \in Runners |-> "idle"]
    /\ runOutcome = [r \in Runners |-> "none"]
    /\ sup = [r \in Runners |-> "none"]
    /\ att = [r \in Runners |-> 0]
    /\ verdict = [r \in Runners |-> "none"]
    /\ handlerShutdown = FALSE
    /\ disc = [c \in Callers |-> IF c \in Handlers THEN "none" ELSE "idle"]
    /\ sendPc = [s \in Senders |-> "idle"]
    /\ conn = [s \in Senders |-> 0]
    /\ sendOutcome = [s \in Senders |-> "none"]

-----------------------------------------------------------------------------
(* Tokens, the watch channel, the lock. A definition named ...Mutant is a    *)
(* plausible slip in the one after it; no action uses it.                   *)

\* begin_attempt gives every connection a child of the shutdown token.
IsCancelledMutant(g) == cancelled[g]
IsCancelled(g) == shutdown \/ cancelled[g]

\* Connection::invoke cancels its connection on a transport failure.
CancelOnFailureMutant(g) == UNCHANGED cancelled
CancelOnFailure(g) == cancelled' = [cancelled EXCEPT ![g] = TRUE]

\* The channel holds the connection that was just authenticated.
Ready(g) == [tag |-> "Ready", gen |-> g]

\* Every write to the channel marks it changed for every receiver: the closures of
\* send_if_modified return true.
NotifyMutant == UNCHANGED dirty
Notify == dirty' = [s \in Senders |-> TRUE]

\* Recovery::stop in two halves: the token, then the channel.
CancelToken == shutdown' = TRUE
PublishStopped == state' = Stopped /\ Notify

\* Recovery::connected publishes unless the handle stopped or g is cancelled.
CanPublish(g) == state # Stopped /\ ~IsCancelled(g)

\* Recovery::offline leaves Stopped alone.
GoOfflineMutant == state' = Offline /\ Notify
GoOfflineSkippedMutant == UNCHANGED <<state, dirty>>
GoOffline ==
    IF state = Stopped THEN UNCHANGED <<state, dirty>>
                       ELSE state' = Offline /\ Notify

\* try_lock, and the point where lock().await is granted.
LockIsFreeMutant == TRUE
LockIsFree == runLock = Free

\* run() makes its RunGuard only after it has the lock.
RejectedMutant(r) == runOutcome' = [runOutcome EXCEPT ![r] = "AlreadyRunning"] /\ CancelToken
Rejected(r) ==
    runOutcome' = [runOutcome EXCEPT ![r] = "AlreadyRunning"] /\ UNCHANGED shutdown

\* Transport::close takes the sink.
CloseTransportMutant(g) == UNCHANGED open
CloseTransport(g) == open' = open \ {g}

\* The drop guard of handler_shutdown.
DropHandlersMutant == UNCHANGED handlerShutdown
DropHandlers == handlerShutdown' = TRUE

\* is_transport_failure: the send loop goes round.
Replay(s) == sendPc' = [sendPc EXCEPT ![s] = "current"] /\ UNCHANGED sendOutcome

\* The bound: an environment failure may hit any generation but the last.
MayFail(g) == g < MaxAttempts

-----------------------------------------------------------------------------
(* Callers of run().                                                       *)

RunTryLock(r) ==
    /\ runner[r] = "idle"
    /\ IF LockIsFree
       THEN /\ runLock' = r
            /\ runner' = [runner EXCEPT ![r] = "locked"]
            /\ UNCHANGED <<runOutcome, shutdown>>
       ELSE /\ runner' = [runner EXCEPT ![r] = "returned"]
            /\ Rejected(r)
            /\ UNCHANGED runLock
    /\ UNCHANGED <<state, dirty, sessionVars, sup, att, verdict, callVars, sendVars>>

\* With the lock: refuse a stopped handle, or spawn the supervisor, which owns
\* the lock from here on.
RunSpawn(r) ==
    /\ runner[r] = "locked"
    /\ IF shutdown
       THEN /\ runLock' = Free
            /\ runner' = [runner EXCEPT ![r] = "returned"]
            /\ runOutcome' = [runOutcome EXCEPT ![r] = "ConnectionClosed"]
            /\ UNCHANGED sup
       ELSE /\ runner' = [runner EXCEPT ![r] = "running"]
            /\ sup' = [sup EXCEPT ![r] = "begin"]
            /\ UNCHANGED <<runLock, runOutcome>>
    /\ UNCHANGED <<recoveryVars, sessionVars, att, verdict, callVars, sendVars>>

\* The caller drops the run() future: its RunGuard stops the handle.
RunDropped(r) ==
    /\ runner[r] = "running"
    /\ runner' = [runner EXCEPT ![r] = "dropping"]
    /\ CancelToken
    /\ UNCHANGED <<state, dirty, sessionVars, runLock, runOutcome, sup, att, verdict,
                   callVars, sendVars>>

\* The join handle is ready: the value is taken and the RunGuard dropped.
RunJoined(r) ==
    /\ runner[r] = "running"
    /\ sup[r] = "finished"
    /\ runner' = [runner EXCEPT ![r] = "returning"]
    /\ runOutcome' = [runOutcome EXCEPT ![r] = IF verdict[r] = "fatal" THEN "Error" ELSE "Ok"]
    /\ CancelToken
    /\ UNCHANGED <<state, dirty, sessionVars, runLock, sup, att, verdict, callVars, sendVars>>

RunLeaves(r) ==
    /\ runner[r] \in {"dropping", "returning"}
    /\ runner' = [runner EXCEPT ![r] = IF @ = "dropping" THEN "dropped" ELSE "returned"]
    /\ PublishStopped
    /\ UNCHANGED <<shutdown, sessionVars, runLock, runOutcome, sup, att, verdict,
                   callVars, sendVars>>

-----------------------------------------------------------------------------
(* The supervisor: run_loop, run_attempt, Attempt::close.                  *)

SupMoves(r, pcs) == sup' = [sup EXCEPT ![r] = pcs]

SupBegin(r) ==
    /\ sup[r] = "begin"
    /\ IF shutdown
       THEN /\ SupMoves(r, "stop")
            /\ verdict' = [verdict EXCEPT ![r] = "Ok"]
            /\ UNCHANGED <<gen, att>>
       ELSE /\ gen < MaxAttempts
            /\ gen' = gen + 1
            /\ att' = [att EXCEPT ![r] = gen + 1]
            /\ SupMoves(r, "connecting")
            /\ verdict' = [verdict EXCEPT ![r] = "none"]
    /\ UNCHANGED <<recoveryVars, cancelled, open, tasks, authenticated,
                   runLock, runner, runOutcome, callVars, sendVars>>

\* Transport::connect stored the sink; the read loop is spawned and SESSION_INIT
\* invoked before the next await.
SupConnected(r) ==
    /\ sup[r] = "connecting"
    /\ ~IsCancelled(att[r])
    /\ open' = open \cup {att[r]}
    /\ tasks' = [tasks EXCEPT ![att[r]] = @ \cup {"read_loop"}]
    /\ SupMoves(r, "sessionInit")
    /\ UNCHANGED <<recoveryVars, gen, cancelled, authenticated, runLock, runner,
                   runOutcome, att, verdict, callVars, sendVars>>

\* The answer to SESSION_INIT: keepalive starts and login begins.
SupSessionInit(r) ==
    /\ sup[r] = "sessionInit"
    /\ ~IsCancelled(att[r])
    /\ "read_loop" \in tasks[att[r]]
    /\ tasks' = [tasks EXCEPT ![att[r]] = @ \cup {"keepalive"}]
    /\ SupMoves(r, "login")
    /\ UNCHANGED <<recoveryVars, gen, cancelled, open, authenticated, runLock, runner,
                   runOutcome, att, verdict, callVars, sendVars>>

\* Login returned. No await separates this from publishing, so the select! can
\* no longer drop the attempt, but other threads may still cancel it.
SupLogin(r) ==
    /\ sup[r] = "login"
    /\ ~IsCancelled(att[r])
    /\ "read_loop" \in tasks[att[r]]
    /\ authenticated' = authenticated \cup {att[r]}
    /\ SupMoves(r, "publish")
    /\ UNCHANGED <<recoveryVars, gen, cancelled, open, tasks, runLock, runner,
                   runOutcome, att, verdict, callVars, sendVars>>

SupPublish(r) ==
    /\ sup[r] = "publish"
    /\ IF CanPublish(att[r])
       THEN /\ state' = Ready(att[r])
            /\ Notify
            /\ SupMoves(r, "dispatch")
            /\ UNCHANGED verdict
       ELSE /\ SupMoves(r, "offline")
            /\ verdict' = [verdict EXCEPT ![r] = "again"]
            /\ UNCHANGED <<state, dirty>>
    /\ UNCHANGED <<shutdown, sessionVars, runLock, runner, runOutcome, att, callVars, sendVars>>

\* The dispatcher admits a message and spawns its handler.
SupDispatch(r, h) ==
    /\ sup[r] = "dispatch"
    /\ ~IsCancelled(att[r])
    /\ ~handlerShutdown
    /\ disc[h] = "none"
    /\ disc' = [disc EXCEPT ![h] = "idle"]
    /\ UNCHANGED <<recoveryVars, sessionVars, runVars, handlerShutdown, sendVars>>

\* The select! of run_loop sees the connection cancelled and drops run_attempt.
\* A dispatcher whose feed closed ends here too: the read loop cancels first.
SupInterrupted(r) ==
    /\ sup[r] \in Awaiting
    /\ IsCancelled(att[r])
    /\ SupMoves(r, "offline")
    /\ verdict' = [verdict EXCEPT ![r] = "again"]
    /\ UNCHANGED <<recoveryVars, sessionVars, runLock, runner, runOutcome, att,
                   callVars, sendVars>>

\* A failure the policy retries. Only a request on the socket cancels it too;
\* a failed connect or a captcha, Telegram or HTTP outage does not.
SupFailsTransient(r) ==
    /\ sup[r] \in {"connecting", "sessionInit", "login"}
    /\ ~IsCancelled(att[r])
    /\ MayFail(att[r])
    /\ SupMoves(r, "offline")
    /\ verdict' = [verdict EXCEPT ![r] = "again"]
    /\ \/ sup[r] # "sessionInit" /\ UNCHANGED cancelled
       \/ sup[r] # "connecting" /\ CancelOnFailure(att[r])
    /\ UNCHANGED <<recoveryVars, gen, open, tasks, authenticated, runLock, runner,
                   runOutcome, att, callVars, sendVars>>

\* The server, the configuration or the operator refused: not retried.
SupFailsFatal(r) ==
    /\ sup[r] \in {"sessionInit", "login"}
    /\ ~IsCancelled(att[r])
    /\ SupMoves(r, "offline")
    /\ verdict' = [verdict EXCEPT ![r] = "fatal"]
    /\ UNCHANGED <<recoveryVars, sessionVars, runLock, runner, runOutcome, att,
                   callVars, sendVars>>

SupOffline(r) ==
    /\ sup[r] = "offline"
    /\ GoOffline
    /\ SupMoves(r, "cancel")
    /\ UNCHANGED <<shutdown, sessionVars, runLock, runner, runOutcome, att, verdict,
                   callVars, sendVars>>

SupCancel(r) ==
    /\ sup[r] = "cancel"
    /\ cancelled' = [cancelled EXCEPT ![att[r]] = TRUE]
    /\ SupMoves(r, "join")
    /\ UNCHANGED <<recoveryVars, gen, open, tasks, authenticated, runLock, runner,
                   runOutcome, att, verdict, callVars, sendVars>>

\* abort_all, then join_next until every worker is gone.
SupJoin(r) ==
    /\ sup[r] = "join"
    /\ tasks' = [tasks EXCEPT ![att[r]] = {}]
    /\ SupMoves(r, "close")
    /\ UNCHANGED <<recoveryVars, gen, cancelled, open, authenticated, runLock, runner,
                   runOutcome, att, verdict, callVars, sendVars>>

SupClose(r) ==
    /\ sup[r] = "close"
    /\ CloseTransport(att[r])
    /\ SupMoves(r, "decide")
    /\ UNCHANGED <<recoveryVars, gen, cancelled, tasks, authenticated, runLock, runner,
                   runOutcome, att, verdict, callVars, sendVars>>

SupDecide(r) ==
    /\ sup[r] = "decide"
    /\ SupMoves(r, IF ~shutdown /\ verdict[r] = "again" THEN "backoff" ELSE "stop")
    /\ verdict' = [verdict EXCEPT ![r] = IF shutdown THEN "Ok" ELSE @]
    /\ UNCHANGED <<recoveryVars, sessionVars, runLock, runner, runOutcome, att,
                   callVars, sendVars>>

\* The select! over shutdown and sleep, shutdown first.
SupBackoff(r) ==
    /\ sup[r] = "backoff"
    /\ SupMoves(r, IF shutdown THEN "stop" ELSE "begin")
    /\ verdict' = [verdict EXCEPT ![r] = IF shutdown THEN "Ok" ELSE @]
    /\ UNCHANGED <<recoveryVars, sessionVars, runLock, runner, runOutcome, att,
                   callVars, sendVars>>

\* _guard: Recovery::stop in two halves.
SupStop(r) ==
    /\ sup[r] = "stop"
    /\ CancelToken
    /\ SupMoves(r, "stopPublish")
    /\ UNCHANGED <<state, dirty, sessionVars, runLock, runner, runOutcome, att, verdict,
                   callVars, sendVars>>

SupStopPublish(r) ==
    /\ sup[r] = "stopPublish"
    /\ PublishStopped
    /\ SupMoves(r, "handlers")
    /\ UNCHANGED <<shutdown, sessionVars, runLock, runner, runOutcome, att, verdict,
                   callVars, sendVars>>

\* _handlers: the drop guard of handler_shutdown. The mutant first waits for the
\* handlers, one of which may be waiting for the lock.
SupHandlersMutant(r) ==
    /\ sup[r] = "handlers"
    /\ \A h \in Handlers : disc[h] \notin {"idle", "stopping", "waitLock"}
    /\ DropHandlers
    /\ SupMoves(r, "unlock")
    /\ UNCHANGED <<recoveryVars, sessionVars, runLock, runner, runOutcome, att, verdict,
                   disc, sendVars>>
SupHandlers(r) ==
    /\ sup[r] = "handlers"
    /\ DropHandlers
    /\ SupMoves(r, "unlock")
    /\ UNCHANGED <<recoveryVars, sessionVars, runLock, runner, runOutcome, att, verdict,
                   disc, sendVars>>

\* _lock.
SupUnlock(r) ==
    /\ sup[r] = "unlock"
    /\ runLock' = Free
    /\ SupMoves(r, "finished")
    /\ UNCHANGED <<recoveryVars, sessionVars, runner, runOutcome, att, verdict,
                   callVars, sendVars>>

-----------------------------------------------------------------------------
(* A live session: its workers and the server.                             *)

\* The mutant ends without its drop guard.
WorkerEndsMutant(g, t) ==
    /\ t \in tasks[g]
    /\ tasks' = [tasks EXCEPT ![g] = @ \ {t}]
    /\ UNCHANGED <<recoveryVars, gen, cancelled, open, authenticated, runVars, callVars, sendVars>>
WorkerEnds(g, t) ==
    /\ t \in tasks[g]
    /\ tasks' = [tasks EXCEPT ![g] = @ \ {t}]
    /\ cancelled' = [cancelled EXCEPT ![g] = TRUE]
    /\ UNCHANGED <<recoveryVars, gen, open, authenticated, runVars, callVars, sendVars>>

\* The stream ends, fails or is closed by the peer: the drop guard of the read
\* loop cancels the connection.
ReadLoopEnds(g) == MayFail(g) /\ WorkerEnds(g, "read_loop")

\* A ping fails, or sees the connection cancelled; the drop guard cancels it.
KeepaliveEnds(g) == (MayFail(g) \/ IsCancelled(g)) /\ WorkerEnds(g, "keepalive")

\* The server sends RECONNECT: the connection is cancelled, the reader goes on.
ServerReconnect(g) ==
    /\ "read_loop" \in tasks[g]
    /\ MayFail(g)
    /\ cancelled' = [cancelled EXCEPT ![g] = TRUE]
    /\ UNCHANGED <<recoveryVars, gen, open, tasks, authenticated, runVars, callVars, sendVars>>

-----------------------------------------------------------------------------
(* Callers of disconnect(), and the handlers among them.                   *)

DisconnectStop(c) ==
    /\ disc[c] = "idle"
    /\ disc' = [disc EXCEPT ![c] = "stopping"]
    /\ CancelToken
    /\ UNCHANGED <<state, dirty, sessionVars, runVars, handlerShutdown, sendVars>>

DisconnectPublish(c) ==
    /\ disc[c] = "stopping"
    /\ disc' = [disc EXCEPT ![c] = "waitLock"]
    /\ PublishStopped
    /\ UNCHANGED <<shutdown, sessionVars, runVars, handlerShutdown, sendVars>>

DisconnectLock(c) ==
    /\ disc[c] = "waitLock"
    /\ LockIsFree
    /\ runLock' = c
    /\ disc' = [disc EXCEPT ![c] = "locked"]
    /\ UNCHANGED <<recoveryVars, sessionVars, runner, runOutcome, sup, att, verdict,
                   handlerShutdown, sendVars>>

DisconnectReturn(c) ==
    /\ disc[c] = "locked"
    /\ handlerShutdown' = TRUE
    /\ runLock' = Free
    /\ disc' = [disc EXCEPT ![c] = "done"]
    /\ UNCHANGED <<recoveryVars, sessionVars, runner, runOutcome, sup, att, verdict, sendVars>>

\* on_message returns without having called disconnect.
HandlerReturns(h) ==
    /\ disc[h] = "idle"
    /\ disc' = [disc EXCEPT ![h] = "returned"]
    /\ UNCHANGED <<recoveryVars, sessionVars, runVars, handlerShutdown, sendVars>>

\* run_handler drops the handler at an await once handler_shutdown is cancelled.
HandlerAborted(h) ==
    /\ handlerShutdown
    /\ disc[h] \in {"idle", "waitLock"}
    /\ disc' = [disc EXCEPT ![h] = "aborted"]
    /\ UNCHANGED <<recoveryVars, sessionVars, runVars, handlerShutdown, sendVars>>

-----------------------------------------------------------------------------
(* Send loops: Recovery::current, then Connection::invoke.                 *)

SendStart(s) ==
    /\ sendPc[s] = "idle"
    /\ sendPc' = [sendPc EXCEPT ![s] = "current"]
    /\ UNCHANGED <<recoveryVars, sessionVars, runVars, callVars, conn, sendOutcome>>

\* subscribe() or changed(), then borrow_and_update and the match on its value.
SendLooks(s) ==
    /\ sendPc[s] = "current" \/ (sendPc[s] = "waiting" /\ dirty[s])
    /\ dirty' = [dirty EXCEPT ![s] = FALSE]
    /\ \/ /\ state.tag = "Ready"
          /\ ~IsCancelled(state.gen)
          /\ conn' = [conn EXCEPT ![s] = state.gen]
          /\ sendPc' = [sendPc EXCEPT ![s] = "invoking"]
          /\ UNCHANGED sendOutcome
       \/ /\ state = Stopped
          /\ sendPc' = [sendPc EXCEPT ![s] = "returned"]
          /\ sendOutcome' = [sendOutcome EXCEPT ![s] = "ConnectionClosed"]
          /\ UNCHANGED conn
       \/ /\ state = Offline \/ (state.tag = "Ready" /\ IsCancelled(state.gen))
          /\ sendPc' = [sendPc EXCEPT ![s] = "waiting"]
          /\ UNCHANGED <<conn, sendOutcome>>
    /\ UNCHANGED <<shutdown, state, sessionVars, runVars, callVars>>

\* The server answers on the generation in use: success, or an error of its own.
SendAnswered(s) ==
    /\ sendPc[s] = "invoking"
    /\ ~IsCancelled(conn[s])
    /\ conn[s] \in open
    /\ "read_loop" \in tasks[conn[s]]
    /\ sendPc' = [sendPc EXCEPT ![s] = "returned"]
    /\ \E o \in {"Ok", "Error"} : sendOutcome' = [sendOutcome EXCEPT ![s] = o]
    /\ UNCHANGED <<recoveryVars, sessionVars, runVars, callVars, conn>>

\* invoke sees the connection cancelled, or fails in the transport and cancels
\* it; the loop replays.
SendReplays(s) ==
    /\ sendPc[s] = "invoking"
    /\ \/ IsCancelled(conn[s]) /\ UNCHANGED cancelled
       \/ /\ ~IsCancelled(conn[s])
          /\ MayFail(conn[s])
          /\ CancelOnFailure(conn[s])
    /\ Replay(s)
    /\ UNCHANGED <<recoveryVars, gen, open, tasks, authenticated, runVars, callVars, conn>>

-----------------------------------------------------------------------------
Supervise(r) ==
    \/ SupBegin(r) \/ SupConnected(r) \/ SupSessionInit(r) \/ SupLogin(r)
    \/ SupPublish(r) \/ SupInterrupted(r) \/ SupFailsTransient(r) \/ SupFailsFatal(r)
    \/ SupOffline(r) \/ SupCancel(r) \/ SupJoin(r) \/ SupClose(r)
    \/ SupDecide(r) \/ SupBackoff(r)
    \/ SupStop(r) \/ SupStopPublish(r) \/ SupHandlers(r) \/ SupUnlock(r)

RunCall(r)   == RunTryLock(r) \/ RunSpawn(r) \/ RunDropped(r) \/ RunJoined(r) \/ RunLeaves(r)
Session(g)   == ReadLoopEnds(g) \/ KeepaliveEnds(g) \/ ServerReconnect(g)
Disconnect(c) ==
    DisconnectStop(c) \/ DisconnectPublish(c) \/ DisconnectLock(c) \/ DisconnectReturn(c)
Handle(h)    == HandlerReturns(h) \/ HandlerAborted(h) \/ \E r \in Runners : SupDispatch(r, h)
Send(s)      == SendStart(s) \/ SendLooks(s) \/ SendAnswered(s) \/ SendReplays(s)

Next ==
    \/ \E r \in Runners : Supervise(r) \/ RunCall(r)
    \/ \E g \in Generations : Session(g)
    \/ \E c \in Callers : Disconnect(c)
    \/ \E h \in Handlers : Handle(h)
    \/ \E s \in Senders : Send(s)

Spec == Init /\ [][Next]_vars

\* What the tokio scheduler, the timeouts on every request and an answering
\* server and operator give: a task that can move does. Nobody is obliged to
\* call anything, to drop a future, or to fail. (The transfer of a file and the
\* operator have no timeout: FileSend and AuthFlow look at those.)
Fairness ==
    /\ \A r \in Runners : /\ WF_vars(Supervise(r))
                          /\ WF_vars(RunSpawn(r) \/ RunJoined(r) \/ RunLeaves(r))
    /\ \A c \in Callers :
        WF_vars(DisconnectPublish(c) \/ DisconnectLock(c) \/ DisconnectReturn(c))
    /\ \A h \in Handlers : WF_vars(HandlerAborted(h))
    /\ \A s \in Senders : WF_vars(SendLooks(s) \/ SendAnswered(s) \/ SendReplays(s))

FairSpec == Spec /\ Fairness

-----------------------------------------------------------------------------
(* Properties.                                                             *)

Active(r) == sup[r] \notin {"none", "finished"}
Live(g)   == g \in open \/ tasks[g] # {}
Served(g) == g \in open /\ tasks[g] = Workers

\* However run() calls, drops and disconnects interleave, at most one supervisor
\* is alive, and while it is alive it holds run_lock (run_lock is moved into the
\* spawned task and dropped last).
OneSupervisor ==
    \A r \in Runners : Active(r) => /\ runLock = r
                                    /\ \A q \in Runners : Active(q) => q = r

\* No socket, read loop or keepalive of an earlier generation survives into a
\* later one: whatever is live belongs to the newest generation, and to the
\* supervisor that will close it (Attempt::close runs before the next attempt).
OneLiveSession ==
    \A g \in Generations : Live(g) =>
        g = gen /\ \E r \in Runners : sup[r] \in InAttempt /\ att[r] = g

\* A connection in the channel is logged in, has its socket, and its supervisor
\* is dispatching or about to take it offline: senders are never handed a
\* connection that was never published or is already being torn down.
ReadyIsUsable ==
    state.tag = "Ready" =>
        /\ state.gen \in authenticated \cap open
        /\ \E r \in Runners : att[r] = state.gen /\ sup[r] \in {"dispatch", "offline"}

\* A send waiting in Recovery::current with nothing to wake it has nothing to
\* wake for: the channel does not hold Stopped or a usable connection.
NoLostWakeup ==
    \A s \in Senders : sendPc[s] = "waiting" /\ ~dirty[s] =>
        \/ state = Offline
        \/ state.tag = "Ready" /\ IsCancelled(state.gen)

\* Once disconnect() has returned, the handle is stopped, handlers are told to
\* abort, no supervisor lives or can start one more attempt, and nothing of any
\* session is left.
DisconnectIsComplete ==
    \A c \in Callers : disc[c] = "done" =>
        /\ shutdown /\ state = Stopped /\ handlerShutdown
        /\ \A r \in Runners : ~Active(r)
        /\ \A g \in Generations : ~Live(g)

\* handler_shutdown is only cancelled after every attempt is over: handlers
\* survive reconnects, and a dispatcher never ends because of that token.
HandlersOutliveReconnects ==
    handlerShutdown =>
        shutdown /\ \A r \in Runners : sup[r] \in {"none", "unlock", "finished"}

\* A handle only stops because disconnect() was called, an accepted run() was
\* dropped, or an attempt failed for good. A run() refused with
\* ClientAlreadyRunning does not stop the one that is running.
StopIsCaused ==
    shutdown =>
        \/ \E c \in Callers : disc[c] \in {"stopping", "waitLock", "locked", "done", "aborted"}
        \/ \E r \in Runners : runner[r] \in {"dropping", "dropped"} \/ verdict[r] = "fatal"

\* A connection that is not cancelled is served: from SESSION_INIT on its socket is
\* there and its reader runs, from login on its keepalive does too. So neither the
\* attempt nor a send ever waits on a session nobody reads: whatever ends a worker,
\* or takes a published session down, cancels it first or in the same step.
SessionIsServed ==
    /\ \A r \in Runners :
        /\ sup[r] = "sessionInit" /\ ~IsCancelled(att[r]) =>
              att[r] \in open /\ "read_loop" \in tasks[att[r]]
        /\ sup[r] \in {"login", "publish", "dispatch"} /\ ~IsCancelled(att[r]) => Served(att[r])
    /\ \A s \in Senders : sendPc[s] = "invoking" /\ ~IsCancelled(conn[s]) => Served(conn[s])

\* A send reports ConnectionClosed only when the handle has stopped for good;
\* losing a session is never reported, it is replayed.
ClosedOnlyIfStopped ==
    \A s \in Senders : sendOutcome[s] = "ConnectionClosed" => state = Stopped

\* How the state of the code appears to callers.
RunOf(r) ==
    CASE sup[r] = "finished"                      -> "ended"
      [] Active(r)                                -> "serving"
      [] sup[r] = "none" /\ runner[r] = "locked"  -> "admitted"
      [] sup[r] = "none" /\ runner[r] = "idle"    -> "idle"
      [] OTHER                                    -> "refused"
StopOf == IF state = Stopped THEN "announced" ELSE IF shutdown THEN "asked" ELSE "no"
ReadyOf == IF state.tag = "Ready" THEN state.gen ELSE 0
CallOf(c) == IF disc[c] \in {"stopping", "waitLock", "locked"} THEN "open" ELSE disc[c]
SendOf(s) ==
    IF sendPc[s] = "idle" THEN "idle" ELSE IF sendPc[s] = "returned" THEN sendOutcome[s] ELSE "open"

Abstract == INSTANCE ClientHandle
                WITH run <- [r \in Runners |-> RunOf(r)], answer <- runOutcome,
                     stop <- StopOf, newest <- gen,
                     live <- {g \in Generations : Live(g)}, ready <- ReadyOf,
                     call <- [c \in Callers |-> CallOf(c)],
                     send <- [s \in Senders |-> SendOf(s)], used <- conn

\* Tokens, run_lock, the watch channel, the workers and the drop guards together
\* implement ClientHandle, step by step.
ImplementsClientHandle == Abstract!Spec

\* Stopping is terminal, in both halves: no reconnect attempt that was under way
\* when stop() ran can bring the channel back to Offline or Ready.
StopIsFinal ==
    [][(shutdown => shutdown') /\ (state = Stopped => state' = Stopped)]_vars

\* A send loop never takes up the same session twice, so a session that failed
\* one request is not tried again with the next.
SendNeverReusesSession ==
    [][\A s \in Senders :
        sendPc[s] # "invoking" /\ sendPc'[s] = "invoking" => conn'[s] > conn[s]]_vars

\* disconnect() returns once it has asked for the stop, or is dropped with the
\* handler that called it: waiting for the supervisor from inside one of its
\* handlers is not a deadlock.
DisconnectReturns ==
    \A c \in Callers : disc[c] = "stopping" ~> disc[c] \in {"done", "aborted"}

\* Whatever stopped the handle and wherever the supervisor was (connecting,
\* logging in, dispatching, sleeping), it ends, its session is closed and the
\* channel says Stopped.
StopEndsRun ==
    shutdown ~> /\ state = Stopped
                /\ \A r \in Runners : ~Active(r)
                /\ \A g \in Generations : ~Live(g)

\* After a stop every handler ends, also one that would never return by itself.
StopEndsHandlers ==
    shutdown ~> \A h \in Handlers : disc[h] \notin {"idle", "waitLock"}

\* A send, of requests only, on a handle that is running or stopped returns, through any number of
\* lost sessions, provided one session in the end stays up.
SendsReturn ==
    \A s \in Senders :
        (sendPc[s] \in {"current", "waiting", "invoking"} /\ (shutdown \/ \E r \in Runners : Active(r)))
            ~> sendPc[s] = "returned"

=============================================================================
