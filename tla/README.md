# maxrs: verification project

`maxrs` is an asynchronous client for the Max (OneMe) WebSocket API. A `MaxClient` handle and its
clones share one connection; `run()` connects, logs in, dispatches messages to a handler and
reconnects after failures until `disconnect()`. This directory holds TLA+ modules of that machinery,
the TLC configurations that check them, and proofs about them for TLAPS. Paths below are relative to
the crate: `client/mod.rs` is `src/client/mod.rs`.

## Inventory

| Component | State | Operations | What makes it correct |
|---|---|---|---|
| Client handle (`client/mod.rs`) | `run_lock`, `handler_shutdown`, message id, device id | `run`, `disconnect`, drop of a `run` future | one supervisor; a stop is terminal, complete and has a cause |
| Supervisor (`run_loop`, `run_attempt`, `Attempt`) | current attempt: connection, worker tasks; config; backoff | begin, connect, SESSION_INIT, login, publish, dispatch, close, decide, sleep | nothing of an attempt survives it; every stop ends it |
| Recovery (`client/recovery.rs`) | shutdown token, watch channel Offline / Ready / Stopped, backoff delay | `begin_attempt`, `connected`, `offline`, `current`, `stop` | Ready means usable; no lost wakeup; Stopped is final; attempts that fail are spaced |
| Send loops (`send_text`, `send_file_bytes`) | the connection in use, the message id | take an id, wait for a session, invoke, replay | return; never re-use a lost session; fail as closed only when stopped; a replay is not a second message |
| Connection (`client/connection.rs`) | cancellation token, own user id | `invoke`, `cancel` | a transport failure cancels the session it happened on |
| Transport (`client/transport.rs`) | `send_order`, sink, next sequence number, pending map | `invoke`, `send`, `receive_response`, `close` | each response reaches its own request; frames in order; every call ends |
| Read loop (`client/read_loop.rs`) | the stream | responses, acknowledged messages, RECONNECT, attachments | never stuck behind the calls it serves |
| Keepalive (`client/mod.rs`) | none | PING every 30 s | a failed ping ends the session |
| Dispatcher and handlers (`client/dispatcher.rs`) | message queue, own-id filter, one task per message | acknowledge, filter, queue, start, return, abort | messages in order, none twice, none lost but with its session; handlers survive reconnects and end after a stop |
| Attachment registry, file upload | waiters by file id | `register`, `complete`, drop | a completion is not missed and not stolen |
| Login flow (`auth/mod.rs`) | token, config | saved token, SMS, captcha, password | a token is not lost; refused means refused |
| Captcha solver and callback server (`auth/captcha`) | pending challenges, port | `solve`, `handle_callback`, expiry | at most one report counts, and only its own attempt's; the port is given back; a solve ends |
| Operator channels (`auth/operator_channels`) | Telegram offset, deadline | ask for the SMS code | no reply from before the request is taken, none after it is skipped |
| Packets, payloads, configuration | none | serialisation, environment | pure; unit tests |

Interactions. `run()` spawns the supervisor and moves `run_lock` into it. The supervisor creates a
connection per attempt whose token is a child of the shutdown token, spawns the read loop and the
keepalive into the attempt's `JoinSet`, and publishes the connection on the watch channel. Sends
read that channel and call `Connection::invoke`. Whoever notices a dead session (read loop,
keepalive, a send, RECONNECT) only cancels its token; the supervisor sees that in a `select!` and
alone tears it down. `disconnect()` cancels the shutdown token, writes Stopped, and waits for
`run_lock`. A handler is a task of its own, holds a clone of the handle, and may call any of this.

The hard parts are therefore the interleavings: two-step stops against a publication under way,
an attempt dropped at any await, a lock handed between tasks, `disconnect()` from inside a handler,
requests dropped, timed out or answered late, and a counter that wraps. Nothing but a session token
file is persisted. `PROJECT.json` lists each hazard at its line.

## Modules

| Module | Stands for |
|---|---|
| `MaxClient` | run, supervisor, recovery, sessions, disconnect, handlers, send loops |
| `ClientHandle` | what a handle promises to its callers: one run at a time, one session at a time, each session used once by a send, a stop that is final and complete |
| `MCMaxClient` | the TLC instance of `MaxClient`: symmetry |
| `MaxClientProofs` | its theorems |
| `ClientHandleProofs` | the refinement of `ClientHandle` by `MaxClient` |
| `Transport` | concurrent `invoke` calls, read loop, close, on one socket |
| `RequestReply` | what `invoke` promises: asked at most once, answered or failed |
| `MCTransport` | its TLC instance: symmetry |
| `TransportProofs` | its theorems, with the refinement of `RequestReply` |
| `FileSend` | `send_file_bytes`, message ids, and the attachment registry of each connection |
| `FileSendProofs` | its theorems |
| `Dispatch` | a pushed message from the socket to its handler task, over sessions |
| `DispatchProofs` | its theorems |
| `AuthFlow` | `AuthFlow::login` over attempts and restarts, with the token file and the backoff |
| `AuthFlowProofs` | its theorems |
| `Captcha` | `solve_auth_captcha`: solver, callback server and callbacks, over attempts |
| `CaptchaProofs` | its theorems |
| `Telegram` | the Telegram channel's request for an SMS code, request after request |
| `TelegramProofs` | its theorems |

The two levels fit together at `Connection::invoke`. In `MaxClient` a request is answered or
fails with its session (`SendAnswered`, `SendReplays`, `SupSessionInit`, `SupLogin`); `Transport`
opens one such session up and is shown to implement `RequestReply`, which says just that. Above
both, `MaxClient` is shown to implement `ClientHandle`.
`FileSend`, `AuthFlow` and `Dispatch` look at what `MaxClient` has as one step (a file upload, a
login, a handler that starts), and keep of the sessions only that they come and go. `Captcha` and
`Telegram` open up two awaits of `AuthFlow`, `solving` and `operator`. Modules without an `MC`
module are run by TLC as they are: their constants are numbers, or too few for symmetry.

### MaxClient

One step is what a task does between two points where another task can see or change what it
reads: an await, or an access to a token, a lock or the channel. Tokio may run the tasks on several
threads, so `stop()` is two steps (token, channel), leaving the supervisor's task is four
(`SupStop`, `SupStopPublish`, `SupHandlers`, `SupUnlock`: the locals drop in reverse order), and
`Attempt::close` is three (`SupCancel`, `SupJoin`, `SupClose`).

| State | Code |
|---|---|
| `shutdown`, `cancelled`, `IsCancelled` | the shutdown token and its child of each connection; cancelling the parent cancels all |
| `state`, `dirty` | the watch channel and whether each `current()` has seen its value |
| `gen`, `att`, `open`, `tasks`, `authenticated` | connections created, the one a supervisor works on, those with a sink, with workers, logged in |
| `runLock`, `runner`, `sup`, `verdict`, `runOutcome` | `run_lock`, callers of `run()`, their spawned tasks, results |
| `handlerShutdown`, `disc` | its token; callers of `disconnect()`, of which handlers are created by the dispatcher and may be aborted at an await |
| `sendPc`, `conn`, `sendOutcome` | the send loops |

Abstractions. `connected()` runs its check and its write under the channel's lock and is one step.
Who gets a free lock is left open, although tokio's mutex is fair. Connecting and login are a step
each that succeeds, fails for now, fails for good, or is dropped when the connection is cancelled.
A file upload is a request like any other; its own failures are the answer "Error", and its
transfer, which has no timeout, is left to `FileSend`. The message queue is in `Dispatch`, message
ids in `FileSend`, and how long a delay lasts in `AuthFlow`; here they carry no state. A panic in the supervisor is not modelled.
Every handle stays alive, so the channel never closes.

`run()` returns `ClientAlreadyRunning` whenever it cannot take `run_lock`. That includes the moment
in which a `disconnect()` holds it although no runner exists, and the model has that behaviour.

`ClientHandle` knows neither tokens, locks, tasks nor a channel. The mapping (`RunOf`, `StopOf`,
`ReadyOf`, `CallOf`, `SendOf`) makes of them what a caller can tell: a `run()` is admitted while its
caller has the lock, serves as long as its supervisor is alive, and has ended then; a stop is asked
for when the token is cancelled and announced when the channel says Stopped; a session is live as
long as it has a socket or a task; a connection in the channel is what sends are offered. Its actions
carry the promises as guards: a session begins when nothing of the last is left and no stop was asked
for, none is closed while it is offered, a send takes only a newer one and reports `ConnectionClosed`
only behind the announcement, a handler is aborted and `disconnect()` returns only when no session is
left. Releasing `run_lock`, joining workers and a send that goes round do not show.

### Transport

A call of `invoke` passes the `send_order` lock, the number, the registration, the sink lock, the
write and the flush, and then waits. The state mutex is never held across an await, so each of its
critical sections is one step; the await in front of one is where a call may be dropped (`Drop`).
`pending` stores the call whose oneshot sender is in the map; `inbox` is the receiver, `Gone` when
the sender was dropped. A timeout drops the receiver first (`GivesUp`) and removes the entry by
its number later (`Remove`). The read loop either delivers a response or writes an acknowledgement
through the same sink. `CloseJoin`, `ClosePending`, `CloseSink` are `Attempt::close` as the
transport sees it. A response that carries an error frame is a response. The server, external,
answers a request it received at most once, in any order, or not at all.

### FileSend

| State | Code |
|---|---|
| `registry[g][f]` | `AttachmentRegistry::waiters` of connection `g`; the call stands for the identity of its registration, as a call registers once on a connection |
| `completion[s]` | the oneshot of the call's waiter: empty, sent by `complete`, or dropped with the registration |
| `pc`, `on`, `file` | where the call is, the connection it uses, the file id it was given |
| `gen`, `cancelled`, `readers` | the newest connection, those cancelled, the read loop that is alive |
| `lastCid`, `cid` | `InnerClient::cid`, and the id each call took for its message, once for all replays |
| `written`, `stored`, `delivered` | the server, external: MSG_SEND requests that may have reached it, ids it has, messages it made of each call |

`UploadGranted` takes the answer to FILE_UPLOAD and registers, in one step as in the code, before
the transfer begins. `DropWaiter` is part of every step that leaves the scope of the waiter: `wait`
returning, a failed transfer, the timeout, the cancellation in both `select!`s, and the caller
dropping the future. The server, external, may grant any file id, also one in use or used before,
and notify of any file at any time, several times, or never. `wait()` does not look at why its
receiver ended, so a dropped registration would count as processed; `SentIsProcessed` says that
this never happens. `NextCid` reads a clock that may stand still or go back. A replay sends the same
id, and the server, which may get to any copy of a request at any time, drops a message whose id it
has; the code relies on that. A refused upload and a malformed answer are one step, and the HTTP response's
status, which the code does not look at, is not there.

### AuthFlow

| State | Code |
|---|---|
| `configToken` | `session_token` of the `LoginConfig` that `run_loop` holds; `settings` says which other parts are configured |
| `file`, `writes` | `.max_session_token`, and each `store_session_token_file` in tokio's blocking pool |
| `pc`, `token` | the await at which the attempt is, the token it logs in with |
| `issued`, `valid` | the server, external: it issues tokens and may end any of them at any time |
| `delay`, `slept`, `smsAt` | `Backoff::delay`; history: time waited since the last healthy session, and how much of it at the last SMS (`Never`: there was none) |
| `loggedIn`, `lastLogin`, `refused` | history: tokens a LOGIN succeeded with, the one `login()` last returned in this process, whether the server refused this attempt's token |

An attempt is lost at any await (`Interrupted`) or fails for good (`FailsFatal`); which errors
are which is decided by `should_retry_connection` and the two `should_...` predicates of the login
flow. A write of the token file outlives the attempt that started it, opens (and empties) the file,
then writes; it may fail at both, and the program may die in between (`Restart`, which reads the
file). Tokens are taken to have one length, so that two overlapping writes leave one of them. An
answer without the account's id fails the login as any malformed answer does. The captcha is one
await and so is the operator. A session that is lost was healthy or not (up for
`HEALTHY_CONNECTION_INTERVAL` or less, a choice), and only a healthy one resets the delay.

### Dispatch

| State | Code |
|---|---|
| `session`, `cancelled`, `receiver` | the newest connection, its token, the attempt that holds the receiving end of its queue |
| `login`, `ownIdKnown` | how far the attempt is; `Connection::own_user_id` |
| `socket`, `reading`, `reader` | frames not yet read, the read loop, the push it is acknowledging |
| `queue`, `dispatched` | the unbounded channel; handler tasks spawned |
| `pushed`, `unpushed`, `acked` | the server, external: pushes made, sends of this handle it has not pushed yet; acknowledgements written |

The read loop lives from the connect on, so that pushes may come while login is still going on and
wait in the queue. The acknowledgement is a frame of its own whose failure is ignored: `Forward`
does not look at `acked`. A push whose frame does not parse is skipped. The attempt may end in any
state; what it had queued is dropped with it. The server pushes a message to one session only, and
may push this handle's own messages in a later one.

### Captcha

| State | Code |
|---|---|
| `attempt`, `pc`, `due`, `outcome` | login attempts that need a captcha; where its `solve` is; what it will return, and did |
| `entry` | `pending` of each attempt's solver; challenges are fresh UUIDs, so the attempt names one |
| `sent` | the oneshot of the challenge: empty, the call it was given, or dropped |
| `listener` | the attempt whose server task holds the fixed port |
| `late` | challenges older than an hour |
| `task`, `call` | callbacks: each has a task of its own, which may outlive server and solve |

`handle_callback` is three steps (`Cleanup`, `Lookup`, `Deliver`): the map's lock is taken twice and
the oneshot is used after it. An interrupted solve leaves its entry to nobody, as its solver is
gone, and its server task only aborted: it ends when the runtime gets to it (`ServerEnds`), and the
next attempt may find the port taken. What the HTTP layer refuses (path, method, size, JSON) is one
step. The solver service is external: it may report on a challenge never, twice, late, or to the
server of a later attempt.

### Telegram

| State | Code |
|---|---|
| `request`, `pc`, `offset`, `page`, `overdue` | the call of `request_sms_code` under way, its next offset, the updates it is looking at, its deadline |
| `code`, `result` | the update it took, how it ended |
| `updates`, `confirmed` | the Bot API, external: the log of updates, those confirmed and forgotten |
| `began`, `backlog`, `since` | history: the log at the beginning of the request and at its first fetch |

`getUpdates` returns one page of what is not confirmed; an offset confirms everything before it.
The prompt is posted one to three times, which is one step. The deadline is looked at between two
polls only. An update is a text that may be a code, or anything else; the text's shape is not
looked at, as in the code.

## Runs

| Run | Bounds | Question |
|---|---|---|
| `client_safety` | 2 `run()`, 1 `disconnect()`, 1 handler, 1 send, 2 generations | lock, sessions, channel, stop; the refinement of `ClientHandle` |
| `client_liveness` | 1 of each, 2 generations | does everything asked for end; waiting for a session, replay, and whether a session in use is served |
| `transport_safety` | 3 calls, counter of 4, 1 acknowledgement | matching, order, refinement |
| `transport_wrap` | 3 calls, counter of 2, no acknowledgement | what happens when the counter wraps |
| `transport_liveness` | 2 calls, counter of 4, 1 acknowledgement | does everybody get the sink and end |
| `file` | 2 uploads, 2 file ids, 3 connections, clock 0..1 | registrations against waiters, one message for each call, does an upload return |
| `auth` | 3 tokens, 4 attempts, 1 restart, delays 1 to 3 | what is saved, what the next attempt knows and when it asks, does an attempt leave `login()` |
| `auth_reconnect` | 2 tokens, 3 attempts, no restart | expected to fail, see below |
| `captcha` | 2 attempts, 2 callbacks | whose report counts, what becomes of the port, does a solve end |
| `captcha_expiry` | 1 attempt, 1 callback | expected to fail, see below |
| `dispatch` | 3 pushes, 2 sessions | order, loss and echo of messages |
| `telegram` | pages of 2, 5 updates, 3 requests | which reply is taken |

Why these are enough. Two runners give the race for the lock, with one supervisor possibly still
tearing down; a `disconnect()` outside and one inside a handler give the two ways to wait for it.
Two generations give a lost session, its replacement and everything left over from the first; a
third adds no new relation, as every property relates a generation to the newest one. Three calls
and a counter of four never wrap (`WireInOrder` is a statement about numbers in use and does not
survive a wrap); three calls and a counter of two wrap, with one call still waiting for the number
the third takes. For a send one session lost and a second that stays are enough to see it wait, move
and be woken.
Two uploads with two file ids on three connections are the owner of a registration, one that had it
before or is refused, and a message replayed twice; a clock of two values stands still, goes on and
goes back. Four attempts are a login, its loss, a refusal and one
more; three tokens are the one from before the start and two issued, whose writes may overlap;
delays of 1, 2 and 3 double once and then meet the cap. Two attempts with two callbacks give a
repeated report, a late one, and one for the first attempt that meets the server of the second.
Three pushes in two sessions give one handled, one queued and one on the socket, and an echo in its own session or the next. Five
updates with pages of two give a backlog that fits a page and one that does not, and three requests
a reply left over from each of the two before. `CHECK_DEADLOCK` is off because all callers may have returned.

`MaxAttempts` bounds the generations. The last one is not hit by a failure of the environment
(`MayFail`), so that a run stopped only by the bound is not mistaken for one that hangs; it still
may be refused by the server, be cancelled by a stop, and end by a fatal error. `MaxPushes` bounds
acknowledgements in `Transport` and messages in `Dispatch`. `MaxGenerations`, `MaxSessions`,
`MaxTokens`, `MaxRestarts`, `MaxCalls`, `MaxUpdates`, `MaxRequests`, `MaxMillis`, and `MaxAttempts` of
`AuthFlow` and `Captcha`, are bounds of the same kind.

What the properties say is written above each of them. In short: `OneSupervisor`,
`OneLiveSession`, `DisconnectIsComplete`, `HandlersOutliveReconnects` (ownership and teardown);
`ReadyIsUsable`, `NoLostWakeup`, `SendNeverReusesSession`, `SessionIsServed` (the channel and
its readers); `StopIsCaused` (stopping); `ImplementsClientHandle` (all of it, as callers see it);
`ResponseMatches`, `WireInOrder`, `NoWaiterLost`, `NoWaiterReplaced`, `DuplicateMeansInFlight`, `ImplementsRequestReply` (transport);
`SentIsProcessed`, `WaiterIsFound`, `RegistryIsLive`, `OkMeansStoredOnce` (uploads);
`HandledInOrder`, `LostOnlyWithSession`, `EchoIsOld` (messages); `SavedTokenWorked`,
`LoginIsRemembered`, `SmsAreSpaced` (logins); `TokenIsOwn`, `AnsweredOnce`, `PortIsFreed` (captchas);
`CodeIsFresh`, `RepliesAreNotSkipped` (codes); and `DisconnectReturns`, `StopEndsRun`,
`StopEndsHandlers`, `SendsReturn`, `CallsReturn`, `SinkWaitsEnd`, `FileSendReturns`, `LoginEnds`,
`SolveEnds` (something happens). A definition named `...Mutant` next to a helper is a
plausible slip in it, by which each property was seen to fail; no action uses one.

Fairness. In `MaxClient` a task that can move does: tokio polls a woken task, every request and the
connect have a 20 s timeout, and an operator who is asked for a code answers (reading stdin has no
timeout). Starting a call, dropping a `run()` future, a handler's return and every failure have no
fairness. In `Transport` a call's wait for a lock is strongly fair, because tokio's mutex is a
queue, and so is the read loop's and `close()`'s; a write and a wait for a response end by their
timeouts. The server has none. In `FileSend` a call moves at every await but one: the HTTP client
is built without a timeout, so a transfer to a server that hangs ends only with the session, and
`FileSendReturns` supposes that transfers do not stay for ever. In `AuthFlow` requests, the captcha
and the pool's writes end; the operator need not answer (reading stdin has no timeout, and the
deadline of the Telegram channel is only looked at between polls, which have none either), and
`LoginEnds` says so. In `Captcha` the tasks of a solve are scheduled, its hour passes, and a server
that was told to stop or was aborted ends; no callback is owed, so `SolveEnds` rests on the hour.
`Dispatch` and `Telegram` state no fairness: nothing obliges the server to push, or the operator to
answer.

### Divergences from the documentation

`docs/PROTOCOL.md:121` says: "The client reconnects and repeats SESSION_INIT + LOGIN with its saved
token." `auth_reconnect` checks that of every attempt after the first, `ReconnectUsesSavedToken`,
and TLC finds a run in which it fails: an SMS login succeeds and its token is being written; the
session is lost, which drops `login()` at that await; the write goes on, so the token is saved; but
`config.session_token` is set only when `login()` returns (`client/mod.rs:172`), and the next
attempt asks for another SMS, or tries the older, refused token again. What does hold is
`LoginIsRemembered`: once `login()` has returned a token, later attempts begin with it.

`error.rs:75` says of `CaptchaFailed`: "Captcha solver reported failure or an invalid callback."
`captcha_expiry` checks that, `FailedMeansReported`. Every callback first runs `cleanup_expired`
(`auth/captcha/solver.rs:119`), which drops a waiter that is an hour old. If one arrives, about
anything, after the hour and before the timer of `solve` was looked at, `solve` sees its sender gone
and returns `CaptchaFailed("callback waiter dropped")`, which ends `run()`, instead of the timeout,
which is retried.

## Proofs

A theorem holds for every value of the constants: any callers, calls, file ids, page size, and any
bound, so that the bounds of the runs are no part of it. Each module's `TypeOK`, each safety
property that a passing run checks and both refinements are proved. Few of them are inductive alone; each
proof module begins with the strengthening, `IInv` or its parts, and has one lemma for each part or
action. The assumptions are those the modules name about their constants: bounds that are numbers,
at least one generation, session, attempt or request, names that are different.

`MaxClientProofs` (`AttemptsAssumption`, `NamesAssumption`): the strengthening says who holds what
at each point.

- `LockInv`: the lock is held by a `run()` about to spawn, by a living supervisor, or by a
  `disconnect()`. Hence `OneSupervisor`.
- `SessionInv`: a supervisor inside an attempt works on the newest generation, and whatever is live
  is its own. A new generation begins only outside an attempt, where nothing is live.
- `StopInv`: which halves of a stop lie behind each point. With the lock this gives
  `DisconnectIsComplete`: the lock is free of a supervisor, the token is cancelled, so a later
  `run()` takes the lock but spawns nothing.
- `CauseInv`: a supervisor leaves because of the token or a fatal verdict.
- `SendInv`: a send that is not using a session has seen the last one it used cancelled, so the
  connection it takes next, published and not cancelled, has a higher number.
- `ServedInv`: a send that uses a session which is not cancelled has its supervisor dispatching, and
  a session is cancelled before it is taken off the channel. This is what `SessionIsServed` lacks: a
  worker that ends has cancelled, and the supervisor takes away socket and workers only behind that.
- `ReadyIsUsable`, `HandlersOutliveReconnects`, `NoLostWakeup`, `ClosedOnlyIfStopped`,
  `DisconnectIsComplete` are parts themselves. `StopIsFinal` and `SendNeverReusesSession` are proved
  per step from the invariant. `ClosedOnlyIfStopped` and `StopIsFinal` are not among the properties of
  a run: `ClientHandle` has them in its guards, so `client_safety` checks them with the refinement.

`ClientHandleProofs` (the same assumptions) adds `HolderInv` to that: who else may hold `run_lock`,
that no worker outlives its socket, that a `run()` has no outcome before it ends, that handlers are
told to abort only behind the announcement. From both, one lemma for each task of `MaxClient`
(`RunCallShows`, `SuperviseShows`, `SessionShows`, `DisconnectShows`, `HandleShows`, `SendShows`) maps
each of its steps to one action of `ClientHandle` or to none that shows, and `ClientImplements` joins
them. The guards are where the invariant is needed: a session begins with nothing live
(`SessionInv`), a refusal has somebody who is busy or waited for (`LockInv`, `HolderInv`), a send's
next session is newer (`SendInv`) and the one it is answered on is live (`ServedInv`).

`TransportProofs` (`ModulusAssumption`, `NamesAssumption`, `PushesAssumption`) has three parts.

- `TableInv` is about the pending map and holds for any modulus, after a wrap too: an entry is
  stored under its call's number, and its call has no answer yet (`EntryInv`); a call that waits has
  its entry, its answer, or a reason to give up (`NoWaiterLost`). From it follow `NoWaiterReplaced`
  and `DuplicateMeansInFlight`, which say what a wrap can and cannot do.
- Also for any modulus: `send_order` and the sink lock are held exactly by who is between taking and
  giving back (`LockInv`), so whoever returned, was dropped at an await or was aborted by `close()`
  holds none (`LocksHaveHolders`); and an answer is to a frame that was sent and carries the number of
  the call that returns it (`FitInv`, hence `AnswersFit`). A wrong answer takes a number given twice.
- Under `NoWrap`, fewer calls than numbers, a number is one call's for good (`NumberInv`: as many
  numbers are gone as calls are numbered). Who sends holds `send_order` and has the newest number
  (`OrderInv`, hence `WireInOrder`), and an answer is to a request that was sent (`AnswerInv`, hence
  `ResponseMatches`). `TransportImplements` maps every step to one of `RequestReply` or a stutter.
  Without `NoWrap` these three are false: a late answer reaches the next call of that number. The
  hypothesis is part of the theorems; the code's counter has 32 bits.

`FileSendProofs` (`GenerationsAssumption`, `NoneAssumption`, `MillisAssumption`): `RegistryIsLive`
gives a registration one owner, hence a drop touches nobody else's (`DropIsOwn`); so a live waiter is
either registered or told (`WaiterIsFound`), and what wakes it is never a drop (`SentIsProcessed`).
One lemma, `LeavingKeepsInv`, serves all eight steps that drop a waiter. `OkMeansStoredOnce` has an
invariant of its own: ids only go down (`IdsFall`), so each is one call's (`IdsAreOwn`), and what is
stored under it is that call's message, once (`StoredOnce`).

`DispatchProofs` (`BoundsAssumption`): a push goes from socket to reader to queue to handler and
never back, so places further from the server hold older pushes (`OrderInv`, hence
`HandledInOrder`). A session is published after its own id is stored, so what it sent finds the
filter on when it comes back in the same session (`EchoInv`).

`AuthFlowProofs` (`BoundsAssumption`, `DelayAssumption`): `SavedTokenWorked` needs `WritesWorked` (a
write under way is of a token that worked), `LoginIsRemembered` needs `ConfigRemembers` (the
configuration holds the token last returned, and an attempt at its first LOGIN uses it).
`SmsAreSpaced` compares the time waited with what it was at the last SMS. `DelayInv` ties the delay to
the time waited (it is at least that time and a first delay, or the cap), and `SmsInv` says that from
the beginning of an attempt to its SMS the last one lies a pause behind: every way from one SMS to the
next passes `BackOff` (`BackOffKeepsSpace`).

`CaptchaProofs` (`BoundsAssumption`): a challenge has one token, which is its entry, then the call
that took it, then what its oneshot was given (`TokenInv`); hence `AnsweredOnce`, and with what a
solve is about to return (`OutcomeInv`) `TokenIsOwn`. The port is the current solve's or an
interrupted one's (`PortInv`).

`TelegramProofs` (`BoundsAssumption`): a page is a run of the log without gaps (`PageInv`), and
polling starts after what one page can show of what was there (`KnownOld`, `FreshInv`): all of it, or
of a longer backlog its first page. The offset never passes a reply that was not looked at
(`ReplyInv`).

Only model-checked: all liveness and the fairness it needs, which are out of the prover's reach, and
the two expected violations. No property is defined by recursion over data, so no theorem needs the
library's induction theorems, whose operator parameter the installed provers cannot instantiate;
`Cardinality` is used with the lemmas on finite sets that the library proves.

## Not modelled, and the plan

All modules of the plan are written and proved. What is left:

1. Abstract specifications of `FileSend` (a store that has each accepted message once) and `Captcha`
   (a verdict given once), which their properties now state one by one.
2. Telegram beyond its guarantee: a reply to an earlier prompt that comes late and a poll without a
   timeout are exposures of the code that no document promises to exclude. They are listed as hazards
   and no property covers them; `CodeIsFresh` says how far a backlog larger than a page is excluded.

Left out: serialisation of packets and payloads, message formatting, environment and command line,
the example and the error texts are pure or plain I/O. Of the tables that classify HTTP and I/O
errors only the outcome is modelled (retried or not), as a choice of the environment. The command
line channel is one read of stdin and has no state; it is `CodeEntered` of `AuthFlow`. The captcha
solver service is a separate program of which the repository holds only the interface, and is the
environment of `Captcha`.
