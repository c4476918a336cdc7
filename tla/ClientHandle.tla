----------------------------- MODULE ClientHandle -----------------------------
(***************************************************************************)
(* What a MaxClient handle promises to those who call it, whatever tokens, *)
(* locks, tasks and channels it is made of: one run() at a time serves one *)
(* session at a time; a send uses each session once and the newest one     *)
(* only; a stop is asked for by somebody, is final, and is over when       *)
(* disconnect() returns.                                                   *)
(***************************************************************************)
EXTENDS Integers

CONSTANTS Runners, Callers, Handlers, Senders

VARIABLES
    run,       \* each run(): "idle", "admitted", "serving", "ended" or "refused"
    answer,    \* what it returned
    stop,      \* "no", "asked" or "announced"
    newest,    \* sessions begun
    live,      \* sessions that have a socket or a task
    ready,     \* the session offered to sends, 0 for none
    call,      \* each disconnect(): "none", "idle", "open", "done", "returned", "aborted"
    send,      \* each send: "idle", "open", or how it ended
    used       \* the session it last used

vars == <<run, answer, stop, newest, live, ready, call, send, used>>

Init ==
    /\ run = [r \in Runners |-> "idle"] /\ answer = [r \in Runners |-> "none"]
    /\ stop = "no"
    /\ newest = 0 /\ live = {} /\ ready = 0
    /\ call = [c \in Callers |-> IF c \in Handlers THEN "none" ELSE "idle"]
    /\ send = [s \in Senders |-> "idle"] /\ used = [s \in Senders |-> 0]

Busy(r) == run[r] \in {"admitted", "serving"}
Serving == \E r \in Runners : run[r] = "serving"

-------------------------------------------------------------------------------
Admit(r) ==
    /\ run[r] = "idle" /\ \A q \in Runners : ~Busy(q)
    /\ run' = [run EXCEPT ![r] = "admitted"]
    /\ UNCHANGED <<answer, stop, newest, live, ready, call, send, used>>

\* Because somebody else runs, or is being waited for by disconnect().
RefuseBusy(r) ==
    /\ run[r] = "idle"
    /\ (\E q \in Runners : Busy(q)) \/ (\E c \in Callers : call[c] = "open" /\ stop = "announced")
    /\ run' = [run EXCEPT ![r] = "refused"]
    /\ answer' = [answer EXCEPT ![r] = "AlreadyRunning"]
    /\ UNCHANGED <<stop, newest, live, ready, call, send, used>>

RefuseStopped(r) ==
    /\ run[r] = "admitted" /\ stop # "no"
    /\ run' = [run EXCEPT ![r] = "refused"]
    /\ answer' = [answer EXCEPT ![r] = "ConnectionClosed"]
    /\ UNCHANGED <<stop, newest, live, ready, call, send, used>>

Serve(r) ==
    /\ run[r] = "admitted" /\ stop = "no"
    /\ run' = [run EXCEPT ![r] = "serving"]
    /\ UNCHANGED <<answer, stop, newest, live, ready, call, send, used>>

\* A run() that is dropped, returns or fails for good stops the handle.
RunAsks(r) ==
    /\ run[r] \in {"serving", "ended"}
    /\ stop' = IF stop = "no" THEN "asked" ELSE stop
    /\ \/ UNCHANGED answer
       \/ /\ run[r] = "ended" /\ answer[r] = "none"
          /\ \E outcome \in {"Ok", "Error"} : answer' = [answer EXCEPT ![r] = outcome]
    /\ UNCHANGED <<run, newest, live, ready, call, send, used>>

\* It serves until nothing of its last session is left and all know of the stop.
EndRun(r) ==
    /\ run[r] = "serving" /\ stop = "announced" /\ live = {}
    /\ run' = [run EXCEPT ![r] = "ended"]
    /\ UNCHANGED <<answer, stop, newest, live, ready, call, send, used>>

-------------------------------------------------------------------------------
\* Only once the last session is gone.
BeginSession ==
    /\ Serving /\ stop = "no" /\ live = {}
    /\ newest' = newest + 1
    /\ UNCHANGED <<run, answer, stop, live, ready, call, send, used>>

OpenSession ==
    /\ Serving /\ stop = "no" /\ live = {} /\ newest > 0
    /\ live' = {newest}
    /\ UNCHANGED <<run, answer, stop, newest, ready, call, send, used>>

Publish ==
    /\ stop = "no" /\ newest \in live
    /\ ready' = newest
    /\ UNCHANGED <<run, answer, stop, newest, live, call, send, used>>

Withdraw ==
    /\ ready # 0 /\ ready' = 0
    /\ UNCHANGED <<run, answer, stop, newest, live, call, send, used>>

\* No send is offered a session that is gone.
CloseSession ==
    /\ live # {} /\ ready = 0
    /\ live' = {}
    /\ UNCHANGED <<run, answer, stop, newest, ready, call, send, used>>

\* From here on no session is offered again.
Announce ==
    /\ stop = "asked"
    /\ stop' = "announced" /\ ready' = 0
    /\ UNCHANGED <<run, answer, newest, live, call, send, used>>

-------------------------------------------------------------------------------
\* A message of a live session starts a handler, which may call disconnect().
StartHandler(c) ==
    /\ call[c] = "none" /\ stop = "no" /\ newest \in live
    /\ call' = [call EXCEPT ![c] = "idle"]
    /\ UNCHANGED <<run, answer, stop, newest, live, ready, send, used>>

EndHandler(c) ==
    /\ c \in Handlers /\ call[c] = "idle"
    /\ call' = [call EXCEPT ![c] = "returned"]
    /\ UNCHANGED <<run, answer, stop, newest, live, ready, send, used>>

\* Never while a session is left.
AbortHandler(c) ==
    /\ c \in Handlers /\ call[c] \in {"idle", "open"} /\ stop = "announced" /\ live = {}
    /\ call' = [call EXCEPT ![c] = "aborted"]
    /\ UNCHANGED <<run, answer, stop, newest, live, ready, send, used>>

Disconnect(c) ==
    /\ call[c] = "idle"
    /\ call' = [call EXCEPT ![c] = "open"]
    /\ stop' = IF stop = "no" THEN "asked" ELSE stop
    /\ UNCHANGED <<run, answer, newest, live, ready, send, used>>

Disconnected(c) ==
    /\ call[c] = "open" /\ stop = "announced" /\ live = {} /\ ~Serving
    /\ call' = [call EXCEPT ![c] = "done"]
    /\ UNCHANGED <<run, answer, stop, newest, live, ready, send, used>>

-------------------------------------------------------------------------------
StartSend(s) ==
    /\ send[s] = "idle"
    /\ send' = [send EXCEPT ![s] = "open"]
    /\ UNCHANGED <<run, answer, stop, newest, live, ready, call, used>>

\* Each session once, and never an older one.
Use(s) ==
    /\ send[s] = "open" /\ stop = "no"
    /\ ready > used[s]
    /\ used' = [used EXCEPT ![s] = ready]
    /\ UNCHANGED <<run, answer, stop, newest, live, ready, call, send>>

Answered(s) ==
    /\ send[s] = "open" /\ stop = "no" /\ used[s] \in live
    /\ \E outcome \in {"Ok", "Error"} : send' = [send EXCEPT ![s] = outcome]
    /\ UNCHANGED <<run, answer, stop, newest, live, ready, call, used>>

Closed(s) ==
    /\ send[s] = "open" /\ stop = "announced"
    /\ send' = [send EXCEPT ![s] = "ConnectionClosed"]
    /\ UNCHANGED <<run, answer, stop, newest, live, ready, call, used>>

-------------------------------------------------------------------------------
RunCall(r)  == Admit(r) \/ RefuseBusy(r) \/ RefuseStopped(r) \/ Serve(r) \/ RunAsks(r) \/ EndRun(r)
Session     == BeginSession \/ OpenSession \/ Publish \/ Withdraw \/ CloseSession \/ Announce
Handler(c)  == StartHandler(c) \/ EndHandler(c) \/ AbortHandler(c)
SendCall(s) == StartSend(s) \/ Use(s) \/ Answered(s) \/ Closed(s)

Next ==
    \/ Session
    \/ \E r \in Runners : RunCall(r)
    \/ \E c \in Callers : Handler(c) \/ Disconnect(c) \/ Disconnected(c)
    \/ \E s \in Senders : SendCall(s)

Spec == Init /\ [][Next]_vars
===============================================================================
