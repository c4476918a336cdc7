-------------------------------- MODULE Captcha --------------------------------
(***************************************************************************)
(* solve_auth_captcha: a callback server on a fixed port for the time of   *)
(* one solve, the solve itself with its map of pending challenges, and the *)
(* callbacks, each handled on a task of its own that may outlive server    *)
(* and solve. Login attempts follow each other and any may be interrupted. *)
(***************************************************************************)
EXTENDS Integers

CONSTANTS
    MaxAttempts,  \* bound: login attempts that need a captcha
    MaxCalls      \* bound: requests made to the callback address

ASSUME BoundsAssumption == MaxAttempts \in Nat \ {0} /\ MaxCalls \in Nat

Attempts == 1 .. MaxAttempts   \* one challenge, named by a fresh UUID, in each
Calls    == 1 .. MaxCalls
Nobody   == 0
Dropped  == MaxCalls + 1       \* a sender that went without sending

VARIABLES
    attempt,    \* the newest attempt
    pc,         \* how far its solve is
    outcome,    \* per attempt: what solve_auth_captcha returned, if it did
    due,        \* what a solve that is removing its entry will return
    late,       \* challenges older than an hour
    entry,      \* challenges in the map of their solver
    sent,       \* per attempt: the call its oneshot was given, if any
    listener,   \* the attempt that holds the port
    task,       \* per call: what its task does, or how it was answered
    call        \* per call: its challenge, its verdict and the solver it met

vars == <<attempt, pc, outcome, due, late, entry, sent, listener, task, call>>

Verdicts == {"ok", "failed"}
Fatal    == {"failed", "rejected", "bindFailed"}
Outcomes == Fatal \cup {"ok", "timeout", "unavailable", "interrupted"}
Answers  == {"200", "400", "refused"}
Solving  == {"posting", "waiting", "removing", "expiring", "closing"}
Call     == [challenge : Attempts \cup {Nobody}, verdict : Verdicts, via : Attempts \cup {Nobody}]

TypeOK ==
    /\ attempt \in Attempts
    /\ pc \in Solving \cup {"start", "done"}
    /\ outcome \in [Attempts -> Outcomes \cup {"none"}]
    /\ due \in Outcomes \cup {"none"}
    /\ late \subseteq Attempts
    /\ entry \subseteq Attempts
    /\ sent \in [Attempts -> Calls \cup {Nobody, Dropped}]
    /\ listener \in Attempts \cup {Nobody}
    /\ task \in [Calls -> Answers \cup {"unsent", "cleaning", "looking", "sending"}]
    /\ call \in [Calls -> Call]

Init ==
    /\ attempt = 1
    /\ pc = "start"
    /\ outcome = [a \in Attempts |-> "none"]
    /\ due = "none"
    /\ late = {}
    /\ entry = {}
    /\ sent = [a \in Attempts |-> Nobody]
    /\ listener = Nobody
    /\ task = [c \in Calls |-> "unsent"]
    /\ call = [c \in Calls |-> [challenge |-> Nobody, verdict |-> "failed", via |-> Nobody]]

-------------------------------------------------------------------------------
(* The solve. *)

Bind ==
    /\ pc = "start" /\ listener = Nobody
    /\ listener' = attempt
    /\ entry' = entry \cup {attempt}
    /\ pc' = "posting"
    /\ UNCHANGED <<attempt, outcome, due, late, sent, task, call>>

Return(result) ==
    /\ outcome' = [outcome EXCEPT ![attempt] = result]
    /\ pc' = "done"

(* The address is in use: an error that run() does not retry. *)
BindFails ==
    /\ pc = "start" /\ listener # Nobody
    /\ Return("bindFailed")
    /\ UNCHANGED <<attempt, due, late, entry, sent, listener, task, call>>

Posted ==
    /\ pc = "posting"
    /\ pc' = "waiting"
    /\ UNCHANGED <<attempt, outcome, due, late, entry, sent, listener, task, call>>

(* The entry is removed while the receiver still lives. *)
PostFails(result) ==
    /\ pc = "posting"
    /\ result = "timeout" => attempt \in late
    /\ due' = result
    /\ pc' = "removing"
    /\ UNCHANGED <<attempt, outcome, late, entry, sent, listener, task, call>>

Receive ==
    /\ pc = "waiting" /\ sent[attempt] # Nobody
    /\ due' = IF sent[attempt] = Dropped THEN "failed" ELSE call[sent[attempt]].verdict
    /\ pc' = "closing"
    /\ UNCHANGED <<attempt, outcome, late, entry, sent, listener, task, call>>

(* Mutant: only the POST is timed. *)
ExpireMutant ==
    /\ FALSE
    /\ UNCHANGED vars

(* The timer drops the receiver before the entry is removed. A verdict that *)
(* comes after the last look at the receiver is lost with it.              *)
Expire ==
    /\ pc = "waiting" /\ attempt \in late
    /\ due' = "timeout"
    /\ pc' = "expiring"
    /\ UNCHANGED <<attempt, outcome, late, entry, sent, listener, task, call>>

RemoveEntry ==
    /\ pc \in {"removing", "expiring"}
    /\ entry' = entry \ {attempt}
    /\ pc' = "closing"
    /\ UNCHANGED <<attempt, outcome, due, late, sent, listener, task, call>>

(* Mutant: the server task is told to stop and not waited for. *)
FinishMutant ==
    /\ pc = "closing"
    /\ Return(due)
    /\ UNCHANGED <<attempt, due, late, entry, sent, listener, task, call>>

(* HttpServerTask::shutdown waits for the server task. *)
Finish ==
    /\ pc = "closing" /\ listener # attempt
    /\ Return(due)
    /\ UNCHANGED <<attempt, due, late, entry, sent, listener, task, call>>

(* The attempt is dropped at an await: the server task is only aborted. *)
Interrupt ==
    /\ pc \in Solving
    /\ Return("interrupted")
    /\ UNCHANGED <<attempt, due, late, entry, sent, listener, task, call>>

(* run() begins another attempt, unless the error was fatal. *)
NextAttempt ==
    /\ pc = "done" /\ outcome[attempt] \notin Fatal
    /\ attempt < MaxAttempts
    /\ attempt' = attempt + 1
    /\ pc' = "start"
    /\ UNCHANGED <<outcome, due, late, entry, sent, listener, task, call>>

(* An hour has passed since the challenge began. *)
HourPasses ==
    /\ pc \in Solving /\ attempt \notin late
    /\ late' = late \cup {attempt}
    /\ UNCHANGED <<attempt, pc, outcome, due, entry, sent, listener, task, call>>

(* The server task ends: told to, aborted, or on an accept error, which    *)
(* leaves the solve waiting out its hour.                                  *)
ServerEnds ==
    /\ listener # Nobody
    /\ listener' = Nobody
    /\ UNCHANGED <<attempt, pc, outcome, due, late, entry, sent, task, call>>

-------------------------------------------------------------------------------
(* Callbacks. The solver service knows a challenge once it was posted, may *)
(* report on it more than once, and may reach a later attempt's server.    *)

Accept(c, challenge, verdict) ==
    /\ task[c] = "unsent" /\ listener # Nobody
    /\ challenge <= attempt
    /\ \A d \in Calls : d < c => task[d] # "unsent"   \* numbered as they come
    /\ call' = [call EXCEPT ![c] = [challenge |-> challenge, verdict |-> verdict,
                                    via |-> listener]]
    /\ task' = [task EXCEPT ![c] = "cleaning"]
    /\ UNCHANGED <<attempt, pc, outcome, due, late, entry, sent, listener>>

(* Wrong path or method, a body too large or not JSON: 404, 405, 413, 400. *)
Refuse(c) ==
    /\ task[c] = "cleaning"
    /\ task' = [task EXCEPT ![c] = "refused"]
    /\ UNCHANGED <<attempt, pc, outcome, due, late, entry, sent, listener, call>>

ReceiverLives(a) == a = attempt /\ pc \in {"posting", "waiting", "removing"}

(* cleanup_expired: an expired entry goes, and its sender with it. *)
Cleanup(c) ==
    LET expired == entry \cap late \cap {call[c].via} IN
    /\ task[c] = "cleaning"
    /\ entry' = entry \ expired
    /\ sent' = [a \in Attempts |-> IF a \in expired THEN Dropped ELSE sent[a]]
    /\ task' = [task EXCEPT ![c] = "looking"]
    /\ UNCHANGED <<attempt, pc, outcome, due, late, listener, call>>

(* Mutant: the entry stays. *)
LookupKeepsMutant(c) ==
    /\ task[c] = "looking"
    /\ task' = [task EXCEPT ![c] =
                   IF call[c].challenge \in entry /\ call[c].challenge = call[c].via
                   THEN "sending" ELSE "400"]
    /\ UNCHANGED <<attempt, pc, outcome, due, late, entry, sent, listener, call>>

(* Mutant: a server completes its challenge, whatever the callback names. *)
LookupAnyMutant(c) ==
    /\ task[c] = "looking"
    /\ IF call[c].via \in entry
       THEN /\ entry' = entry \ {call[c].via}
            /\ task' = [task EXCEPT ![c] = "sending"]
       ELSE /\ task' = [task EXCEPT ![c] = "400"]
            /\ UNCHANGED entry
    /\ UNCHANGED <<attempt, pc, outcome, due, late, sent, listener, call>>

Lookup(c) ==
    /\ task[c] = "looking"
    /\ IF call[c].challenge \in entry /\ call[c].challenge = call[c].via
       THEN /\ entry' = entry \ {call[c].challenge}
            /\ task' = [task EXCEPT ![c] = "sending"]
       ELSE /\ task' = [task EXCEPT ![c] = "400"]
            /\ UNCHANGED entry
    /\ UNCHANGED <<attempt, pc, outcome, due, late, sent, listener, call>>

(* oneshot::Sender::send fails once the receiver is gone. *)
Deliver(c) ==
    /\ task[c] = "sending"
    /\ IF ReceiverLives(call[c].via)
       THEN /\ sent' = [sent EXCEPT ![call[c].via] = c]
            /\ task' = [task EXCEPT ![c] = "200"]
       ELSE /\ task' = [task EXCEPT ![c] = "400"]
            /\ UNCHANGED sent
    /\ UNCHANGED <<attempt, pc, outcome, due, late, entry, listener, call>>

-------------------------------------------------------------------------------
Solve ==
    \/ Bind \/ BindFails
    \/ Posted \/ \E result \in {"timeout", "unavailable", "rejected"} : PostFails(result)
    \/ Receive \/ Expire \/ RemoveEntry \/ Finish

Serve ==
    \/ ServerEnds
    \/ \E c \in Calls : Cleanup(c) \/ Lookup(c) \/ Deliver(c)

Next ==
    \/ Solve \/ Serve \/ HourPasses
    \/ Interrupt \/ NextAttempt
    \/ \E c \in Calls : \/ Refuse(c)
                        \/ \E a \in Attempts, v \in Verdicts : Accept(c, a, v)

Spec == Init /\ [][Next]_vars

(* Tasks are scheduled, timers fire, and a server that was told to stop or *)
(* aborted ends. Nobody else owes anything: no callback need ever come.    *)
FairSpec ==
    /\ Spec
    /\ WF_vars(Solve) /\ WF_vars(HourPasses)
    /\ WF_vars(pc \notin Solving \ {"closing"} /\ ServerEnds)

-------------------------------------------------------------------------------
(* The token of an attempt comes from a callback that named this attempt's *)
(* challenge, said "ok" and was answered 200: not from a late report on an *)
(* earlier attempt's challenge that meets the server of this one.          *)
TokenIsOwn ==
    \A a \in Attempts :
        outcome[a] = "ok" =>
            \E c \in Calls : /\ task[c] = "200"
                             /\ call[c].challenge = a /\ call[c].verdict = "ok"

(* Of all the reports on one challenge, however they interleave with each  *)
(* other and with the expiry, at most one is told that it was delivered.   *)
AnsweredOnce ==
    \A c, d \in Calls :
        c # d /\ task[c] = "200" /\ task[d] = "200"
            => call[c].challenge # call[d].challenge

(* The port is fixed and a port in use ends run() for good. A solve that   *)
(* returns gives its port back first, so that only an interrupted one can  *)
(* make the next attempt find it taken.                                    *)
PortIsFreed ==
    \A a \in Attempts :
        outcome[a] = "bindFailed" => \E b \in Attempts : b < a /\ outcome[b] = "interrupted"

(* A solve ends within its hour whatever the solver service, the callbacks *)
(* and the server do, so that an attempt cannot hang in a captcha.         *)
SolveEnds == \A a \in Attempts : attempt = a /\ pc \in Solving ~> outcome[a] # "none"

(* error.rs: CaptchaFailed means that the "Captcha solver reported failure *)
(* or an invalid callback". At expiry cleanup_expired may drop the waiter, *)
(* and solve then returns CaptchaFailed and not the timeout run() retries. *)
FailedMeansReported ==
    \A a \in Attempts :
        outcome[a] = "failed" =>
            \E c \in Calls : call[c].challenge = a /\ call[c].verdict = "failed"
===============================================================================
