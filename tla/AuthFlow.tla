------------------------------- MODULE AuthFlow -------------------------------
(***************************************************************************)
(* Logging in over the attempts of one run() and over restarts of the      *)
(* program: AuthFlow::login with the saved token or by SMS, captcha and    *)
(* password, the token file, what the next attempt starts from when the    *)
(* session is lost at an await, and how long run() waits before it.        *)
(*                                                                         *)
(* Tokens are numbered as the server issues them. The token file is        *)
(* written by a thread of tokio's blocking pool, which goes on when the    *)
(* future that waits for it is dropped. A write is opening, which empties  *)
(* the file, and writing at its beginning; tokens have one length, so that *)
(* the later of two overlapping writes leaves nothing of the other.        *)
(***************************************************************************)
EXTENDS Integers, FiniteSets

CONSTANTS
    MaxTokens,     \* bound: tokens the server issues, the first one before the start
    MaxAttempts,   \* bound: attempts of all runs; the last one is not lost
    MaxRestarts,   \* bound: crashes of the program
    InitialDelay,  \* of reconnecting
    MaxDelay       \* of reconnecting

Tokens  == 1 .. MaxTokens
NoToken == 0
Never   == -1

ASSUME BoundsAssumption ==
    /\ MaxTokens \in Nat \ {0}
    /\ MaxAttempts \in Nat \ {0}
    /\ MaxRestarts \in Nat
ASSUME DelayAssumption ==
    InitialDelay \in Nat \ {0} /\ MaxDelay \in Nat /\ InitialDelay <= MaxDelay

VARIABLES
    settings,      \* which of phone, operator, password and solver are configured
    configToken,   \* LoginConfig.session_token as run_loop holds it
    file,          \* what .max_session_token says
    writes,        \* store_session_token_file of each token, as the pool has it
    pc,            \* where the run is
    token,         \* the token this attempt logs in with or has been issued
    issued,        \* how many tokens the server has issued
    valid,         \* tokens the server still takes
    loggedIn,      \* tokens with which a LOGIN has succeeded
    lastLogin,     \* the token login() last returned in this process
    refused,       \* the server refused the token of this attempt
    attempts,
    restarts,
    delay,         \* Backoff::delay, what the next wait will be
    slept,         \* time waited since the last healthy session of this process
    smsAt          \* what slept was when the last SMS code was asked for since then, or Never

configVars  == <<settings, configToken>>
fileVars    == <<file, writes>>
serverVars  == <<issued, valid, loggedIn>>
historyVars == <<lastLogin, refused>>
boundVars   == <<attempts, restarts>>
delayVars   == <<delay, slept, smsAt>>
vars == <<configVars, fileVars, pc, token, serverVars, historyVars, boundVars, delayVars>>

\* Awaits of AuthFlow::login. A request to the server is awaited in the first group.
Requesting == {"tokenLogin", "askSms", "captchaLink", "askSmsCaptcha", "verify",
               "password", "smsLogin"}
Awaiting == Requesting \cup {"solving", "operator", "storing"}
Settings == [phone : BOOLEAN, operator : BOOLEAN, password : BOOLEAN, solver : BOOLEAN]

TypeOK ==
    /\ settings \in Settings
    /\ configToken \in Tokens \cup {NoToken}
    /\ file \in Tokens \cup {NoToken}
    /\ writes \in [Tokens -> {"none", "queued", "truncated", "done", "failed"}]
    /\ pc \in {"between", "online", "fatal", "unconfigured"} \cup Awaiting
    /\ token \in Tokens \cup {NoToken}
    /\ issued \in Tokens
    /\ valid \in SUBSET Tokens
    /\ loggedIn \in SUBSET Tokens
    /\ lastLogin \in Tokens \cup {NoToken}
    /\ refused \in BOOLEAN
    /\ attempts \in 0 .. MaxAttempts
    /\ restarts \in 0 .. MaxRestarts
    /\ delay \in InitialDelay .. MaxDelay
    /\ slept \in Nat
    /\ smsAt \in Nat \cup {Never}
    /\ pc \in {"tokenLogin", "smsLogin", "storing", "online"} => token # NoToken

\* LoginConfig::validate
IsConfigured(t) == t # NoToken \/ (settings.phone /\ settings.operator)

\* The program starts with the token of an earlier login, still valid or not, or
\* with none.
Init ==
    /\ settings \in Settings
    /\ file \in {NoToken, 1}
    /\ configToken = file
    /\ writes = [t \in Tokens |-> "none"]
    /\ pc = IF IsConfigured(file) THEN "between" ELSE "unconfigured"
    /\ token = NoToken
    /\ issued = 1
    /\ valid \in SUBSET {1}
    /\ loggedIn = {1}
    /\ lastLogin = NoToken
    /\ refused = FALSE
    /\ attempts = 0
    /\ restarts = 0
    /\ delay = InitialDelay /\ slept = 0 /\ smsAt = Never

-----------------------------------------------------------------------------
(* Helpers. A definition named ...Mutant is a plausible slip in the one     *)
(* after it; no action uses it.                                             *)

\* The SMS flow starts without a captcha, if there is a phone to name.
SmsStart == IF settings.phone THEN "askSms" ELSE "fatal"

\* login() tries a token only if there is one.
FirstStep == IF configToken # NoToken THEN "tokenLogin" ELSE SmsStart

\* run_attempt keeps the token login() returned for the next attempt.
RememberMutant == UNCHANGED configToken
Remember == configToken' = token

\* login_with_auth_payload logs in before it stores the token.
AfterIssueMutant == "storing"
AfterIssue == "smsLogin"

\* login() returns its token: the attempt goes online.
LoginReturns ==
    /\ pc' = "online"
    /\ lastLogin' = token
    /\ Remember
    /\ UNCHANGED <<settings, token, refused>>

StartWrite(t) == writes' = [writes EXCEPT ![t] = "queued"]

\* A token file that cannot be written is a warning.
WriteIsOverMutant(t) == writes[t] = "done"
WriteIsOver(t) == writes[t] \in {"done", "failed"}

\* Backoff::reset_if_healthy: the mutant resets after any session.
DelayAfterMutant(healthy) == InitialDelay
DelayAfter(healthy) == IF healthy THEN InitialDelay ELSE delay

\* The end of an attempt in run_loop: the delay doubles up to its cap. A healthy
\* session, one that was online for a minute, begins the history anew.
BackOff(healthy) ==
    LET now == DelayAfter(healthy) IN
    /\ delay' = IF 2 * now <= MaxDelay THEN 2 * now ELSE MaxDelay
    /\ slept' = (IF healthy THEN 0 ELSE slept) + now
    /\ smsAt' = IF healthy THEN Never ELSE smsAt

\* The bound: the environment does not fail the last attempt.
MayFail == attempts < MaxAttempts

-----------------------------------------------------------------------------
(* The attempts.                                                           *)

\* login() up to its first request.
Begin ==
    /\ pc = "between"
    /\ attempts < MaxAttempts
    /\ attempts' = attempts + 1
    /\ refused' = FALSE
    /\ token' = configToken
    /\ pc' = FirstStep
    /\ UNCHANGED <<configVars, fileVars, serverVars, lastLogin, restarts, delayVars>>

\* LOGIN with the configured token is accepted.
TokenAccepted ==
    /\ pc = "tokenLogin"
    /\ token \in valid
    /\ loggedIn' = loggedIn \cup {token}
    /\ LoginReturns
    /\ UNCHANGED <<fileVars, issued, valid, boundVars, delayVars>>

\* Any error frame in answer to that LOGIN falls back to SMS.
TokenRefused ==
    /\ pc = "tokenLogin"
    /\ refused' = TRUE
    /\ pc' = SmsStart
    /\ UNCHANGED <<configVars, fileVars, token, serverVars, lastLogin, boundVars, delayVars>>

\* AUTH_REQUEST, with or without a captcha token, is accepted.
SmsSent ==
    /\ pc \in {"askSms", "askSmsCaptcha"}
    /\ pc' = "operator"
    /\ smsAt' = slept
    /\ UNCHANGED <<configVars, fileVars, token, serverVars, historyVars, boundVars, delay, slept>>

\* A step of the SMS flow that only moves on.
Moves(from, to) ==
    /\ pc = from
    /\ pc' = to
    /\ UNCHANGED <<configVars, fileVars, token, serverVars, historyVars, boundVars, delayVars>>

SmsWantsCaptcha   == Moves("askSms", "captchaLink")
CaptchaOffered    == settings.solver /\ Moves("captchaLink", "solving")
CaptchaSolved     == Moves("solving", "askSmsCaptcha")
CodeEntered       == settings.operator /\ Moves("operator", "verify")
PasswordChallenge == settings.password /\ Moves("verify", "password")

\* AUTH, or AUTH_PASSWORD, is answered with a session token.
TokenIssued ==
    /\ pc \in {"verify", "password"}
    /\ issued < MaxTokens
    /\ issued' = issued + 1
    /\ valid' = valid \cup {issued + 1}
    /\ token' = issued + 1
    /\ pc' = AfterIssue
    /\ IF AfterIssue = "storing" THEN StartWrite(issued + 1) ELSE UNCHANGED writes
    /\ UNCHANGED <<configVars, file, loggedIn, historyVars, boundVars, delayVars>>

\* LOGIN with the new token is accepted; the write of the file starts.
SmsLoginAccepted ==
    /\ pc = "smsLogin"
    /\ token \in valid
    /\ loggedIn' = loggedIn \cup {token}
    /\ StartWrite(token)
    /\ pc' = "storing"
    /\ UNCHANGED <<configVars, file, token, issued, valid, historyVars, boundVars, delayVars>>

\* The write has ended, well or not.
Stored ==
    /\ pc = "storing"
    /\ WriteIsOver(token)
    /\ LoginReturns
    /\ UNCHANGED <<fileVars, serverVars, boundVars, delayVars>>

\* The attempt fails in a way that run() returns: a refusal in the SMS flow, an
\* answer without what it must contain, or a part that is not configured.
FailsFatal ==
    /\ pc \in Awaiting \ {"storing"}
    /\ pc' = "fatal"
    /\ UNCHANGED <<configVars, fileVars, token, serverVars, historyVars, boundVars, delayVars>>

\* The connection is cancelled or a request fails in the transport; or the
\* solver, the operator's channel or the callback server fails for now.
Interrupted ==
    /\ pc \in Awaiting
    /\ MayFail
    /\ pc' = "between"
    /\ BackOff(FALSE)
    /\ UNCHANGED <<configVars, fileVars, token, serverVars, historyVars, boundVars>>

SessionLost ==
    /\ pc = "online"
    /\ MayFail
    /\ pc' = "between"
    /\ \E healthy \in BOOLEAN : BackOff(healthy)
    /\ UNCHANGED <<configVars, fileVars, token, serverVars, historyVars, boundVars>>

-----------------------------------------------------------------------------
(* The token file, the server, and the process.                            *)

\* fs::write opens the file, which empties it, and then writes the token.
WriteOpens(t) ==
    /\ writes[t] = "queued"
    /\ \/ writes' = [writes EXCEPT ![t] = "truncated"] /\ file' = NoToken
       \/ writes' = [writes EXCEPT ![t] = "failed"] /\ UNCHANGED file
    /\ UNCHANGED <<configVars, pc, token, serverVars, historyVars, boundVars, delayVars>>

WriteEnds(t) ==
    /\ writes[t] = "truncated"
    /\ \/ writes' = [writes EXCEPT ![t] = "done"] /\ file' = t
       \/ writes' = [writes EXCEPT ![t] = "failed"] /\ UNCHANGED file
    /\ UNCHANGED <<configVars, pc, token, serverVars, historyVars, boundVars, delayVars>>

\* The account's owner ends a session elsewhere.
Revoke(t) ==
    /\ t \in valid
    /\ valid' = valid \ {t}
    /\ UNCHANGED <<configVars, fileVars, pc, token, issued, loggedIn, historyVars, boundVars, delayVars>>

\* The program dies, with the writes under way, and is started again from its
\* environment and the file.
Restart ==
    /\ restarts < MaxRestarts
    /\ restarts' = restarts + 1
    /\ configToken' = file
    /\ writes' = [t \in Tokens |-> "none"]
    /\ pc' = IF IsConfigured(file) THEN "between" ELSE "unconfigured"
    /\ lastLogin' = NoToken
    /\ delay' = InitialDelay /\ slept' = 0 /\ smsAt' = Never
    /\ UNCHANGED <<settings, file, token, serverVars, refused, attempts>>

-----------------------------------------------------------------------------
SmsFlow ==
    \/ SmsSent \/ SmsWantsCaptcha \/ CaptchaOffered \/ CaptchaSolved \/ CodeEntered
    \/ PasswordChallenge \/ TokenIssued \/ SmsLoginAccepted \/ Stored

Login == TokenAccepted \/ TokenRefused \/ SmsFlow \/ FailsFatal \/ Interrupted
Pool  == \E t \in Tokens : WriteOpens(t) \/ WriteEnds(t)

Next ==
    \/ Begin \/ Login \/ SessionLost
    \/ Pool \/ (\E t \in Tokens : Revoke(t)) \/ Restart

Spec == Init /\ [][Next]_vars

\* Requests and the captcha have timeouts, whose error is in Login, and the pool runs
\* its tasks. Neither reading the command line nor a poll of Telegram ends by itself.
FairSpec ==
    Spec /\ WF_vars(Begin) /\ WF_vars(pc # "operator" /\ Login) /\ WF_vars(Pool)

-----------------------------------------------------------------------------
(* Properties.                                                             *)

\* The token file never names a token with which no login has succeeded, also
\* while attempts are lost, writes overlap and the program dies.
SavedTokenWorked == file # NoToken => file \in loggedIn

\* Once login() has returned a token in this process, no later attempt asks for an
\* SMS before the server has refused that token to that same attempt.
LoginIsRemembered ==
    [][pc # "askSms" /\ pc' = "askSms" /\ lastLogin # NoToken =>
          token' = lastLogin /\ refused']_vars

\* However attempts end, short of a healthy session or a restart, between two SMS run()
\* waits as long again as it had waited before the first of them, and a first delay, or
\* else the longest delay: a session that comes and goes at once does not have the
\* owner's phone flooded.
Pause(waited) == IF waited + InitialDelay <= MaxDelay THEN waited + InitialDelay ELSE MaxDelay
SmsAreSpaced ==
    [][pc # "operator" /\ pc' = "operator" /\ smsAt # Never
         => slept >= smsAt + Pause(smsAt)]_vars

\* An attempt leaves login(): online, failed for good, or to be tried again. It may
\* only wait for the operator for ever.
LoginEnds == []<>(pc # "operator") => (pc \in Awaiting ~> pc \notin Awaiting)

\* docs/PROTOCOL.md:121: "The client reconnects and repeats SESSION_INIT + LOGIN
\* with its saved token." An attempt that follows a lost session begins with LOGIN
\* and the token that was saved.
ReconnectUsesSavedToken ==
    [][pc = "between" /\ pc' \notin {"between", "unconfigured"} /\ attempts > 0 /\ restarts = 0
        /\ file # NoToken
        => pc' = "tokenLogin" /\ token' = file]_vars
=============================================================================
