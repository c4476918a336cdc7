---------------------------- MODULE AuthFlowProofs ----------------------------
(***************************************************************************)
(* Proofs about AuthFlow, for any number of tokens, attempts and restarts. *)
(***************************************************************************)
EXTENDS AuthFlow, TLAPS

USE DEF Tokens, NoToken, Never

\* A write of the token file belongs to a token with which a login succeeded.
WritesWorked == \A t \in Tokens : writes[t] \in {"queued", "truncated"} => t \in loggedIn

\* The configuration holds the token login() last returned, and an attempt that
\* logs in with a token it was not issued uses that one.
ConfigRemembers ==
    /\ lastLogin # NoToken => configToken = lastLogin
    /\ pc = "tokenLogin" => token = configToken

\* The next wait is all that was waited so far and a first delay more, or the cap.
DelayInv == delay >= Pause(slept)

\* From the beginning of an attempt, the SMS that lies behind it lies a pause behind.
BeforeSms == {"between", "tokenLogin", "askSms", "captchaLink", "solving", "askSmsCaptcha"}
SmsInv ==
    /\ smsAt <= slept
    /\ pc \in BeforeSms /\ smsAt # Never => slept >= smsAt + Pause(smsAt)

\* The inductive invariant.
IInv == TypeOK /\ SavedTokenWorked /\ WritesWorked /\ ConfigRemembers /\ DelayInv /\ SmsInv

\* The delay stays between its first value and its cap.
LEMMA BackOffKeepsType ==
    ASSUME TypeOK, NEW healthy \in BOOLEAN, BackOff(healthy)
    PROVE  delay' \in InitialDelay .. MaxDelay /\ slept' \in Nat /\ smsAt' \in Nat \cup {Never}
<1>1. DelayAfter(healthy) \in InitialDelay .. MaxDelay
  BY DelayAssumption DEF DelayAfter, TypeOK
<1> QED BY <1>1, DelayAssumption DEF BackOff, TypeOK

\* Every step keeps the types.
LEMMA StepKeepsType == ASSUME TypeOK, Next PROVE TypeOK'
<1> USE DEF TypeOK, Awaiting, Requesting, configVars, fileVars, serverVars, historyVars, boundVars,
            delayVars
<1>1. CASE Begin
  <2>1. attempts' \in 0 .. MaxAttempts BY <1>1, BoundsAssumption DEF Begin
  <2> QED BY <1>1, <2>1 DEF Begin, FirstStep, SmsStart
<1>2. CASE TokenAccepted BY <1>2 DEF TokenAccepted, LoginReturns, Remember
<1>3. CASE TokenRefused BY <1>3 DEF TokenRefused, SmsStart
<1>4. CASE SmsSent BY <1>4 DEF SmsSent
<1>5. CASE SmsWantsCaptcha BY <1>5 DEF SmsWantsCaptcha, Moves
<1>6. CASE CaptchaOffered BY <1>6 DEF CaptchaOffered, Moves
<1>7. CASE CaptchaSolved BY <1>7 DEF CaptchaSolved, Moves
<1>8. CASE CodeEntered BY <1>8 DEF CodeEntered, Moves
<1>9. CASE PasswordChallenge BY <1>9 DEF PasswordChallenge, Moves
<1>10. CASE TokenIssued
  <2>1. issued + 1 \in Tokens BY <1>10, BoundsAssumption DEF TokenIssued
  <2> QED BY <1>10, <2>1 DEF TokenIssued, AfterIssue
<1>11. CASE SmsLoginAccepted BY <1>11 DEF SmsLoginAccepted, StartWrite
<1>12. CASE Stored BY <1>12 DEF Stored, LoginReturns, Remember
<1>13. CASE FailsFatal BY <1>13 DEF FailsFatal
<1>14. CASE Interrupted
  <2>1. BackOff(FALSE) BY <1>14 DEF Interrupted
  <2> QED BY <1>14, <2>1, BackOffKeepsType DEF Interrupted
<1>15. CASE SessionLost
  <2>1. PICK healthy \in BOOLEAN : BackOff(healthy) BY <1>15 DEF SessionLost
  <2> QED BY <1>15, <2>1, BackOffKeepsType DEF SessionLost
<1>16. ASSUME NEW t \in Tokens, WriteOpens(t) PROVE TypeOK' BY <1>16 DEF WriteOpens
<1>17. ASSUME NEW t \in Tokens, WriteEnds(t) PROVE TypeOK' BY <1>17 DEF WriteEnds
<1>18. ASSUME NEW t \in Tokens, Revoke(t) PROVE TypeOK' BY <1>18 DEF Revoke
<1>19. CASE Restart
  <2>1. restarts' \in 0 .. MaxRestarts BY <1>19, BoundsAssumption DEF Restart
  <2> QED BY <1>19, <2>1, DelayAssumption DEF Restart
<1> QED
  BY <1>1, <1>2, <1>3, <1>4, <1>5, <1>6, <1>7, <1>8, <1>9, <1>10, <1>11, <1>12, <1>13, <1>14,
     <1>15, <1>16, <1>17, <1>18, <1>19
  DEF Next, Login, SmsFlow, Pool

\* The file, the writes under way, and the tokens that worked.
LEMMA StepKeepsFile ==
    ASSUME TypeOK, SavedTokenWorked, WritesWorked, Next
    PROVE  SavedTokenWorked' /\ WritesWorked'
<1> USE DEF TypeOK, SavedTokenWorked, WritesWorked, fileVars, serverVars
<1>1. CASE UNCHANGED fileVars /\ loggedIn \subseteq loggedIn'
  BY <1>1
<1>2. CASE Begin BY <1>1, <1>2 DEF Begin
<1>3. CASE TokenAccepted BY <1>1, <1>3 DEF TokenAccepted
<1>4. CASE TokenRefused BY <1>1, <1>4 DEF TokenRefused
<1>5. CASE SmsSent \/ SmsWantsCaptcha \/ CaptchaOffered \/ CaptchaSolved \/ CodeEntered \/ PasswordChallenge
  BY <1>1, <1>5
  DEF SmsSent, SmsWantsCaptcha, CaptchaOffered, CaptchaSolved, CodeEntered, PasswordChallenge, Moves
<1>6. CASE TokenIssued BY <1>1, <1>6 DEF TokenIssued, AfterIssue
<1>7. CASE SmsLoginAccepted
  <2>1. token \in Tokens /\ loggedIn' = loggedIn \cup {token} /\ file' = file
        /\ writes' = [writes EXCEPT ![token] = "queued"]
    BY <1>7 DEF SmsLoginAccepted, StartWrite
  <2> QED BY <2>1
<1>8. CASE Stored BY <1>1, <1>8 DEF Stored
<1>9. CASE FailsFatal BY <1>1, <1>9 DEF FailsFatal
<1>10. CASE Interrupted BY <1>1, <1>10 DEF Interrupted
<1>11. CASE SessionLost BY <1>1, <1>11 DEF SessionLost
<1>12. ASSUME NEW t \in Tokens, WriteOpens(t) PROVE SavedTokenWorked' /\ WritesWorked'
  BY <1>12 DEF WriteOpens
<1>13. ASSUME NEW t \in Tokens, WriteEnds(t) PROVE SavedTokenWorked' /\ WritesWorked'
  BY <1>13 DEF WriteEnds
<1>14. ASSUME NEW t \in Tokens, Revoke(t) PROVE SavedTokenWorked' /\ WritesWorked'
  BY <1>1, <1>14 DEF Revoke
<1>15. CASE Restart BY <1>15 DEF Restart
<1> QED
  BY <1>2, <1>3, <1>4, <1>5, <1>6, <1>7, <1>8, <1>9, <1>10, <1>11, <1>12, <1>13, <1>14, <1>15
  DEF Next, Login, SmsFlow, Pool

\* What the next attempt starts from.
LEMMA StepKeepsConfig == ASSUME TypeOK, ConfigRemembers, Next PROVE ConfigRemembers'
<1> USE DEF TypeOK, ConfigRemembers, configVars, historyVars
<1>1. CASE Begin BY <1>1 DEF Begin
<1>2. CASE TokenAccepted BY <1>2 DEF TokenAccepted, LoginReturns, Remember
<1>3. CASE TokenRefused BY <1>3 DEF TokenRefused, SmsStart
<1>4. CASE SmsSent \/ SmsWantsCaptcha \/ CaptchaOffered \/ CaptchaSolved \/ CodeEntered \/ PasswordChallenge
  BY <1>4
  DEF SmsSent, SmsWantsCaptcha, CaptchaOffered, CaptchaSolved, CodeEntered, PasswordChallenge, Moves
<1>5. CASE TokenIssued BY <1>5 DEF TokenIssued, AfterIssue
<1>6. CASE SmsLoginAccepted BY <1>6 DEF SmsLoginAccepted
<1>7. CASE Stored BY <1>7 DEF Stored, LoginReturns, Remember
<1>8. CASE FailsFatal \/ Interrupted \/ SessionLost
  BY <1>8 DEF FailsFatal, Interrupted, SessionLost
<1>9. CASE Pool BY <1>9 DEF Pool, WriteOpens, WriteEnds
<1>10. ASSUME NEW t \in Tokens, Revoke(t) PROVE ConfigRemembers' BY <1>10 DEF Revoke
<1>11. CASE Restart BY <1>11 DEF Restart
<1> QED
  BY <1>1, <1>2, <1>3, <1>4, <1>5, <1>6, <1>7, <1>8, <1>9, <1>10, <1>11 DEF Next, Login, SmsFlow

\* A wait keeps the delay ahead of what was waited, and is a pause after any SMS.
LEMMA BackOffKeepsSpace ==
    ASSUME TypeOK, DelayInv, SmsInv, NEW healthy \in BOOLEAN, BackOff(healthy)
    PROVE  /\ DelayInv'
           /\ smsAt' <= slept'
           /\ smsAt' # Never => slept' >= smsAt' + Pause(smsAt')
<1> USE DelayAssumption DEF TypeOK, DelayInv, SmsInv, BackOff, DelayAfter, Pause
<1>1. CASE healthy
  BY <1>1
<1>2. CASE ~healthy
  <2>1. slept' = slept + delay /\ smsAt' = smsAt
        /\ delay' = IF 2 * delay <= MaxDelay THEN 2 * delay ELSE MaxDelay
    BY <1>2
  <2>2. DelayInv'
    BY <2>1
  <2> QED BY <2>1, <2>2
<1> QED BY <1>1, <1>2

\* The waits between SMS.
LEMMA StepKeepsSpace == ASSUME TypeOK, DelayInv, SmsInv, Next PROVE DelayInv' /\ SmsInv'
<1>1. ASSUME NEW healthy \in BOOLEAN, BackOff(healthy) PROVE DelayInv' /\ SmsInv'
  BY <1>1, BackOffKeepsSpace DEF SmsInv
<1>2. ASSUME UNCHANGED delayVars, pc' \in BeforeSms => pc \in BeforeSms PROVE DelayInv' /\ SmsInv'
  BY <1>2 DEF delayVars, DelayInv, SmsInv, Pause
<1>3. CASE Begin BY <1>2, <1>3 DEF Begin, BeforeSms
<1>4. CASE TokenAccepted BY <1>2, <1>4 DEF TokenAccepted, LoginReturns, BeforeSms
<1>5. CASE TokenRefused BY <1>2, <1>5 DEF TokenRefused, BeforeSms
<1>6. CASE SmsSent
  BY <1>6 DEF SmsSent, TypeOK, DelayInv, SmsInv, BeforeSms, Pause
<1>7. CASE SmsWantsCaptcha \/ CaptchaOffered \/ CaptchaSolved \/ CodeEntered \/ PasswordChallenge
  BY <1>2, <1>7
  DEF SmsWantsCaptcha, CaptchaOffered, CaptchaSolved, CodeEntered, PasswordChallenge, Moves, BeforeSms
<1>8. CASE TokenIssued BY <1>2, <1>8 DEF TokenIssued, AfterIssue, BeforeSms
<1>9. CASE SmsLoginAccepted BY <1>2, <1>9 DEF SmsLoginAccepted, BeforeSms
<1>10. CASE Stored BY <1>2, <1>10 DEF Stored, LoginReturns, BeforeSms
<1>11. CASE FailsFatal BY <1>2, <1>11 DEF FailsFatal, BeforeSms
<1>12. CASE Interrupted BY <1>1, <1>12 DEF Interrupted
<1>13. CASE SessionLost BY <1>1, <1>13 DEF SessionLost
<1>14. CASE Pool BY <1>2, <1>14 DEF Pool, WriteOpens, WriteEnds
<1>15. ASSUME NEW t \in Tokens, Revoke(t) PROVE DelayInv' /\ SmsInv'
  BY <1>2, <1>15 DEF Revoke
<1>16. CASE Restart
  BY <1>16, DelayAssumption DEF Restart, DelayInv, SmsInv, Pause
<1> QED
  BY <1>3, <1>4, <1>5, <1>6, <1>7, <1>8, <1>9, <1>10, <1>11, <1>12, <1>13, <1>14, <1>15, <1>16
  DEF Next, Login, SmsFlow

\* Only Begin and a refusal ask for an SMS; Begin does so without a token.
LEMMA AskingIsJustified ==
    ASSUME TypeOK, ConfigRemembers, Next, pc # "askSms", pc' = "askSms", lastLogin # NoToken
    PROVE  token' = lastLogin /\ refused'
<1> USE DEF TypeOK, ConfigRemembers
<1>1. CASE Begin BY <1>1 DEF Begin, FirstStep, configVars
<1>2. CASE TokenRefused BY <1>2 DEF TokenRefused
<1>3. ~TokenAccepted /\ ~Stored BY DEF TokenAccepted, Stored, LoginReturns
<1>4. ~SmsSent /\ ~SmsWantsCaptcha /\ ~CaptchaOffered /\ ~CaptchaSolved /\ ~CodeEntered /\ ~PasswordChallenge
  BY DEF SmsSent, SmsWantsCaptcha, CaptchaOffered, CaptchaSolved, CodeEntered, PasswordChallenge, Moves
<1>5. ~TokenIssued /\ ~SmsLoginAccepted BY DEF TokenIssued, AfterIssue, SmsLoginAccepted
<1>6. ~FailsFatal /\ ~Interrupted /\ ~SessionLost /\ ~Restart
  BY DEF FailsFatal, Interrupted, SessionLost, Restart
<1>7. ~Pool /\ ~(\E t \in Tokens : Revoke(t)) BY DEF Pool, WriteOpens, WriteEnds, Revoke
<1> QED BY <1>1, <1>2, <1>3, <1>4, <1>5, <1>6, <1>7 DEF Next, Login, SmsFlow

\* The invariant of logging in: what is saved, being saved and configured worked.
THEOREM AuthInvariance == Spec => []IInv
<1>1. ASSUME Init PROVE IInv
  <2> USE <1>1 DEF Init
  <2>1. 1 \in Tokens /\ attempts \in 0 .. MaxAttempts /\ restarts \in 0 .. MaxRestarts
    BY BoundsAssumption
  <2>2. valid \in SUBSET Tokens /\ loggedIn \in SUBSET Tokens
    BY <2>1
  <2>3. file \in Tokens \cup {NoToken} /\ pc \in {"between", "unconfigured"}
    BY <2>1
  <2>4. delay \in InitialDelay .. MaxDelay /\ slept \in Nat /\ smsAt \in Nat \cup {Never}
    BY DelayAssumption
  <2>5. TypeOK
    BY <2>1, <2>2, <2>3, <2>4 DEF TypeOK
  <2>6. SavedTokenWorked /\ WritesWorked /\ ConfigRemembers
    BY DEF SavedTokenWorked, WritesWorked, ConfigRemembers
  <2>7. DelayInv /\ SmsInv
    BY DelayAssumption DEF DelayInv, SmsInv, Pause
  <2> QED BY <2>5, <2>6, <2>7 DEF IInv
<1>2. ASSUME IInv, UNCHANGED vars PROVE IInv'
  BY <1>2
  DEF vars, configVars, fileVars, serverVars, historyVars, boundVars, delayVars, IInv, TypeOK,
      SavedTokenWorked, WritesWorked, ConfigRemembers, DelayInv, SmsInv, Pause
<1>3. ASSUME IInv, Next PROVE IInv'
  BY <1>3, StepKeepsType, StepKeepsFile, StepKeepsConfig, StepKeepsSpace DEF IInv
<1>4. IInv /\ [Next]_vars => IInv'
  BY <1>2, <1>3
<1> QED BY <1>1, <1>4, PTL DEF Spec

\* The token file never names a token that no login succeeded with.
THEOREM SavedTokensWorked == Spec => []SavedTokenWorked
<1>1. IInv => SavedTokenWorked BY DEF IInv
<1> QED BY <1>1, AuthInvariance, PTL

\* After a login in this process, an SMS is only asked for when the server has just
\* refused the token of that login.
THEOREM LoginsAreRemembered == Spec => LoginIsRemembered
<1> DEFINE Asks == pc # "askSms" /\ pc' = "askSms" /\ lastLogin # NoToken =>
                      token' = lastLogin /\ refused'
<1>1. ASSUME IInv, [Next]_vars PROVE [Asks]_vars
  BY <1>1, AskingIsJustified DEF IInv
<1>2. Spec => [][Asks]_vars
  BY <1>1, AuthInvariance, PTL DEF Spec
<1> QED BY <1>2 DEF LoginIsRemembered

\* However attempts end, SMS are spaced: the pauses between them double up to the cap.
THEOREM SmsCodesAreSpaced == Spec => SmsAreSpaced
<1> DEFINE Spaced == pc # "operator" /\ pc' = "operator" /\ smsAt # Never =>
                        slept >= smsAt + Pause(smsAt)
<1>1. ASSUME TypeOK, SmsInv, Next, pc # "operator", pc' = "operator" PROVE pc \in BeforeSms
  <2>1. CASE SmsSent BY <2>1 DEF SmsSent, BeforeSms
  <2>2. CASE Begin \/ TokenAccepted \/ TokenRefused
    BY <1>1, <2>2 DEF Begin, FirstStep, SmsStart, TokenAccepted, TokenRefused, LoginReturns
  <2>3. CASE SmsWantsCaptcha \/ CaptchaOffered \/ CaptchaSolved \/ CodeEntered \/ PasswordChallenge
    BY <1>1, <2>3
    DEF SmsWantsCaptcha, CaptchaOffered, CaptchaSolved, CodeEntered, PasswordChallenge, Moves
  <2>4. CASE TokenIssued \/ SmsLoginAccepted \/ Stored
    BY <1>1, <2>4 DEF TokenIssued, AfterIssue, SmsLoginAccepted, Stored, LoginReturns
  <2>5. CASE FailsFatal \/ Interrupted \/ SessionLost \/ Restart
    BY <1>1, <2>5 DEF FailsFatal, Interrupted, SessionLost, Restart
  <2>6. CASE Pool \/ (\E t \in Tokens : Revoke(t))
    BY <1>1, <2>6 DEF Pool, WriteOpens, WriteEnds, Revoke
  <2> QED BY <1>1, <2>1, <2>2, <2>3, <2>4, <2>5, <2>6 DEF Next, Login, SmsFlow
<1>2. ASSUME IInv, [Next]_vars PROVE [Spaced]_vars
  BY <1>1, <1>2 DEF IInv, SmsInv
<1>3. Spec => [][Spaced]_vars
  BY <1>2, AuthInvariance, PTL DEF Spec
<1> QED BY <1>3 DEF SmsAreSpaced

\* Every variable keeps its type.
THEOREM AuthTypeCorrectness == Spec => []TypeOK
<1>1. IInv => TypeOK BY DEF IInv
<1> QED BY <1>1, AuthInvariance, PTL
=============================================================================
