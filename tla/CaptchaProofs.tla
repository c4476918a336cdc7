----------------------------- MODULE CaptchaProofs -----------------------------
(***************************************************************************)
(* What holds of Captcha for any number of attempts and callbacks. A       *)
(* challenge has one token, which is its entry, then the call that is      *)
(* delivering to it, then what its oneshot was given: that gives the       *)
(* verdict to one call. The port belongs to the solve under way or to an   *)
(* interrupted one.                                                        *)
(***************************************************************************)
EXTENDS Captcha, TLAPS

\* The attempt has created its challenge.
Begun(a) == a < attempt \/ (a = attempt /\ pc # "start")

\* Nothing refers to an attempt before it has begun, nor to a call before it came.
BegunInv ==
    /\ \A a \in entry : Begun(a)
    /\ \A a \in Attempts : sent[a] # Nobody => Begun(a)
    /\ listener # Nobody => Begun(listener)
    /\ \A c \in Calls : task[c] # "unsent" => call[c].via \in Attempts /\ Begun(call[c].via)

\* Where the token of a challenge is.
TokenInv ==
    /\ \A a \in entry : sent[a] = Nobody
    /\ \A c \in Calls :
          task[c] = "sending" => /\ call[c].challenge = call[c].via
                                 /\ call[c].via \notin entry
                                 /\ sent[call[c].via] = Nobody
    /\ \A c, d \in Calls :
          task[c] = "sending" /\ task[d] = "sending" /\ call[c].via = call[d].via => c = d
    /\ \A c \in Calls :
          task[c] = "200" => call[c].challenge = call[c].via /\ sent[call[c].via] = c
    /\ \A a \in Attempts :
          sent[a] \in Calls => task[sent[a]] = "200" /\ call[sent[a]].challenge = a

\* What a solve is going to return, and has returned.
OutcomeInv ==
    /\ pc \in {"removing", "expiring"} => due \in {"timeout", "unavailable", "rejected"}
    /\ pc = "closing" => due # "bindFailed"
    /\ pc = "closing" /\ due = "ok" => sent[attempt] \in Calls /\ call[sent[attempt]].verdict = "ok"
    /\ \A a \in Attempts : a > attempt \/ (a = attempt /\ pc # "done") => outcome[a] = "none"
    /\ TokenIsOwn

PortInv ==
    /\ listener # Nobody => \/ listener = attempt /\ pc \in Solving
                            \/ outcome[listener] = "interrupted"
    /\ PortIsFreed

IInv == TypeOK /\ BegunInv /\ TokenInv /\ OutcomeInv /\ PortInv

\* Nobody and Dropped are not calls.
LEMMA Names == Nobody \notin Attempts /\ Nobody \notin Calls /\ Dropped \notin Calls /\ Dropped # Nobody
BY BoundsAssumption DEF Nobody, Dropped, Attempts, Calls

LEMMA InitIInv == ASSUME Init PROVE IInv
<1> USE DEF Init
<1>1. TypeOK
  BY BoundsAssumption DEF TypeOK, Attempts, Calls, Call, Nobody, Outcomes, Answers, Verdicts, Solving
<1>2. BegunInv
  BY DEF BegunInv
<1>3. TokenInv
  BY Names DEF TokenInv
<1>4. OutcomeInv
  BY DEF OutcomeInv, TokenIsOwn
<1>5. PortInv
  BY DEF PortInv, PortIsFreed
<1> QED BY <1>1, <1>2, <1>3, <1>4, <1>5 DEF IInv

LEMMA TypeStep == ASSUME TypeOK, [Next]_vars PROVE TypeOK'
<1> USE DEF TypeOK
<1>1. CASE Bind \/ BindFails
  BY <1>1 DEF Bind, BindFails, Return, Solving, Outcomes, Fatal
<1>2. CASE Posted \/ Expire \/ RemoveEntry
  BY <1>2 DEF Posted, Expire, RemoveEntry, Solving, Outcomes
<1>3. ASSUME NEW result \in {"timeout", "unavailable", "rejected"}, PostFails(result) PROVE TypeOK'
  BY <1>3 DEF PostFails, Solving, Outcomes, Fatal
<1>4. CASE Receive
  <2>1. sent[attempt] # Nobody /\ sent[attempt] # Dropped => call[sent[attempt]].verdict \in Verdicts
    BY DEF Call
  <2>2. due' \in Outcomes
    BY <1>4, <2>1 DEF Receive, Outcomes, Fatal, Verdicts
  <2> QED BY <1>4, <2>2 DEF Receive, Solving
<1>5. CASE Finish \/ Interrupt
  BY <1>5 DEF Finish, Interrupt, Return, Outcomes
<1>6. CASE NextAttempt
  BY <1>6, BoundsAssumption DEF NextAttempt, Attempts
<1>7. CASE HourPasses \/ ServerEnds
  BY <1>7 DEF HourPasses, ServerEnds
<1>8. ASSUME NEW c \in Calls, NEW a \in Attempts, NEW v \in Verdicts, Accept(c, a, v) PROVE TypeOK'
  <2>1. [challenge |-> a, verdict |-> v, via |-> listener] \in Call
    BY DEF Call
  <2> QED BY <1>8, <2>1 DEF Accept
<1>9. ASSUME NEW c \in Calls, Refuse(c) \/ Cleanup(c) PROVE TypeOK'
  BY <1>9 DEF Refuse, Cleanup, Answers
<1>10. ASSUME NEW c \in Calls, Lookup(c) PROVE TypeOK'
  BY <1>10 DEF Lookup, Answers
<1>11. ASSUME NEW c \in Calls, Deliver(c) PROVE TypeOK'
  BY <1>11 DEF Deliver, Answers
<1>12. CASE UNCHANGED vars
  BY <1>12 DEF vars
<1> QED BY <1>1, <1>2, <1>3, <1>4, <1>5, <1>6, <1>7, <1>8, <1>9, <1>10, <1>11, <1>12
        DEF Next, Solve, Serve

LEMMA BegunStep == ASSUME TypeOK, BegunInv, [Next]_vars PROVE BegunInv'
<1> USE DEF TypeOK, BegunInv, Begun
<1>1. CASE Bind \/ BindFails
  BY <1>1 DEF Bind, BindFails, Return
<1>2. CASE Posted \/ Expire \/ RemoveEntry \/ Receive
  BY <1>2 DEF Posted, Expire, RemoveEntry, Receive
<1>3. ASSUME NEW result, PostFails(result) PROVE BegunInv'
  BY <1>3 DEF PostFails
<1>5. CASE Finish \/ Interrupt
  BY <1>5 DEF Finish, Interrupt, Return
<1>6. CASE NextAttempt
  BY <1>6 DEF NextAttempt, Attempts
<1>7. CASE HourPasses \/ ServerEnds
  BY <1>7 DEF HourPasses, ServerEnds
<1>8. ASSUME NEW c \in Calls, NEW a \in Attempts, NEW v \in Verdicts, Accept(c, a, v) PROVE BegunInv'
  BY <1>8 DEF Accept, Call
<1>9. ASSUME NEW c \in Calls, Refuse(c) \/ Cleanup(c) PROVE BegunInv'
  BY <1>9, Names DEF Refuse, Cleanup
<1>10. ASSUME NEW c \in Calls, Lookup(c) PROVE BegunInv'
  BY <1>10 DEF Lookup
<1>11. ASSUME NEW c \in Calls, Deliver(c) PROVE BegunInv'
  BY <1>11 DEF Deliver
<1>12. CASE UNCHANGED vars
  BY <1>12 DEF vars
<1> QED BY <1>1, <1>2, <1>3, <1>5, <1>6, <1>7, <1>8, <1>9, <1>10, <1>11, <1>12
        DEF Next, Solve, Serve

\* An attempt that has not begun was given nothing and is nobody's.
LEMMA Fresh ==
    ASSUME TypeOK, BegunInv, pc = "start"
    PROVE  /\ attempt \notin entry /\ sent[attempt] = Nobody /\ listener # attempt
           /\ \A c \in Calls : task[c] # "unsent" => call[c].via # attempt
BY DEF TypeOK, BegunInv, Begun, Attempts, Nobody

LEMMA TokenStep == ASSUME TypeOK, BegunInv, TokenInv, [Next]_vars PROVE TokenInv'
<1> USE DEF TokenInv
<1>1. CASE Bind
  BY <1>1, Fresh DEF Bind
<1>2. CASE BindFails \/ Finish \/ Interrupt \/ Posted \/ Expire \/ Receive
           \/ NextAttempt \/ HourPasses \/ ServerEnds \/ UNCHANGED vars
  <2>1. UNCHANGED <<entry, sent, task, call>>
    BY <1>2 DEF BindFails, Finish, Interrupt, Posted, Expire, Receive, NextAttempt, HourPasses,
                ServerEnds, vars
  <2> QED BY <2>1
<1>3. ASSUME NEW result, PostFails(result) PROVE TokenInv'
  BY <1>3 DEF PostFails
<1>4. CASE RemoveEntry
  BY <1>4 DEF RemoveEntry
<1>5. ASSUME NEW c \in Calls, NEW a \in Attempts, NEW v \in Verdicts, Accept(c, a, v) PROVE TokenInv'
  <2>1. /\ task[c] = "unsent" /\ task'[c] = "cleaning"
        /\ \A d \in Calls \ {c} : task'[d] = task[d] /\ call'[d] = call[d]
        /\ UNCHANGED <<entry, sent>>
    BY <1>5 DEF Accept, TypeOK
  <2> QED BY <2>1
<1>6. ASSUME NEW c \in Calls, Refuse(c) PROVE TokenInv'
  <2>1. /\ task[c] = "cleaning" /\ task'[c] = "refused"
        /\ \A d \in Calls \ {c} : task'[d] = task[d]
        /\ UNCHANGED <<entry, sent, call>>
    BY <1>6 DEF Refuse, TypeOK
  <2> QED BY <2>1
<1>7. ASSUME NEW c \in Calls, Cleanup(c) PROVE TokenInv'
  <2>1. \E expired \in SUBSET entry :
           /\ entry' = entry \ expired
           /\ sent' = [a \in Attempts |-> IF a \in expired THEN Dropped ELSE sent[a]]
    BY <1>7 DEF Cleanup
  <2>2. /\ task[c] = "cleaning" /\ task'[c] = "looking" /\ call' = call
        /\ \A d \in Calls \ {c} : task'[d] = task[d]
    BY <1>7 DEF Cleanup, TypeOK
  <2>3. \A a \in entry : sent[a] = Nobody
    OBVIOUS
  <2>4. \A a \in Attempts : /\ a \notin entry => sent'[a] = sent[a]
                            /\ a \in entry' => sent'[a] = Nobody
                            /\ sent'[a] \in Calls => sent'[a] = sent[a] /\ a \notin entry
    BY <2>1, <2>3, Names
  <2>5. \A d \in Calls : task'[d] \in {"sending", "200"} => task[d] = task'[d]
    BY <2>2
  <2>6. \A d \in Calls : task[d] \in {"sending", "200"} => /\ call[d].via \in Attempts
                                                          /\ call[d].via \notin entry
    <3>1. \A d \in Calls : task[d] \in {"sending", "200"} => call[d].via \in Attempts
      BY DEF BegunInv
    <3> QED BY <3>1, Names DEF TypeOK
  <2>7. \A d \in Calls : task[d] \in {"sending", "200"} => task'[d] = task[d]
    BY <2>2
  <2>8. entry' \subseteq entry /\ entry \subseteq Attempts
    BY <2>1 DEF TypeOK
  <2> QED BY <2>2, <2>4, <2>5, <2>6, <2>7, <2>8
<1>8. ASSUME NEW c \in Calls, Lookup(c) PROVE TokenInv'
  <2>1. /\ task[c] = "looking" /\ UNCHANGED <<sent, call>> /\ entry' \subseteq entry
        /\ \A d \in Calls \ {c} : task'[d] = task[d]
        /\ \/ task'[c] = "sending" /\ call[c].challenge = call[c].via
              /\ call[c].via \in entry /\ call[c].via \notin entry'
           \/ task'[c] = "400"
    BY <1>8 DEF Lookup, TypeOK
  <2> QED BY <2>1 DEF TypeOK
<1>9. ASSUME NEW c \in Calls, Deliver(c) PROVE TokenInv'
  <2> DEFINE a == call[c].via
  <2>1. /\ task[c] = "sending" /\ UNCHANGED <<entry, call>> /\ a \in Attempts
        /\ \A d \in Calls \ {c} : task'[d] = task[d]
        /\ call[c].challenge = a /\ a \notin entry /\ sent[a] = Nobody
    BY <1>9 DEF Deliver, TypeOK, BegunInv
  <2>2. \/ task'[c] = "200" /\ sent' = [sent EXCEPT ![a] = c]
        \/ task'[c] = "400" /\ sent' = sent
    BY <1>9 DEF Deliver, TypeOK
  <2> HIDE DEF a
  <2>3. CASE task'[c] = "400" /\ sent' = sent
    BY <2>1, <2>3
  <2>4. CASE task'[c] = "200" /\ sent' = [sent EXCEPT ![a] = c]
    <3>1. sent'[a] = c /\ \A b \in Attempts \ {a} : sent'[b] = sent[b]
      BY <2>1, <2>4 DEF TypeOK
    <3>2. \A b \in entry' : sent'[b] = Nobody
      BY <2>1, <3>1 DEF TypeOK
    <3>3. \A d \in Calls \ {c} : task[d] = "sending" => call[d].via # a /\ call[d].via \in Attempts
      BY <2>1 DEF a, BegunInv
    <3>4. \A d \in Calls \ {c} : task[d] = "200" => call[d].via # a /\ call[d].via \in Attempts
      BY <2>1, Names DEF BegunInv
    <3>5. \A d \in Calls : task'[d] = "sending" => d # c
      BY <2>4
    <3> QED BY <2>1, <2>4, <3>1, <3>2, <3>3, <3>4, <3>5 DEF a
  <2> QED BY <2>2, <2>3, <2>4
<1> QED BY <1>1, <1>2, <1>3, <1>4, <1>5, <1>6, <1>7, <1>8, <1>9 DEF Next, Solve, Serve

\* Once told, a oneshot and the verdict it was told stay as they are.
LEMMA VerdictStays ==
    ASSUME TypeOK, TokenInv, [Next]_vars, NEW a \in Attempts, sent[a] \in Calls
    PROVE  sent'[a] = sent[a] /\ call'[sent[a]] = call[sent[a]] /\ task'[sent[a]] = task[sent[a]]
<1>0. task[sent[a]] = "200" /\ sent[a] # Nobody /\ a \notin entry
  BY Names DEF TokenInv
<1>1. ASSUME NEW c \in Calls, NEW b \in Attempts, NEW v \in Verdicts, Accept(c, b, v)
      PROVE  /\ sent' = sent
             /\ \A d \in Calls : task[d] = "200" => call'[d] = call[d] /\ task'[d] = task[d]
  BY <1>1 DEF Accept, TypeOK
<1>2. ASSUME NEW c \in Calls, Refuse(c) \/ Cleanup(c) \/ Lookup(c) \/ Deliver(c)
      PROVE  call' = call /\ \A d \in Calls : task[d] = "200" => task'[d] = task[d]
  BY <1>2 DEF Refuse, Cleanup, Lookup, Deliver, TypeOK
<1>3. ASSUME NEW c \in Calls, Refuse(c) \/ Cleanup(c) \/ Lookup(c) PROVE sent'[a] = sent[a]
  BY <1>0, <1>3 DEF Refuse, Cleanup, Lookup, TypeOK
<1>4. ASSUME NEW c \in Calls, Deliver(c) PROVE sent'[a] = sent[a]
  <2>1. task[c] = "sending" /\ sent[call[c].via] = Nobody
    BY <1>4 DEF Deliver, TokenInv
  <2> QED BY <1>0, <1>4, <2>1 DEF Deliver, TypeOK
<1>5. ASSUME Solve \/ ServerEnds \/ HourPasses \/ Interrupt \/ NextAttempt \/ UNCHANGED vars
      PROVE  UNCHANGED <<sent, call, task>>
  BY <1>5 DEF Solve, Bind, BindFails, Posted, PostFails, Receive, Expire, RemoveEntry, Finish,
              ServerEnds, HourPasses, Interrupt, NextAttempt, vars
<1> QED BY <1>0, <1>1, <1>2, <1>3, <1>4, <1>5 DEF Next, Serve

LEMMA OutcomeStep == ASSUME TypeOK, TokenInv, OutcomeInv, [Next]_vars PROVE OutcomeInv'
<1> USE DEF OutcomeInv
<1>1. \A a \in Attempts : sent[a] \in Calls =>
         sent'[a] = sent[a] /\ call'[sent[a]] = call[sent[a]] /\ task'[sent[a]] = task[sent[a]]
  BY VerdictStays
<1>2. ASSUME NEW a \in Attempts, sent[a] \in Calls, call[sent[a]].verdict = "ok"
      PROVE  \E c \in Calls : task'[c] = "200" /\ call'[c].challenge = a /\ call'[c].verdict = "ok"
  BY <1>1, <1>2 DEF TokenInv
<1>3. ASSUME NEW a \in Attempts, outcome[a] = "ok"
      PROVE  \E c \in Calls : task'[c] = "200" /\ call'[c].challenge = a /\ call'[c].verdict = "ok"
  <2>1. PICK c \in Calls : task[c] = "200" /\ call[c].challenge = a /\ call[c].verdict = "ok"
    BY <1>3 DEF TokenIsOwn
  <2>2. sent[a] = c
    BY <2>1 DEF TokenInv
  <2> QED BY <1>2, <2>1, <2>2
<1>4. ASSUME UNCHANGED <<attempt, pc, outcome, due>> PROVE OutcomeInv'
  BY <1>1, <1>3, <1>4 DEF TokenIsOwn, TypeOK
<1>5. ASSUME UNCHANGED <<outcome, attempt>>, pc \notin {"done"}, pc' # "done",
             pc' = "closing" /\ due' = "ok" => sent[attempt] \in Calls /\ call[sent[attempt]].verdict = "ok",
             pc' = "closing" => due' # "bindFailed",
             pc' \in {"removing", "expiring"} => due' \in {"timeout", "unavailable", "rejected"}
      PROVE  OutcomeInv'
  BY <1>1, <1>3, <1>5 DEF TokenIsOwn, TypeOK
<1>6. CASE Bind \/ Posted \/ Expire \/ RemoveEntry
  <2>1. UNCHANGED <<outcome, attempt>> /\ pc # "done" /\ pc' # "done"
    BY <1>6 DEF Bind, Posted, Expire, RemoveEntry
  <2>2. pc' = "closing" => due' \in {"timeout", "unavailable", "rejected"}
    BY <1>6 DEF Bind, Posted, Expire, RemoveEntry
  <2>3. pc' \in {"removing", "expiring"} => due' \in {"timeout", "unavailable", "rejected"}
    BY <1>6 DEF Bind, Posted, Expire, RemoveEntry
  <2> QED BY <1>5, <2>1, <2>2, <2>3
<1>7. ASSUME NEW result \in {"timeout", "unavailable", "rejected"}, PostFails(result) PROVE OutcomeInv'
  BY <1>5, <1>7 DEF PostFails
<1>8. CASE Receive
  <2>1. sent[attempt] \in Calls \cup {Dropped}
    BY <1>8 DEF Receive, TypeOK
  <2>2. due' = "ok" => sent[attempt] \in Calls /\ call[sent[attempt]].verdict = "ok"
    BY <1>8, <2>1 DEF Receive
  <2>3. due' # "bindFailed"
    BY <1>8, <2>1 DEF Receive, TypeOK, Call, Verdicts
  <2> QED BY <1>5, <1>8, <2>2, <2>3 DEF Receive
<1>9. ASSUME NEW r, Return(r), attempt' = attempt, pc # "done",
             r = "ok" => sent[attempt] \in Calls /\ call[sent[attempt]].verdict = "ok"
      PROVE  OutcomeInv'
  <2>1. /\ pc' = "done" /\ outcome'[attempt] = r
        /\ \A a \in Attempts : a # attempt => outcome'[a] = outcome[a]
    BY <1>9 DEF Return, TypeOK
  <2>2. TokenIsOwn'
    BY <1>2, <1>3, <1>9, <2>1 DEF TokenIsOwn, TypeOK
  <2>3. \A a \in Attempts : a > attempt' => outcome'[a] = "none"
    BY <1>9, <2>1 DEF TypeOK, Attempts
  <2> QED BY <1>9, <2>1, <2>2, <2>3
<1>10. CASE BindFails
  BY <1>9, <1>10 DEF BindFails
<1>11. CASE Finish
  BY <1>9, <1>11 DEF Finish
<1>12. CASE Interrupt
  BY <1>9, <1>12 DEF Interrupt, Solving
<1>13. CASE NextAttempt
  <2>1. pc' = "start" /\ attempt' = attempt + 1 /\ outcome' = outcome /\ attempt \in Nat
    BY <1>13 DEF NextAttempt, TypeOK, Attempts
  <2>2. \A a \in Attempts : a >= attempt' => outcome'[a] = "none"
    BY <2>1 DEF Attempts
  <2>3. TokenIsOwn'
    BY <1>3, <2>1 DEF TokenIsOwn
  <2> QED BY <2>1, <2>2, <2>3 DEF Attempts
<1>14. ASSUME HourPasses \/ Serve \/ UNCHANGED vars
              \/ \E c \in Calls : Refuse(c) \/ \E a \in Attempts, v \in Verdicts : Accept(c, a, v)
       PROVE  UNCHANGED <<attempt, pc, outcome, due>>
  BY <1>14 DEF HourPasses, Serve, ServerEnds, Cleanup, Lookup, Deliver, Refuse, Accept, vars
<1> QED BY <1>4, <1>6, <1>7, <1>8, <1>10, <1>11, <1>12, <1>13, <1>14 DEF Next, Solve

LEMMA PortStep == ASSUME TypeOK, BegunInv, OutcomeInv, PortInv, [Next]_vars PROVE PortInv'
<1> USE DEF PortInv
<1>1. CASE Bind
  BY <1>1 DEF Bind, Solving, PortIsFreed
<1>2. CASE BindFails
  <2>1. pc = "start" /\ listener # Nobody /\ UNCHANGED <<attempt, listener>>
        /\ outcome' = [outcome EXCEPT ![attempt] = "bindFailed"] /\ attempt \in Attempts
    BY <1>2 DEF BindFails, Return, TypeOK
  <2>2. listener \in Attempts /\ listener < attempt /\ outcome[listener] = "interrupted"
    BY <2>1 DEF BegunInv, Begun, TypeOK, Solving
  <2>3. \A a \in Attempts : a # attempt => outcome'[a] = outcome[a]
    BY <2>1 DEF TypeOK
  <2>4. outcome'[listener] = "interrupted" /\ \A b \in Attempts : outcome[b] = "interrupted" => outcome'[b] = "interrupted"
    BY <2>1, <2>2, <2>3 DEF OutcomeInv, Attempts
  <2> QED BY <2>1, <2>2, <2>3, <2>4 DEF PortIsFreed
<1>3. CASE Finish
  <2>1. pc = "closing" /\ listener # attempt /\ UNCHANGED <<attempt, listener>>
        /\ outcome' = [outcome EXCEPT ![attempt] = due] /\ attempt \in Attempts /\ due # "bindFailed"
        /\ outcome[attempt] = "none"
    BY <1>3 DEF Finish, Return, TypeOK, OutcomeInv
  <2>2. \A a \in Attempts : a # attempt => outcome'[a] = outcome[a]
    BY <2>1 DEF TypeOK
  <2>3. outcome'[attempt] = due
    BY <2>1 DEF TypeOK
  <2> QED BY <2>1, <2>2, <2>3 DEF PortIsFreed, TypeOK
<1>4. CASE Interrupt
  <2>1. pc \in Solving /\ UNCHANGED <<attempt, listener>> /\ attempt \in Attempts
        /\ outcome' = [outcome EXCEPT ![attempt] = "interrupted"]
    BY <1>4 DEF Interrupt, Return, TypeOK
  <2>2. /\ \A a \in Attempts : a # attempt => outcome'[a] = outcome[a]
        /\ outcome'[attempt] = "interrupted"
    BY <2>1 DEF TypeOK
  <2> QED BY <2>1, <2>2 DEF PortIsFreed, TypeOK
<1>5. CASE NextAttempt
  <2>1. pc = "done" /\ UNCHANGED <<listener, outcome>>
    BY <1>5 DEF NextAttempt
  <2> QED BY <2>1 DEF Solving, PortIsFreed
<1>6. ASSUME NEW result, PostFails(result) PROVE PortInv'
  BY <1>6 DEF PostFails, Solving, PortIsFreed
<1>7. CASE Posted \/ Receive \/ Expire \/ RemoveEntry
  <2>1. pc \in Solving /\ pc' \in Solving /\ UNCHANGED <<attempt, listener, outcome>>
    BY <1>7 DEF Posted, Receive, Expire, RemoveEntry, Solving
  <2> QED BY <2>1 DEF PortIsFreed
<1>8. CASE ServerEnds
  BY <1>8 DEF ServerEnds, PortIsFreed
<1>9. ASSUME HourPasses \/ (\E c \in Calls : Cleanup(c) \/ Lookup(c) \/ Deliver(c)) \/ UNCHANGED vars
             \/ \E c \in Calls : Refuse(c) \/ \E a \in Attempts, v \in Verdicts : Accept(c, a, v)
      PROVE  PortInv'
  <2>1. UNCHANGED <<attempt, pc, listener, outcome>>
    BY <1>9 DEF HourPasses, Cleanup, Lookup, Deliver, Refuse, Accept, vars
  <2> QED BY <2>1 DEF PortIsFreed
<1> QED BY <1>1, <1>2, <1>3, <1>4, <1>5, <1>6, <1>7, <1>8, <1>9 DEF Next, Solve, Serve

\* The parts are inductive together.
THEOREM CaptchaInvariance == Spec => []IInv
<1>1. IInv /\ [Next]_vars => IInv'
  BY TypeStep, BegunStep, TokenStep, OutcomeStep, PortStep DEF IInv
<1> QED BY <1>1, InitIInv, PTL DEF Spec

\* Every variable of Captcha keeps its type.
THEOREM CaptchaTypeCorrect == Spec => []TypeOK
BY CaptchaInvariance, PTL DEF IInv

\* TokenIsOwn: a token was reported for the very challenge of its attempt.
THEOREM TokensAreOwn == Spec => []TokenIsOwn
BY CaptchaInvariance, PTL DEF IInv, OutcomeInv

\* AnsweredOnce: one call at most is told that its verdict was delivered.
THEOREM VerdictsAreAnsweredOnce == Spec => []AnsweredOnce
<1>1. IInv => AnsweredOnce
  BY DEF IInv, TokenInv, AnsweredOnce
<1> QED BY <1>1, CaptchaInvariance, PTL

\* PortIsFreed: only an interrupted solve leaves the port taken.
THEOREM PortsAreFreed == Spec => []PortIsFreed
BY CaptchaInvariance, PTL DEF IInv, PortInv
================================================================================
