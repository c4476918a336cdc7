-------------------------- MODULE ClientHandleProofs --------------------------
(***************************************************************************)
(* MaxClient implements ClientHandle, for any callers, senders, handlers   *)
(* and number of generations: every step is one of ClientHandle's actions, *)
(* or one that no caller can see.                                          *)
(***************************************************************************)
EXTENDS MaxClientProofs

\* What the mapping needs beyond IInv: run_lock has no holder but those of LockInv,
\* a worker never outlives its socket, an attempt begins with neither, a run() has
\* no outcome before it ends, and handlers are only told to abort behind the
\* announcement of the stop.
HolderInv ==
    /\ \A r \in Runners : runLock = r => runner[r] = "locked" \/ Active(r)
    /\ \A c \in Callers : runLock = c => disc[c] = "locked"
    /\ \A g \in Generations : tasks[g] # {} => g \in open
    /\ \A r \in Runners :
        /\ sup[r] = "connecting" => att[r] \notin open
        /\ runner[r] \in {"idle", "locked", "running"} => runOutcome[r] = "none"
        /\ runner[r] \in {"running", "dropping", "dropped", "returning"} => sup[r] # "none"
    /\ handlerShutdown => state = Stopped

-------------------------------------------------------------------------------
USE DEF recoveryVars, sessionVars, runVars, callVars, sendVars

LEMMA HolderInit == ASSUME Init PROVE HolderInv
BY NamesAssumption DEF Init, HolderInv

\* At most one supervisor is alive, it works on the newest generation, and what is
\* live is of that one.
LEMMA OneAtWork ==
    ASSUME IInv
    PROVE  /\ \A r, q \in Runners : Active(r) /\ Active(q) => q = r
           /\ \A r \in Runners : sup[r] \in InAttempt =>
                 Active(r) /\ att[r] = gen /\ att[r] \in Generations
           /\ \A g \in Generations : Live(g) =>
                 g = gen /\ \E r \in Runners : sup[r] \in InAttempt /\ att[r] = g
<1>1. \A r, q \in Runners : Active(r) /\ Active(q) => q = r
  BY DEF IInv, LockInv
<1>2. \A r \in Runners : sup[r] \in InAttempt => Active(r) /\ att[r] = gen /\ att[r] \in Generations
  BY DEF IInv, SessionInv, TypeOK, Active, InAttempt, Awaiting, Generations
<1> QED BY <1>1, <1>2 DEF IInv, SessionInv, OneLiveSession

\* Who takes run_lock records it, and who gives it up had it.
LEMMA HolderStep == ASSUME IInv, HolderInv, Next PROVE HolderInv'
<1> USE NamesAssumption DEF HolderInv
<1>1. TypeOK /\ LockInv /\ StopInv
  BY DEF IInv
<1>2. ASSUME NEW r \in Runners, RunCall(r) PROVE HolderInv'
  <2>1. CASE RunTryLock(r)
    BY <1>1, <2>1 DEF TypeOK, LockInv, Active, RunTryLock, Rejected, LockIsFree
  <2>2. CASE RunSpawn(r)
    BY <1>1, <2>2 DEF TypeOK, LockInv, Active, RunSpawn
  <2>3. CASE RunDropped(r)
    BY <1>1, <2>3 DEF TypeOK, Active, RunDropped, CancelToken
  <2>4. CASE RunJoined(r)
    BY <1>1, <2>4 DEF TypeOK, Active, RunJoined, CancelToken
  <2>5. CASE RunLeaves(r)
    BY <1>1, <2>5 DEF TypeOK, Active, RunLeaves, PublishStopped, Notify
  <2> QED BY <1>2, <2>1, <2>2, <2>3, <2>4, <2>5 DEF RunCall
<1>3. ASSUME NEW r \in Runners, Supervise(r) PROVE HolderInv'
  <2>1. CASE SupBegin(r)
    <3>1. \A g \in Generations : g \in open => g # gen + 1
      <4>1. gen \in Int
        BY <1>1, AttemptsAssumption DEF TypeOK
      <4> QED BY <4>1, OneAtWork DEF Live
    <3>2. open \subseteq Generations
      BY <1>1 DEF TypeOK
    <3> QED BY <1>1, <2>1, <3>1, <3>2 DEF TypeOK, Active, SupBegin, SupMoves
  <2>2. CASE SupConnected(r)
    BY <1>1, <2>2, OneAtWork DEF TypeOK, Active, SupConnected, SupMoves, InAttempt, Awaiting
  <2>3. CASE SupSessionInit(r)
    BY <1>1, <2>3 DEF IInv, SessionInv, TypeOK, Active, SupSessionInit, SupMoves
  <2>4. CASE SupPublish(r)
    BY <1>1, <2>4 DEF IInv, StopInv, HandlersOutliveReconnects, TypeOK, Active, SupPublish, SupMoves,
       CanPublish, Notify
  <2>5. CASE SupOffline(r)
    BY <1>1, <2>5 DEF TypeOK, Active, SupOffline, SupMoves, GoOffline, Notify
  <2>6. CASE SupJoin(r)
    BY <1>1, <2>6 DEF TypeOK, Active, SupJoin, SupMoves
  <2>7. CASE SupClose(r)
    BY <1>1, <2>7, OneAtWork DEF IInv, SessionInv, TypeOK, Active, SupClose, CloseTransport,
       SupMoves, InAttempt
  <2>8. CASE SupStopPublish(r)
    BY <1>1, <2>8 DEF TypeOK, Active, SupStopPublish, PublishStopped, Notify, SupMoves
  <2>9. CASE SupHandlers(r)
    BY <1>1, <2>9 DEF StopInv, TypeOK, Active, SupHandlers, DropHandlers, SupMoves
  <2>10. CASE SupUnlock(r)
    BY <1>1, <2>10 DEF LockInv, TypeOK, Active, SupUnlock, SupMoves
  <2>11. CASE SupLogin(r) \/ SupInterrupted(r) \/ SupFailsFatal(r) \/ SupDecide(r)
    BY <1>1, <2>11 DEF TypeOK, Active, SupLogin, SupInterrupted, SupFailsFatal, SupDecide, SupMoves
  <2>12. CASE SupFailsTransient(r)
    BY <1>1, <2>12 DEF TypeOK, Active, SupFailsTransient, SupMoves
  <2>13. CASE SupCancel(r) \/ SupBackoff(r) \/ SupStop(r)
    BY <1>1, <2>13 DEF TypeOK, Active, SupCancel, SupBackoff, SupStop, CancelToken, SupMoves
  <2> QED BY <1>3, <2>1, <2>2, <2>3, <2>4, <2>5, <2>6, <2>7, <2>8, <2>9, <2>10, <2>11, <2>12,
       <2>13 DEF Supervise
<1>4. ASSUME NEW g \in Generations, Session(g) PROVE HolderInv'
  <2>1. /\ \A k \in Generations : tasks'[k] # {} => tasks[k] # {}
        /\ UNCHANGED <<runLock, runner, sup, att, disc, open, runOutcome, handlerShutdown, state>>
    BY <1>1, <1>4 DEF TypeOK, Session, ReadLoopEnds, KeepaliveEnds, WorkerEnds, ServerReconnect
  <2> QED BY <2>1 DEF Active
<1>5. ASSUME NEW c \in Callers, Disconnect(c) PROVE HolderInv'
  <2>1. CASE DisconnectStop(c)
    BY <1>1, <2>1 DEF TypeOK, Active, DisconnectStop, CancelToken
  <2>2. CASE DisconnectPublish(c)
    BY <1>1, <2>2 DEF TypeOK, Active, DisconnectPublish, PublishStopped, Notify
  <2>3. CASE DisconnectLock(c)
    BY <1>1, <2>3 DEF TypeOK, Active, DisconnectLock, LockIsFree
  <2>4. CASE DisconnectReturn(c)
    BY <1>1, <2>4 DEF TypeOK, StopInv, LockInv, Active, DisconnectReturn
  <2> QED BY <1>5, <2>1, <2>2, <2>3, <2>4 DEF Disconnect
<1>6. ASSUME NEW h \in Handlers, Handle(h) PROVE HolderInv'
  BY <1>1, <1>6 DEF TypeOK, Callers, Active, Handle, HandlerReturns, HandlerAborted, SupDispatch
<1>7. ASSUME NEW s \in Senders, Send(s) PROVE HolderInv'
  BY <1>7 DEF Active, Send, SendStart, SendLooks, SendAnswered, SendReplays
<1> QED BY <1>2, <1>3, <1>4, <1>5, <1>6, <1>7 DEF Next

THEOREM HolderInvariance == Spec => [](IInv /\ HolderInv)
<1>1. IInv /\ HolderInv /\ [Next]_vars => HolderInv'
  <2>1. ASSUME HolderInv, UNCHANGED vars PROVE HolderInv'
    BY <2>1 DEF HolderInv, vars, Active
  <2> QED BY <2>1, HolderStep
<1>2. Init => HolderInv
  BY HolderInit
<1> QED BY <1>1, <1>2, Invariance, PTL DEF Spec

-------------------------------------------------------------------------------
(* The mapped variables.                                                   *)

Runs  == [r \in Runners |-> RunOf(r)]
Lives == {g \in Generations : Live(g)}
Calls == [c \in Callers |-> CallOf(c)]
Sends == [s \in Senders |-> SendOf(s)]

\* Variables a caller looks at through the mapping.
LEMMA RunsKept == ASSUME UNCHANGED <<sup, runner>> PROVE Runs' = Runs
BY DEF Runs, RunOf, Active

LEMMA LivesKept == ASSUME UNCHANGED <<open, tasks>> PROVE Lives' = Lives
BY DEF Lives, Live

LEMMA ChannelKept == ASSUME UNCHANGED <<state, shutdown>> PROVE UNCHANGED <<StopOf, ReadyOf>>
BY DEF StopOf, ReadyOf

LEMMA CallsKept == ASSUME UNCHANGED disc PROVE Calls' = Calls
BY DEF Calls, CallOf

LEMMA SendsKept == ASSUME UNCHANGED <<sendPc, sendOutcome>> PROVE Sends' = Sends
BY DEF Sends, SendOf

\* A supervisor that goes on, or comes to its end, in terms of run().
LEMMA SupMoved ==
    ASSUME TypeOK, NEW r \in Runners, Active(r), UNCHANGED runner,
           NEW pc \in SupPcs \ {"none"}, SupMoves(r, pc)
    PROVE  /\ Runs' = [Runs EXCEPT ![r] = IF pc = "finished" THEN "ended" ELSE "serving"]
           /\ Runs[r] = "serving"
<1>1. \A q \in Runners : q # r => RunOf(q)' = RunOf(q)
  <2>1. \A q \in Runners : q # r => sup'[q] = sup[q] /\ runner'[q] = runner[q]
    BY DEF TypeOK, SupMoves
  <2> QED BY <2>1 DEF RunOf, Active
<1>2. RunOf(r)' = (IF pc = "finished" THEN "ended" ELSE "serving") /\ RunOf(r) = "serving"
  BY DEF RunOf, Active, TypeOK, SupMoves
<1> QED BY <1>1, <1>2 DEF Runs

\* A run() moves when its own variables do.
LEMMA RunMoved ==
    ASSUME TypeOK, NEW r \in Runners,
           \A q \in Runners : q # r => runner'[q] = runner[q] /\ sup'[q] = sup[q]
    PROVE  Runs' = [Runs EXCEPT ![r] = RunOf(r)'] /\ Runs[r] = RunOf(r)
<1>1. \A q \in Runners : q # r => RunOf(q)' = RunOf(q)
  BY DEF RunOf, Active
<1> QED BY <1>1 DEF Runs

LEMMA CallMoved ==
    ASSUME TypeOK, NEW c \in Callers, NEW pc, disc' = [disc EXCEPT ![c] = pc]
    PROVE  /\ Calls' = [Calls EXCEPT ![c] = IF pc \in {"stopping", "waitLock", "locked"} THEN "open" ELSE pc]
           /\ Calls[c] = CallOf(c)
BY DEF Calls, CallOf, TypeOK

LEMMA SendMoved ==
    ASSUME TypeOK, NEW s \in Senders,
           \A q \in Senders : q # s => sendPc'[q] = sendPc[q] /\ sendOutcome'[q] = sendOutcome[q]
    PROVE  Sends' = [Sends EXCEPT ![s] = SendOf(s)'] /\ Sends[s] = SendOf(s)
BY DEF Sends, SendOf

\* Nothing is live when no supervisor is in an attempt.
LEMMA NothingLive ==
    ASSUME IInv, \A r \in Runners : sup[r] \notin InAttempt
    PROVE  Lives = {}
BY OneAtWork DEF Lives

\* What is live is the newest session, in the hands of the supervisor that lives.
LEMMA LiveIs ==
    ASSUME IInv, HolderInv, NEW r \in Runners, sup[r] \in InAttempt
    PROVE  /\ Lives \subseteq {gen} /\ gen \in Generations /\ att[r] = gen
           /\ gen \in Lives <=> gen \in open
BY OneAtWork DEF Lives, Live, HolderInv

\* A stop is announced when the channel says Stopped, and asked for before.
LEMMA StopIs ==
    ASSUME IInv
    PROVE  /\ StopOf = "announced" <=> state = Stopped
           /\ StopOf = "no" <=> ~shutdown
           /\ StopOf = "asked" <=> shutdown /\ state # Stopped
BY DEF IInv, StopInv, StopOf

-------------------------------------------------------------------------------
USE DEF Abstract!vars

Shows == [Abstract!Next]_(Abstract!vars)

\* The mapped state is what these variables make of it.
LEMMA Hidden ==
    ASSUME Runs' = Runs, Lives' = Lives, Calls' = Calls, Sends' = Sends,
           UNCHANGED <<runOutcome, StopOf, gen, ReadyOf, conn>>
    PROVE  Shows
BY DEF Runs, Lives, Calls, Sends, Shows

\* run(): every step of a caller is one of RunCall.
LEMMA RunCallShows == ASSUME IInv, HolderInv, NEW r \in Runners, RunCall(r) PROVE Shows
<1> DEFINE Others == UNCHANGED <<gen, Lives, ReadyOf, Calls, Sends, conn>>
<1>1. TypeOK /\ LockInv
  BY DEF IInv
<1>2. CASE RunTryLock(r)
  <2>1. Others /\ StopOf' = StopOf /\ RunOf(r) = "idle"
    BY <1>1, <1>2, LivesKept, ChannelKept, CallsKept, SendsKept
       DEF RunTryLock, Rejected, LockInv, RunOf, Active, StopOf
  <2>2. Runs' = [Runs EXCEPT ![r] = RunOf(r)'] /\ Runs[r] = RunOf(r)
    BY <1>1, <1>2, RunMoved DEF RunTryLock, TypeOK
  <2>3. CASE LockIsFree
    <3>1. RunOf(r)' = "admitted" /\ runOutcome' = runOutcome
      BY <1>1, <1>2, <2>3 DEF RunTryLock, LockInv, TypeOK, RunOf, Active
    <3>2. \A q \in Runners : ~(Runs[q] \in {"admitted", "serving"})
      BY <1>1, <2>3, NamesAssumption DEF LockIsFree, LockInv, Runs, RunOf, Active
    <3> QED BY <2>1, <2>2, <3>1, <3>2
            DEF Shows, Abstract!Next, Abstract!RunCall, Abstract!Admit, Abstract!Busy, Runs, Lives, Calls, Sends
  <2>4. CASE ~LockIsFree
    <3>1. RunOf(r)' = "refused" /\ runOutcome' = [runOutcome EXCEPT ![r] = "AlreadyRunning"]
      BY <1>1, <1>2, <2>4 DEF RunTryLock, Rejected, LockInv, TypeOK, RunOf, Active
    <3>2. \/ \E q \in Runners : Runs[q] \in {"admitted", "serving"}
          \/ \E c \in Callers : Calls[c] = "open" /\ StopOf = "announced"
      <4>1. CASE runLock \in Runners
        BY <1>1, <4>1 DEF HolderInv, LockInv, Runs, RunOf, Active
      <4>2. CASE runLock \in Callers
        BY <4>2, StopIs DEF IInv, HolderInv, StopInv, Calls, CallOf
      <4> QED BY <1>1, <2>4, <4>1, <4>2 DEF LockIsFree, TypeOK
    <3> QED BY <2>1, <2>2, <3>1, <3>2
            DEF Shows, Abstract!Next, Abstract!RunCall, Abstract!RefuseBusy, Abstract!Busy, Runs, Lives, Calls, Sends
  <2> QED BY <2>3, <2>4
<1>3. CASE RunSpawn(r)
  <2>1. Others /\ StopOf' = StopOf /\ RunOf(r) = "admitted"
    BY <1>1, <1>3, LivesKept, ChannelKept, CallsKept, SendsKept
       DEF RunSpawn, LockInv, RunOf, Active
  <2>2. Runs' = [Runs EXCEPT ![r] = RunOf(r)'] /\ Runs[r] = RunOf(r)
    BY <1>1, <1>3, RunMoved DEF RunSpawn, TypeOK
  <2>3. CASE shutdown
    <3>1. /\ RunOf(r)' = "refused" /\ runOutcome' = [runOutcome EXCEPT ![r] = "ConnectionClosed"]
          /\ StopOf # "no"
      BY <1>1, <1>3, <2>3, StopIs DEF RunSpawn, LockInv, TypeOK, RunOf, Active
    <3> QED BY <2>1, <2>2, <3>1
            DEF Shows, Abstract!Next, Abstract!RunCall, Abstract!RefuseStopped, Runs, Lives, Calls, Sends
  <2>4. CASE ~shutdown
    <3>1. RunOf(r)' = "serving" /\ runOutcome' = runOutcome /\ StopOf = "no"
      BY <1>1, <1>3, <2>4, StopIs DEF RunSpawn, TypeOK, RunOf, Active
    <3> QED BY <2>1, <2>2, <3>1
            DEF Shows, Abstract!Next, Abstract!RunCall, Abstract!Serve, Runs, Lives, Calls, Sends
  <2> QED BY <2>3, <2>4
<1>4. CASE RunDropped(r) \/ RunJoined(r)
  <2>1. /\ UNCHANGED <<gen, Lives, Calls, Sends, conn>> /\ Runs' = Runs
        /\ Runs[r] \in {"serving", "ended"}
    <3>1. RunOf(r)' = RunOf(r) /\ RunOf(r) \in {"serving", "ended"}
      BY <1>1, <1>4 DEF HolderInv, RunDropped, RunJoined, TypeOK, RunOf, Active
    <3>2. Runs' = [Runs EXCEPT ![r] = RunOf(r)'] /\ Runs[r] = RunOf(r)
      BY <1>1, <1>4, RunMoved DEF RunDropped, RunJoined, TypeOK
    <3> QED BY <1>4, <3>1, <3>2, LivesKept, CallsKept, SendsKept DEF RunDropped, RunJoined, Runs
  <2>2. ReadyOf' = ReadyOf /\ StopOf' = IF StopOf = "no" THEN "asked" ELSE StopOf
    BY <1>4 DEF RunDropped, RunJoined, CancelToken, IInv, StopInv, ReadyOf, StopOf
  <2>3. \/ runOutcome' = runOutcome
        \/ /\ Runs[r] = "ended" /\ runOutcome[r] = "none"
           /\ \E o \in {"Ok", "Error"} : runOutcome' = [runOutcome EXCEPT ![r] = o]
    <3>1. CASE RunDropped(r)
      BY <3>1 DEF RunDropped
    <3>2. CASE RunJoined(r)
      <4>1. Runs[r] = "ended" /\ runOutcome[r] = "none"
        BY <3>2 DEF RunJoined, HolderInv, Runs, RunOf, Active
      <4>2. \E o \in {"Ok", "Error"} : runOutcome' = [runOutcome EXCEPT ![r] = o]
        <5>1. CASE verdict[r] = "fatal"
          BY <3>2, <5>1 DEF RunJoined
        <5>2. CASE verdict[r] # "fatal"
          BY <3>2, <5>2 DEF RunJoined
        <5> QED BY <5>1, <5>2
      <4> QED BY <4>1, <4>2
    <3> QED BY <1>4, <3>1, <3>2
  <2> QED BY <2>1, <2>2, <2>3
          DEF Shows, Abstract!Next, Abstract!RunCall, Abstract!RunAsks, Runs, Lives, Calls, Sends
<1>5. CASE RunLeaves(r)
  <2>1. UNCHANGED <<gen, Lives, Calls, Sends, conn, runOutcome>> /\ Runs' = Runs
    <3>1. RunOf(r)' = RunOf(r)
      BY <1>1, <1>5 DEF RunLeaves, HolderInv, TypeOK, RunOf, Active
    <3>2. Runs' = [Runs EXCEPT ![r] = RunOf(r)'] /\ Runs[r] = RunOf(r)
      BY <1>1, <1>5, RunMoved DEF RunLeaves, TypeOK
    <3> QED BY <1>5, <3>1, <3>2, LivesKept, CallsKept, SendsKept DEF RunLeaves, Runs
  <2>2. /\ StopOf' = "announced" /\ ReadyOf' = 0
        /\ StopOf = "asked" \/ (StopOf = "announced" /\ ReadyOf = 0)
    BY <1>5 DEF RunLeaves, PublishStopped, IInv, StopInv, StopOf, ReadyOf, Stopped
  <2> QED BY <2>1, <2>2
          DEF Shows, Abstract!Next, Abstract!Session, Abstract!Announce, Runs, Lives, Calls, Sends
<1> QED BY <1>2, <1>3, <1>4, <1>5 DEF RunCall

\* The supervisor: what it does in an attempt is seen as the life of a session.
LEMMA SuperviseShows == ASSUME IInv, HolderInv, NEW r \in Runners, Supervise(r) PROVE Shows
<1> USE DEF Shows
<1>1. TypeOK /\ Active(r) /\ (\A q \in Runners : Active(q) => q = r)
  <2>1. TypeOK
    BY DEF IInv
  <2>2. Active(r)
    BY DEF Active, Supervise, SupBegin, SupConnected, SupSessionInit, SupLogin, SupPublish,
       SupInterrupted, SupFailsTransient, SupFailsFatal, SupOffline, SupCancel, SupJoin, SupClose,
       SupDecide, SupBackoff, SupStop, SupStopPublish, SupHandlers, SupUnlock, Awaiting
  <2> QED BY <2>1, <2>2, OneAtWork
<1>2. Runs[r] = "serving" /\ RunOf(r) = "serving"
  BY <1>1 DEF Runs, RunOf, Active
<1>3. ASSUME NEW pc \in SupPcs \ {"none", "finished"}, SupMoves(r, pc), runner' = runner PROVE Runs' = Runs
  <2>1. Runs' = [Runs EXCEPT ![r] = "serving"]
    BY <1>1, <1>3, SupMoved
  <2> QED BY <1>2, <2>1 DEF Runs
<1>4. /\ Calls' = Calls /\ Sends' = Sends /\ UNCHANGED <<runner, runOutcome, conn>>
  <2>1. UNCHANGED <<runner, runOutcome, disc, conn, sendPc, sendOutcome>>
    BY DEF Supervise, SupBegin, SupConnected, SupSessionInit, SupLogin, SupPublish,
       SupInterrupted, SupFailsTransient, SupFailsFatal, SupOffline, SupCancel, SupJoin, SupClose,
       SupDecide, SupBackoff, SupStop, SupStopPublish, SupHandlers, SupUnlock
  <2> QED BY <2>1, CallsKept, SendsKept
<1>5. {"begin", "connecting", "sessionInit", "login", "publish", "dispatch", "offline", "cancel", "join",
       "close", "decide", "backoff", "stop", "stopPublish", "handlers", "unlock"}
      \subseteq SupPcs \ {"none", "finished"}
  BY DEF SupPcs, InAttempt, Awaiting, Leaving
<1>6. sup[r] \notin InAttempt => Lives = {}
  <2>1. \A q \in Runners : sup[q] \in InAttempt => q = r
    BY <1>1, OneAtWork
  <2> QED BY <2>1, NothingLive
<1>7. state.tag = "Ready" => sup[r] \in {"dispatch", "offline"}
  BY <1>1 DEF IInv, ReadyIsUsable, Active
<1>8. CASE SupBegin(r)
  <2>1. CASE shutdown
    <3>1. UNCHANGED <<state, shutdown, gen, open, tasks>> /\ SupMoves(r, "stop")
      BY <1>8, <2>1 DEF SupBegin
    <3> QED BY <1>3, <1>4, <1>5, <3>1, LivesKept, ChannelKept, Hidden
  <2>2. CASE ~shutdown
    <3>1. /\ UNCHANGED <<state, shutdown, open, tasks>> /\ SupMoves(r, "connecting")
          /\ gen' = gen + 1 /\ sup[r] = "begin"
      BY <1>8, <2>2 DEF SupBegin
    <3>2. StopOf = "no" /\ Lives = {}
      BY <1>6, <2>2, <3>1, StopIs DEF InAttempt, Awaiting
    <3> QED BY <1>2, <1>3, <1>4, <1>5, <3>1, <3>2, LivesKept, ChannelKept
            DEF Abstract!Next, Abstract!Session, Abstract!BeginSession, Abstract!Serving, Runs, Lives, Calls, Sends
  <2> QED BY <2>1, <2>2
<1>9. CASE SupConnected(r)
  <2>1. /\ sup[r] = "connecting" /\ ~IsCancelled(att[r]) /\ open' = open \cup {att[r]}
        /\ tasks' = [tasks EXCEPT ![att[r]] = @ \cup {"read_loop"}]
        /\ SupMoves(r, "sessionInit") /\ UNCHANGED <<state, shutdown, gen>>
    BY <1>9 DEF SupConnected
  <2>2. Lives \subseteq {gen} /\ gen \in Generations /\ att[r] = gen /\ (gen \in Lives <=> gen \in open)
    BY <2>1, LiveIs DEF InAttempt, Awaiting
  <2>3. Lives = {} /\ StopOf = "no" /\ gen > 0
    BY <2>1, <2>2, StopIs DEF HolderInv, IsCancelled, Generations
  <2>4. Lives' = {gen}
    <3>1. \A g \in Generations : Live(g)' <=> g = gen
      BY <1>1, <2>1, <2>2, <2>3 DEF Lives, Live, TypeOK
    <3> QED BY <2>2, <3>1 DEF Lives, Generations
  <2> QED BY <1>2, <1>3, <1>4, <1>5, <2>1, <2>3, <2>4, ChannelKept
          DEF Abstract!Next, Abstract!Session, Abstract!OpenSession, Abstract!Serving, Runs, Lives, Calls, Sends
<1>10. CASE SupSessionInit(r)
  <2>1. /\ sup[r] = "sessionInit" /\ UNCHANGED <<state, shutdown, gen, open>>
        /\ tasks' = [tasks EXCEPT ![att[r]] = @ \cup {"keepalive"}] /\ SupMoves(r, "login")
    BY <1>10 DEF SupSessionInit
  <2>2. att[r] \in open
    BY <2>1 DEF IInv, SessionInv
  <2>3. Lives' = Lives
    BY <1>1, <2>1, <2>2 DEF Lives, Live, TypeOK
  <2> QED BY <1>3, <1>4, <1>5, <2>1, <2>3, ChannelKept, Hidden
<1>11. CASE SupPublish(r)
  <2>1. sup[r] = "publish" /\ UNCHANGED <<shutdown, gen, open, tasks>>
    BY <1>11 DEF SupPublish
  <2>2. CASE CanPublish(att[r])
    <3>1. /\ state' = Ready(att[r]) /\ SupMoves(r, "dispatch") /\ state # Stopped /\ ~shutdown
      BY <1>11, <2>2 DEF SupPublish, CanPublish, IsCancelled
    <3>2. gen \in Lives /\ att[r] = gen
      BY <2>1, LiveIs DEF IInv, SessionInv, InAttempt
    <3>3. StopOf = "no" /\ StopOf' = "no" /\ ReadyOf' = gen
      BY <2>1, <3>1, <3>2, StopIs DEF StopOf, ReadyOf, Ready, Stopped
    <3> QED BY <1>3, <1>4, <1>5, <2>1, <3>1, <3>2, <3>3, LivesKept
            DEF Abstract!Next, Abstract!Session, Abstract!Publish, Runs, Lives, Calls, Sends
  <2>3. CASE ~CanPublish(att[r])
    <3>1. UNCHANGED state /\ SupMoves(r, "offline")
      BY <1>11, <2>3 DEF SupPublish
    <3> QED BY <1>3, <1>4, <1>5, <2>1, <3>1, LivesKept, ChannelKept, Hidden
  <2> QED BY <2>2, <2>3
<1>12. CASE SupOffline(r)
  <2>1. UNCHANGED <<shutdown, gen, open, tasks>> /\ SupMoves(r, "cancel")
    BY <1>12 DEF SupOffline
  <2>2. StopOf' = StopOf /\ (ReadyOf' = ReadyOf \/ (ReadyOf # 0 /\ ReadyOf' = 0))
    BY <1>1, <1>12 DEF SupOffline, GoOffline, StopOf, ReadyOf, Offline, Stopped, TypeOK, Generations
  <2> QED BY <1>3, <1>4, <1>5, <2>1, <2>2, LivesKept
          DEF Abstract!Next, Abstract!Session, Abstract!Withdraw, Runs, Lives, Calls, Sends
<1>13. CASE SupJoin(r)
  <2>1. /\ sup[r] = "join" /\ UNCHANGED <<state, shutdown, gen, open>>
        /\ tasks' = [tasks EXCEPT ![att[r]] = {}] /\ SupMoves(r, "close")
    BY <1>13 DEF SupJoin
  <2>2. Lives' = Lives
    BY <1>1, <2>1 DEF Lives, Live, TypeOK, HolderInv
  <2> QED BY <1>3, <1>4, <1>5, <2>1, <2>2, ChannelKept, Hidden
<1>14. CASE SupClose(r)
  <2>1. /\ sup[r] = "close" /\ open' = open \ {att[r]} /\ SupMoves(r, "decide")
        /\ UNCHANGED <<state, shutdown, gen, tasks>>
    BY <1>14 DEF SupClose, CloseTransport
  <2>2. Lives \subseteq {gen} /\ att[r] = gen /\ tasks[gen] = {}
    BY <2>1, LiveIs DEF IInv, SessionInv, InAttempt
  <2>3. Lives' = {}
    BY <2>1, <2>2 DEF Lives, Live
  <2>4. ReadyOf = 0
    BY <1>7, <2>1 DEF ReadyOf
  <2> QED BY <1>3, <1>4, <1>5, <2>1, <2>3, <2>4, ChannelKept
          DEF Abstract!Next, Abstract!Session, Abstract!CloseSession, Runs, Lives, Calls, Sends
<1>15. CASE SupStop(r)
  <2>1. UNCHANGED <<state, gen, open, tasks>> /\ SupMoves(r, "stopPublish")
    BY <1>15 DEF SupStop
  <2>2. ReadyOf' = ReadyOf /\ StopOf' = IF StopOf = "no" THEN "asked" ELSE StopOf
    BY <1>15 DEF SupStop, CancelToken, IInv, StopInv, ReadyOf, StopOf
  <2> QED BY <1>2, <1>3, <1>4, <1>5, <2>1, <2>2, LivesKept
          DEF Abstract!Next, Abstract!RunCall, Abstract!RunAsks, Runs, Lives, Calls, Sends
<1>16. CASE SupStopPublish(r)
  <2>1. UNCHANGED <<shutdown, gen, open, tasks>> /\ SupMoves(r, "handlers")
    BY <1>16 DEF SupStopPublish
  <2>2. /\ StopOf' = "announced" /\ ReadyOf' = 0
        /\ StopOf = "asked" \/ (StopOf = "announced" /\ ReadyOf = 0)
    BY <1>16 DEF SupStopPublish, PublishStopped, IInv, StopInv, StopOf, ReadyOf, Stopped
  <2> QED BY <1>3, <1>4, <1>5, <2>1, <2>2, LivesKept
          DEF Abstract!Next, Abstract!Session, Abstract!Announce, Runs, Lives, Calls, Sends
<1>17. CASE SupUnlock(r)
  <2>1. sup[r] = "unlock" /\ UNCHANGED <<state, shutdown, gen, open, tasks>> /\ SupMoves(r, "finished")
    BY <1>17 DEF SupUnlock
  <2>2. Lives = {} /\ StopOf = "announced"
    BY <1>6, <2>1, StopIs DEF IInv, StopInv, InAttempt, Awaiting
  <2>3. Runs' = [Runs EXCEPT ![r] = "ended"]
    BY <1>1, <1>4, <2>1, SupMoved DEF SupPcs
  <2> QED BY <1>2, <1>4, <2>1, <2>2, <2>3, LivesKept, ChannelKept
          DEF Abstract!Next, Abstract!RunCall, Abstract!EndRun, Runs, Lives, Calls, Sends
<1>18. CASE \/ SupLogin(r) \/ SupInterrupted(r) \/ SupFailsTransient(r) \/ SupFailsFatal(r)
            \/ SupCancel(r) \/ SupDecide(r) \/ SupBackoff(r) \/ SupHandlers(r)
  <2>1. UNCHANGED <<state, shutdown, gen, open, tasks>>
    BY <1>18 DEF SupLogin, SupInterrupted, SupFailsTransient, SupFailsFatal, SupCancel, SupDecide,
       SupBackoff, SupHandlers
  <2>2. \E pc \in SupPcs \ {"none", "finished"} : SupMoves(r, pc)
    BY <1>5, <1>18 DEF SupLogin, SupInterrupted, SupFailsTransient, SupFailsFatal, SupCancel,
       SupDecide, SupBackoff, SupHandlers
  <2> QED BY <1>3, <1>4, <2>1, <2>2, LivesKept, ChannelKept, Hidden
<1> QED BY <1>8, <1>9, <1>10, <1>11, <1>12, <1>13, <1>14, <1>15, <1>16, <1>17, <1>18 DEF Supervise

\* A worker that ends takes nothing from its session that callers could see: the
\* socket is still there.
LEMMA SessionShows == ASSUME IInv, HolderInv, NEW g \in Generations, Session(g) PROVE Shows
<1>1. /\ \A k \in Generations : tasks'[k] # {} => tasks[k] # {}
      /\ UNCHANGED <<open, state, shutdown, gen, runner, sup, runOutcome, disc, sendPc, conn, sendOutcome>>
  BY DEF IInv, TypeOK, Session, ReadLoopEnds, KeepaliveEnds, WorkerEnds, ServerReconnect
<1>2. Lives' = Lives
  BY <1>1 DEF Lives, Live, HolderInv
<1> QED BY <1>1, <1>2, RunsKept, CallsKept, SendsKept, ChannelKept, Hidden

\* disconnect(), and the handlers that may call it.
LEMMA DisconnectShows == ASSUME IInv, HolderInv, NEW c \in Callers, Disconnect(c) PROVE Shows
<1> USE DEF Shows
<1>1. UNCHANGED <<gen, runOutcome, conn>> /\ Runs' = Runs /\ Lives' = Lives /\ Sends' = Sends
  <2>1. UNCHANGED <<gen, open, tasks, runner, sup, runOutcome, sendPc, conn, sendOutcome>>
    BY DEF Disconnect, DisconnectStop, DisconnectPublish, DisconnectLock, DisconnectReturn
  <2> QED BY <2>1, RunsKept, LivesKept, SendsKept
<1>2. TypeOK
  BY DEF IInv
<1>3. CASE DisconnectStop(c)
  <2>1. Calls' = [Calls EXCEPT ![c] = "open"] /\ Calls[c] = "idle"
    BY <1>2, <1>3, CallMoved DEF DisconnectStop, CallOf
  <2>2. ReadyOf' = ReadyOf /\ StopOf' = IF StopOf = "no" THEN "asked" ELSE StopOf
    BY <1>3 DEF DisconnectStop, CancelToken, IInv, StopInv, ReadyOf, StopOf
  <2> QED BY <1>1, <2>1, <2>2 DEF Abstract!Next, Abstract!Disconnect, Runs, Lives, Calls, Sends
<1>4. CASE DisconnectPublish(c)
  <2>1. Calls' = Calls
    <3>1. Calls' = [Calls EXCEPT ![c] = "open"] /\ Calls[c] = "open"
      BY <1>2, <1>4, CallMoved DEF DisconnectPublish, CallOf
    <3> QED BY <3>1 DEF Calls
  <2>2. /\ StopOf' = "announced" /\ ReadyOf' = 0
        /\ StopOf = "asked" \/ (StopOf = "announced" /\ ReadyOf = 0)
    BY <1>4 DEF DisconnectPublish, PublishStopped, IInv, StopInv, StopOf, ReadyOf, Stopped
  <2> QED BY <1>1, <2>1, <2>2
          DEF Abstract!Next, Abstract!Session, Abstract!Announce, Runs, Lives, Calls, Sends
<1>5. CASE DisconnectLock(c)
  <2>1. Calls' = Calls
    <3>1. Calls' = [Calls EXCEPT ![c] = "open"] /\ Calls[c] = "open"
      BY <1>2, <1>5, CallMoved DEF DisconnectLock, CallOf
    <3> QED BY <3>1 DEF Calls
  <2>2. UNCHANGED <<state, shutdown>>
    BY <1>5 DEF DisconnectLock
  <2> QED BY <1>1, <2>1, <2>2, ChannelKept, Hidden
<1>6. CASE DisconnectReturn(c)
  <2>1. Calls' = [Calls EXCEPT ![c] = "done"] /\ Calls[c] = "open"
    BY <1>2, <1>6, CallMoved DEF DisconnectReturn, CallOf
  <2>2. \A r \in Runners : ~Active(r)
    BY <1>6, NamesAssumption DEF DisconnectReturn, IInv, LockInv
  <2>3. Lives = {} /\ StopOf = "announced" /\ \A r \in Runners : Runs[r] # "serving"
    BY <1>6, <2>2, NothingLive, StopIs, OneAtWork
       DEF DisconnectReturn, IInv, StopInv, Runs, RunOf
  <2>4. UNCHANGED <<state, shutdown>>
    BY <1>6 DEF DisconnectReturn
  <2> QED BY <1>1, <2>1, <2>3, <2>4, ChannelKept
          DEF Abstract!Next, Abstract!Disconnected, Abstract!Serving, Runs, Lives, Calls, Sends
<1> QED BY <1>3, <1>4, <1>5, <1>6 DEF Disconnect

LEMMA HandleShows == ASSUME IInv, HolderInv, NEW h \in Handlers, Handle(h) PROVE Shows
<1> USE DEF Shows
<1>1. /\ UNCHANGED <<gen, runOutcome, conn, StopOf, ReadyOf>>
      /\ Runs' = Runs /\ Lives' = Lives /\ Sends' = Sends
  <2>1. UNCHANGED <<gen, open, tasks, state, shutdown, runner, sup, runOutcome, sendPc, conn, sendOutcome>>
    BY DEF Handle, HandlerReturns, HandlerAborted, SupDispatch
  <2> QED BY <2>1, RunsKept, LivesKept, SendsKept, ChannelKept
<1>2. TypeOK /\ h \in Callers
  BY DEF IInv, Callers
<1>3. CASE HandlerReturns(h)
  <2>1. Calls' = [Calls EXCEPT ![h] = "returned"] /\ Calls[h] = "idle"
    BY <1>2, <1>3, CallMoved DEF HandlerReturns, CallOf
  <2> QED BY <1>1, <1>2, <2>1
          DEF Abstract!Next, Abstract!Handler, Abstract!EndHandler, Runs, Lives, Calls, Sends
<1>4. CASE HandlerAborted(h)
  <2>1. Calls' = [Calls EXCEPT ![h] = "aborted"] /\ Calls[h] \in {"idle", "open"}
    BY <1>2, <1>4, CallMoved DEF HandlerAborted, CallOf
  <2>2. Lives = {} /\ StopOf = "announced"
    BY <1>4, NothingLive, StopIs
       DEF HandlerAborted, HolderInv, IInv, HandlersOutliveReconnects, InAttempt, Awaiting
  <2> QED BY <1>1, <1>2, <2>1, <2>2
          DEF Abstract!Next, Abstract!Handler, Abstract!AbortHandler, Runs, Lives, Calls, Sends
<1>5. ASSUME NEW r \in Runners, SupDispatch(r, h) PROVE Shows
  <2>1. Calls' = [Calls EXCEPT ![h] = "idle"] /\ Calls[h] = "none"
    BY <1>2, <1>5, CallMoved DEF SupDispatch, CallOf
  <2>2. gen \in Lives /\ StopOf = "no"
    <3>1. sup[r] = "dispatch" /\ ~IsCancelled(att[r])
      BY <1>5 DEF SupDispatch
    <3>2. att[r] \in open /\ ~shutdown
      BY <3>1 DEF IInv, ServedInv, SessionIsServed, Served, IsCancelled
    <3> QED BY <3>1, <3>2, LiveIs, StopIs DEF InAttempt, Awaiting
  <2> QED BY <1>1, <1>2, <2>1, <2>2
          DEF Abstract!Next, Abstract!Handler, Abstract!StartHandler, Runs, Lives, Calls, Sends
<1> QED BY <1>3, <1>4, <1>5 DEF Handle

\* A send: it shows when it takes up a session, and how it ends.
LEMMA SendShows == ASSUME IInv, HolderInv, NEW s \in Senders, Send(s) PROVE Shows
<1> USE DEF Shows
<1>1. /\ UNCHANGED <<gen, runOutcome, StopOf, ReadyOf>>
      /\ Runs' = Runs /\ Lives' = Lives /\ Calls' = Calls
  <2>1. UNCHANGED <<gen, open, tasks, state, shutdown, runner, sup, runOutcome, disc>>
    BY DEF Send, SendStart, SendLooks, SendAnswered, SendReplays
  <2> QED BY <2>1, RunsKept, LivesKept, CallsKept, ChannelKept
<1>2. TypeOK
  BY DEF IInv
<1>3. Sends' = [Sends EXCEPT ![s] = SendOf(s)'] /\ Sends[s] = SendOf(s)
  <2>1. \A q \in Senders : q # s => sendPc'[q] = sendPc[q] /\ sendOutcome'[q] = sendOutcome[q]
    BY <1>2 DEF Send, SendStart, SendLooks, SendAnswered, SendReplays, Replay, TypeOK
  <2> QED BY <1>2, <2>1, SendMoved
<1>4. SendOf(s)' = SendOf(s) => Sends' = Sends
  BY <1>3 DEF Sends
<1>5. CASE SendStart(s)
  <2>1. SendOf(s) = "idle" /\ SendOf(s)' = "open" /\ conn' = conn
    BY <1>2, <1>5 DEF SendStart, SendOf, TypeOK
  <2> QED BY <1>1, <1>3, <2>1
          DEF Abstract!Next, Abstract!SendCall, Abstract!StartSend, Runs, Lives, Calls, Sends
<1>6. CASE SendLooks(s)
  <2>1. SendOf(s) = "open" /\ sendPc[s] # "invoking"
    BY <1>6 DEF SendLooks, SendOf
  <2>2. CASE sendPc'[s] = "invoking"
    <3>1. /\ state.tag = "Ready" /\ ~IsCancelled(state.gen)
          /\ conn' = [conn EXCEPT ![s] = state.gen]
      BY <1>2, <1>6, <2>2 DEF SendLooks, TypeOK
    <3>2. StopOf = "no" /\ ReadyOf = state.gen /\ SendOf(s)' = "open"
      BY <2>2, <3>1, StopIs DEF ReadyOf, IsCancelled, SendOf
    <3>3. state.gen > conn[s]
      <4>1. /\ state.gen \in Generations /\ state.gen = gen
            /\ conn[s] \in 0 .. MaxAttempts /\ conn[s] <= gen
        BY <3>1 DEF IInv, TypeOK, ReadyIsUsable, SessionInv, InAttempt, Awaiting, SendInv
      <4>2. conn[s] # gen
        BY <1>6, <3>1, <4>1 DEF SendLooks, IInv, SendInv, Generations
      <4> QED BY <4>1, <4>2 DEF Generations
    <3> QED BY <1>1, <1>3, <1>4, <2>1, <3>1, <3>2, <3>3
            DEF Abstract!Next, Abstract!SendCall, Abstract!Use, Runs, Lives, Calls, Sends
  <2>3. CASE sendPc'[s] = "returned"
    <3>1. state = Stopped /\ SendOf(s)' = "ConnectionClosed" /\ conn' = conn
      BY <1>2, <1>6, <2>3 DEF SendLooks, TypeOK, SendOf
    <3> QED BY <1>1, <1>3, <2>1, <3>1, StopIs
            DEF Abstract!Next, Abstract!SendCall, Abstract!Closed, Runs, Lives, Calls, Sends
  <2>4. CASE sendPc'[s] = "waiting"
    <3>1. SendOf(s)' = "open" /\ conn' = conn
      BY <1>2, <1>6, <2>4 DEF SendLooks, TypeOK, SendOf
    <3> QED BY <1>1, <1>4, <2>1, <3>1, Hidden
  <2> QED BY <1>2, <1>6, <2>2, <2>3, <2>4 DEF SendLooks, TypeOK
<1>7. CASE SendAnswered(s)
  <2>1. /\ SendOf(s) = "open" /\ SendOf(s)' \in {"Ok", "Error"} /\ conn' = conn
        /\ conn[s] \in open /\ ~shutdown
    BY <1>2, <1>7 DEF SendAnswered, SendOf, TypeOK, IsCancelled
  <2>2. conn[s] \in Lives /\ StopOf = "no"
    BY <1>2, <2>1, StopIs DEF Lives, Live, TypeOK
  <2> QED BY <1>1, <1>3, <2>1, <2>2
          DEF Abstract!Next, Abstract!SendCall, Abstract!Answered, Runs, Lives, Calls, Sends
<1>8. CASE SendReplays(s)
  <2>1. SendOf(s)' = SendOf(s) /\ conn' = conn
    BY <1>2, <1>8 DEF SendReplays, Replay, SendOf, TypeOK
  <2> QED BY <1>1, <1>4, <2>1, Hidden
<1> QED BY <1>5, <1>6, <1>7, <1>8 DEF Send

-------------------------------------------------------------------------------
\* ImplementsClientHandle: behind tokens, run_lock, the watch channel, workers and
\* drop guards, callers see one run() with one session at a time, sends that use
\* each session once, a final stop, and disconnect() that returns when it is over.
THEOREM ClientImplements == Spec => ImplementsClientHandle
<1> SUFFICES Spec => Abstract!Spec
  BY DEF ImplementsClientHandle
<1>1. Init => Abstract!Init
  <2> SUFFICES ASSUME Init PROVE Abstract!Init
    OBVIOUS
  <2>1. \A r \in Runners : RunOf(r) = "idle"
    BY DEF Init, RunOf, Active
  <2>2. StopOf = "no" /\ ReadyOf = 0 /\ \A g \in Generations : ~Live(g)
    BY DEF Init, StopOf, ReadyOf, Live, Offline, Stopped
  <2>3. /\ \A c \in Callers : CallOf(c) = IF c \in Handlers THEN "none" ELSE "idle"
        /\ \A s \in Senders : SendOf(s) = "idle"
    BY DEF Init, CallOf, SendOf
  <2> QED BY <2>1, <2>2, <2>3 DEF Init, Abstract!Init
<1>2. IInv /\ HolderInv /\ [Next]_vars => [Abstract!Next]_(Abstract!vars)
  <2>1. ASSUME UNCHANGED vars PROVE UNCHANGED Abstract!vars
    <3>1. UNCHANGED <<state, shutdown, gen, open, tasks, runner, sup, runOutcome, disc, sendPc, conn, sendOutcome>>
      BY <2>1 DEF vars
    <3> QED BY <3>1, RunsKept, LivesKept, CallsKept, SendsKept, ChannelKept DEF Runs, Lives, Calls, Sends
  <2> QED BY <2>1, RunCallShows, SuperviseShows, SessionShows, DisconnectShows, HandleShows, SendShows
          DEF Next, Shows
<1> QED BY <1>1, <1>2, HolderInvariance, PTL DEF Spec, Abstract!Spec
===============================================================================
