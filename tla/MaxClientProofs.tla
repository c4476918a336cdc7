--------------------------- MODULE MaxClientProofs ---------------------------
(***************************************************************************)
(* IInv is inductive for any callers, senders, handlers and number of      *)
(* generations, and the safety properties of MaxClient follow from it.     *)
(* Each part of IInv has one lemma: the steps that disturb it have a leaf  *)
(* of their own, the others leave every variable it reads unchanged.       *)
(***************************************************************************)
EXTENDS MaxClient, TLAPS

-----------------------------------------------------------------------------
(* The inductive invariant behind the safety properties. Its parts say who  *)
(* holds what at each program counter.                                      *)

\* run_lock is held by a run() that is about to spawn, by its supervisor as long
\* as that lives, or by a disconnect(); a supervisor is spawned once per run().
LockInv ==
    /\ \A r \in Runners : /\ runner[r] = "locked" \/ Active(r) => runLock = r
                          /\ runner[r] \in {"idle", "locked"} => sup[r] = "none"
    /\ \A c \in Callers : disc[c] = "locked" => runLock = c

\* The supervisor works on the newest generation, and what it has opened or
\* already torn down follows from where it is.
SessionInv ==
    /\ \A r \in Runners :
        /\ sup[r] \in InAttempt => att[r] = gen /\ gen > 0
        /\ sup[r] \in {"sessionInit", "login", "publish"} => att[r] \in open
        /\ sup[r] = "publish" => att[r] \in authenticated
        /\ sup[r] = "close" => tasks[att[r]] = {}
    /\ OneLiveSession

\* Both halves of a stop have happened behind whoever is past them.
StopInv ==
    /\ state = Stopped => shutdown
    /\ \A r \in Runners :
        /\ sup[r] \in {"stopPublish", "handlers", "unlock", "finished"} => shutdown
        /\ sup[r] \in {"handlers", "unlock", "finished"} => state = Stopped
        /\ runner[r] \in {"dropping", "dropped", "returning"} => shutdown
    /\ \A c \in Callers :
        /\ disc[c] \in {"stopping", "waitLock", "locked", "done"} => shutdown
        /\ disc[c] \in {"waitLock", "locked", "done"} => state = Stopped

\* StopIsCaused, and why a supervisor that is leaving does so: an attempt that is
\* over failed, for now or for good.
CauseInv ==
    /\ \A r \in Runners :
        /\ sup[r] \in {"offline", "cancel", "join", "close", "decide"} =>
              verdict[r] \in {"again", "fatal"}
        /\ sup[r] = "stop" => shutdown \/ verdict[r] = "fatal"
    /\ shutdown =>
        \/ \E c \in Callers : disc[c] \in {"stopping", "waitLock", "locked", "done", "aborted"}
        \/ \E r \in Runners : \/ runner[r] \in {"dropping", "dropped"}
                              \/ verdict[r] = "fatal" /\ sup[r] \in Leaving \cup {"finished"}

\* A send that is not using a session has seen the last one it used cancelled.
SendInv ==
    \A s \in Senders :
        /\ conn[s] <= gen
        /\ sendPc[s] = "idle" => conn[s] = 0
        /\ sendPc[s] \in {"current", "waiting"} /\ conn[s] > 0 => IsCancelled(conn[s])

\* A send that uses a session which is not cancelled has its supervisor dispatching,
\* and a session is cancelled before it is taken off the channel.
ServedInv ==
    /\ SessionIsServed
    /\ \A s \in Senders : sendPc[s] = "invoking" =>
        conn[s] > 0 /\ (IsCancelled(conn[s]) \/ \E r \in Runners : sup[r] = "dispatch" /\ att[r] = conn[s])
    /\ \A r \in Runners : sup[r] = "offline" /\ state = Ready(att[r]) => IsCancelled(att[r])

IInv ==
    /\ TypeOK
    /\ LockInv
    /\ SessionInv
    /\ ReadyIsUsable
    /\ StopInv
    /\ CauseInv
    /\ HandlersOutliveReconnects
    /\ DisconnectIsComplete
    /\ NoLostWakeup
    /\ ClosedOnlyIfStopped
    /\ SendInv
    /\ ServedInv
-----------------------------------------------------------------------------
USE DEF recoveryVars, sessionVars, runVars, callVars, sendVars

\* What TypeOK needs to know of the rest of the invariant.
AttemptTyped == \A r \in Runners : sup[r] \in InAttempt => att[r] \in Generations

\* A supervisor inside an attempt works on an existing generation.
LEMMA AttemptIsTyped == ASSUME TypeOK, SessionInv PROVE AttemptTyped
BY DEF AttemptTyped, TypeOK, SessionInv, Generations

\* The handle a caller creates satisfies the invariant.
LEMMA InitStep == ASSUME Init PROVE IInv
<1> USE DEF Init
<1>1. TypeOK
  <2>1. state \in {Offline, Stopped} /\ gen \in 0 .. MaxAttempts /\ att \in [Runners -> 0 .. MaxAttempts]
    BY AttemptsAssumption
  <2>2. /\ runner \in [Runners -> RunnerPcs]
        /\ sup \in [Runners -> SupPcs]
        /\ disc \in [Callers -> CallerPcs]
        /\ sendPc \in [Senders -> SenderPcs]
    BY DEF RunnerPcs, SupPcs, CallerPcs, SenderPcs
  <2> QED BY <2>1, <2>2, AttemptsAssumption DEF TypeOK
<1>2. LockInv
  BY DEF LockInv, Active
<1>3. SessionInv
  BY DEF SessionInv, OneLiveSession, Live, InAttempt, Awaiting
<1>4. ReadyIsUsable /\ StopInv /\ CauseInv
  BY DEF ReadyIsUsable, StopInv, CauseInv, Offline, Stopped
<1>5. HandlersOutliveReconnects /\ DisconnectIsComplete
  BY DEF HandlersOutliveReconnects, DisconnectIsComplete
<1>6. NoLostWakeup /\ ClosedOnlyIfStopped /\ SendInv
  BY DEF NoLostWakeup, ClosedOnlyIfStopped, SendInv
<1>7. ServedInv
  BY DEF ServedInv, SessionIsServed
<1> QED BY <1>1, <1>2, <1>3, <1>4, <1>5, <1>6, <1>7 DEF IInv

-----------------------------------------------------------------------------
\* Every action keeps the types. A generation is only touched by a supervisor
\* that has one.
LEMMA TypeStep == ASSUME TypeOK, AttemptTyped, Next PROVE TypeOK'
<1>1. ASSUME NEW r \in Runners, RunCall(r) PROVE TypeOK'
  <2>1. CASE RunTryLock(r)
    BY <2>1 DEF TypeOK, RunnerPcs, AttemptTyped, RunTryLock, Rejected, LockIsFree
  <2>2. CASE RunSpawn(r)
    BY <2>2 DEF TypeOK, RunnerPcs, SupPcs, AttemptTyped, RunSpawn
  <2>3. CASE RunDropped(r)
    BY <2>3 DEF TypeOK, RunnerPcs, AttemptTyped, RunDropped, CancelToken
  <2>4. CASE RunJoined(r)
    BY <2>4 DEF TypeOK, RunnerPcs, AttemptTyped, RunJoined, CancelToken
  <2>5. CASE RunLeaves(r)
    BY <2>5 DEF TypeOK, RunnerPcs, AttemptTyped, RunLeaves, PublishStopped, Notify
  <2> QED BY <1>1, <2>1, <2>2, <2>3, <2>4, <2>5 DEF RunCall
<1>2. ASSUME NEW r \in Runners, Supervise(r) PROVE TypeOK'
  <2>1. CASE SupBegin(r)
    <3>1. gen' \in 0 .. MaxAttempts /\ att' \in [Runners -> 0 .. MaxAttempts]
      BY <2>1, AttemptsAssumption DEF TypeOK, SupBegin
    <3>2. sup' \in [Runners -> SupPcs]
      BY <2>1 DEF TypeOK, SupPcs, InAttempt, Awaiting, Leaving, SupBegin, SupMoves
    <3>3. verdict' \in [Runners -> {"none", "again", "fatal", "Ok"}]
      BY <2>1 DEF TypeOK, SupBegin
    <3> QED BY <2>1, <3>1, <3>2, <3>3 DEF TypeOK, SupBegin
  <2>2. CASE SupConnected(r)
    <3>1. att[r] \in Generations
      BY <2>2 DEF AttemptTyped, InAttempt, Awaiting, SupConnected
    <3>2. tasks' \in [Generations -> SUBSET Workers] /\ open' \in SUBSET Generations
      BY <2>2, <3>1 DEF TypeOK, Workers, SupConnected
    <3>3. sup' \in [Runners -> SupPcs]
      BY <2>2 DEF TypeOK, SupPcs, InAttempt, Awaiting, Leaving, SupConnected, SupMoves
    <3> QED BY <2>2, <3>2, <3>3 DEF TypeOK, SupConnected
  <2>3. CASE SupSessionInit(r)
    <3>1. tasks' \in [Generations -> SUBSET Workers]
      BY <2>3 DEF TypeOK, Workers, SupSessionInit
    <3>2. sup' \in [Runners -> SupPcs]
      BY <2>3 DEF TypeOK, SupPcs, InAttempt, Awaiting, Leaving, SupSessionInit, SupMoves
    <3> QED BY <2>3, <3>1, <3>2 DEF TypeOK, SupSessionInit
  <2>4. CASE SupLogin(r)
    BY <2>4 DEF TypeOK, SupPcs, InAttempt, Awaiting, Leaving, AttemptTyped, SupLogin, SupMoves
  <2>5. CASE SupPublish(r)
    <3>1. att[r] \in Generations
      BY <2>5 DEF AttemptTyped, InAttempt, Awaiting, SupPublish
    <3>2. state' \in {Offline, Stopped} \cup [tag : {"Ready"}, gen : Generations]
      BY <2>5, <3>1 DEF TypeOK, Ready, SupPublish
    <3>3. sup' \in [Runners -> SupPcs]
      BY <2>5 DEF TypeOK, SupPcs, InAttempt, Awaiting, Leaving, SupPublish, SupMoves
    <3>4. /\ dirty' \in [Senders -> BOOLEAN]
          /\ verdict' \in [Runners -> {"none", "again", "fatal", "Ok"}]
      BY <2>5 DEF TypeOK, Notify, SupPublish
    <3> QED BY <2>5, <3>2, <3>3, <3>4 DEF TypeOK, SupPublish
  <2>6. CASE SupInterrupted(r)
    BY <2>6 DEF TypeOK, SupPcs, InAttempt, Awaiting, Leaving, AttemptTyped, SupInterrupted, SupMoves
  <2>7. CASE SupFailsTransient(r)
    BY <2>7 DEF TypeOK, SupPcs, InAttempt, Awaiting, Leaving, AttemptTyped, SupFailsTransient,
       SupMoves, CancelOnFailure
  <2>8. CASE SupFailsFatal(r)
    BY <2>8 DEF TypeOK, SupPcs, InAttempt, Awaiting, Leaving, AttemptTyped, SupFailsFatal, SupMoves
  <2>9. CASE SupOffline(r)
    BY <2>9 DEF TypeOK, SupPcs, InAttempt, Awaiting, Leaving, AttemptTyped, SupOffline,
       SupMoves, GoOffline, Notify
  <2>10. CASE SupCancel(r)
    BY <2>10 DEF TypeOK, SupPcs, InAttempt, Awaiting, Leaving, AttemptTyped, SupCancel, SupMoves
  <2>11. CASE SupJoin(r)
    BY <2>11 DEF TypeOK, SupPcs, InAttempt, Awaiting, Leaving, AttemptTyped, SupJoin, SupMoves
  <2>12. CASE SupClose(r)
    BY <2>12 DEF TypeOK, SupPcs, InAttempt, Awaiting, Leaving, AttemptTyped, SupClose,
       SupMoves, CloseTransport
  <2>13. CASE SupDecide(r)
    BY <2>13 DEF TypeOK, SupPcs, InAttempt, Awaiting, Leaving, AttemptTyped, SupDecide, SupMoves
  <2>14. CASE SupBackoff(r)
    BY <2>14 DEF TypeOK, SupPcs, InAttempt, Awaiting, Leaving, AttemptTyped, SupBackoff, SupMoves
  <2>15. CASE SupStop(r)
    BY <2>15 DEF TypeOK, SupPcs, InAttempt, Awaiting, Leaving, AttemptTyped, SupStop,
       SupMoves, CancelToken
  <2>16. CASE SupStopPublish(r)
    BY <2>16 DEF TypeOK, SupPcs, InAttempt, Awaiting, Leaving, AttemptTyped, SupStopPublish,
       SupMoves, PublishStopped, Notify
  <2>17. CASE SupHandlers(r)
    BY <2>17 DEF TypeOK, SupPcs, InAttempt, Awaiting, Leaving, AttemptTyped, SupHandlers,
       SupMoves, DropHandlers
  <2>18. CASE SupUnlock(r)
    BY <2>18 DEF TypeOK, SupPcs, InAttempt, Awaiting, Leaving, AttemptTyped, SupUnlock, SupMoves
  <2> QED BY <1>2, <2>1, <2>2, <2>3, <2>4, <2>5, <2>6, <2>7, <2>8, <2>9, <2>10, <2>11, <2>12,
       <2>13, <2>14, <2>15, <2>16, <2>17, <2>18 DEF Supervise
<1>3. ASSUME NEW g \in Generations, Session(g) PROVE TypeOK'
  <2>1. CASE ReadLoopEnds(g)
    BY <2>1 DEF TypeOK, AttemptTyped, ReadLoopEnds, WorkerEnds
  <2>2. CASE KeepaliveEnds(g)
    BY <2>2 DEF TypeOK, AttemptTyped, KeepaliveEnds, WorkerEnds
  <2>3. CASE ServerReconnect(g)
    BY <2>3 DEF TypeOK, AttemptTyped, ServerReconnect
  <2> QED BY <1>3, <2>1, <2>2, <2>3 DEF Session
<1>4. ASSUME NEW c \in Callers, Disconnect(c) PROVE TypeOK'
  <2>1. CASE DisconnectStop(c)
    BY <2>1 DEF TypeOK, CallerPcs, AttemptTyped, DisconnectStop, CancelToken
  <2>2. CASE DisconnectPublish(c)
    BY <2>2 DEF TypeOK, CallerPcs, AttemptTyped, DisconnectPublish, PublishStopped, Notify
  <2>3. CASE DisconnectLock(c)
    BY <2>3 DEF TypeOK, CallerPcs, AttemptTyped, DisconnectLock, LockIsFree
  <2>4. CASE DisconnectReturn(c)
    BY <2>4 DEF TypeOK, CallerPcs, AttemptTyped, DisconnectReturn
  <2> QED BY <1>4, <2>1, <2>2, <2>3, <2>4 DEF Disconnect
<1>5. ASSUME NEW h \in Handlers, Handle(h) PROVE TypeOK'
  <2>1. CASE HandlerReturns(h)
    BY <2>1 DEF TypeOK, CallerPcs, AttemptTyped, HandlerReturns
  <2>2. CASE HandlerAborted(h)
    BY <2>2 DEF TypeOK, CallerPcs, AttemptTyped, HandlerAborted
  <2>3. ASSUME NEW r \in Runners, SupDispatch(r, h) PROVE TypeOK'
    BY <2>3 DEF TypeOK, CallerPcs, AttemptTyped, SupDispatch
  <2> QED BY <1>5, <2>1, <2>2, <2>3 DEF Handle
<1>6. ASSUME NEW s \in Senders, Send(s) PROVE TypeOK'
  <2>1. CASE SendStart(s)
    BY <2>1 DEF TypeOK, SenderPcs, AttemptTyped, SendStart
  <2>2. CASE SendLooks(s)
    <3>1. state.tag = "Ready" => state.gen \in 0 .. MaxAttempts
      BY DEF TypeOK, Offline, Stopped, Generations
    <3>2. conn' \in [Senders -> 0 .. MaxAttempts]
      BY <2>2, <3>1 DEF TypeOK, SendLooks
    <3>3. sendPc' \in [Senders -> SenderPcs]
      BY <2>2 DEF TypeOK, SenderPcs, SendLooks
    <3>4. /\ sendOutcome' \in [Senders -> {"none", "Ok", "ConnectionClosed", "Error"}]
          /\ dirty' \in [Senders -> BOOLEAN]
      BY <2>2 DEF TypeOK, SendLooks
    <3> QED BY <2>2, <3>2, <3>3, <3>4 DEF TypeOK, SendLooks
  <2>3. CASE SendAnswered(s)
    BY <2>3 DEF TypeOK, SenderPcs, AttemptTyped, SendAnswered
  <2>4. CASE SendReplays(s)
    BY <2>4 DEF TypeOK, SenderPcs, AttemptTyped, SendReplays, CancelOnFailure, Replay
  <2> QED BY <1>6, <2>1, <2>2, <2>3, <2>4 DEF Send
<1> QED BY <1>1, <1>2, <1>3, <1>4, <1>5, <1>6 DEF Next

-----------------------------------------------------------------------------
\* run_lock has one holder, and the supervisor is it until its last step.
LEMMA LockStep == ASSUME TypeOK, LockInv, Next PROVE LockInv'
<1>1. ASSUME NEW r \in Runners, RunCall(r) PROVE LockInv'
  <2>1. CASE RunTryLock(r)
    BY <2>1, NamesAssumption DEF LockInv, Active, TypeOK, RunTryLock, Rejected, LockIsFree
  <2>2. CASE RunSpawn(r)
    BY <2>2, NamesAssumption DEF LockInv, Active, TypeOK, RunSpawn
  <2>3. CASE RunDropped(r)
    BY <2>3, NamesAssumption DEF LockInv, Active, TypeOK, RunDropped, CancelToken
  <2>4. CASE RunJoined(r)
    BY <2>4, NamesAssumption DEF LockInv, Active, TypeOK, RunJoined, CancelToken
  <2>5. CASE RunLeaves(r)
    BY <2>5, NamesAssumption DEF LockInv, Active, TypeOK, RunLeaves, PublishStopped, Notify
  <2> QED BY <1>1, <2>1, <2>2, <2>3, <2>4, <2>5 DEF RunCall
<1>2. ASSUME NEW r \in Runners, Supervise(r) PROVE LockInv'
  <2>1. CASE SupBegin(r)
    BY <2>1, NamesAssumption DEF LockInv, Active, TypeOK, SupBegin, SupMoves
  <2>2. CASE SupConnected(r)
    BY <2>2, NamesAssumption DEF LockInv, Active, TypeOK, SupConnected, SupMoves
  <2>3. CASE SupSessionInit(r)
    BY <2>3, NamesAssumption DEF LockInv, Active, TypeOK, SupSessionInit, SupMoves
  <2>4. CASE SupLogin(r)
    BY <2>4, NamesAssumption DEF LockInv, Active, TypeOK, SupLogin, SupMoves
  <2>5. CASE SupPublish(r)
    BY <2>5, NamesAssumption DEF LockInv, Active, TypeOK, SupPublish, SupMoves, CanPublish,
       Ready, Notify
  <2>6. CASE SupInterrupted(r)
    BY <2>6, NamesAssumption DEF LockInv, Active, TypeOK, SupInterrupted, SupMoves, Awaiting
  <2>7. CASE SupFailsTransient(r)
    BY <2>7, NamesAssumption DEF LockInv, Active, TypeOK, SupFailsTransient, SupMoves,
       CancelOnFailure
  <2>8. CASE SupFailsFatal(r)
    BY <2>8, NamesAssumption DEF LockInv, Active, TypeOK, SupFailsFatal, SupMoves
  <2>9. CASE SupOffline(r)
    BY <2>9, NamesAssumption DEF LockInv, Active, TypeOK, SupOffline, SupMoves, GoOffline, Notify
  <2>10. CASE SupCancel(r)
    BY <2>10, NamesAssumption DEF LockInv, Active, TypeOK, SupCancel, SupMoves
  <2>11. CASE SupJoin(r)
    BY <2>11, NamesAssumption DEF LockInv, Active, TypeOK, SupJoin, SupMoves
  <2>12. CASE SupClose(r)
    BY <2>12, NamesAssumption DEF LockInv, Active, TypeOK, SupClose, SupMoves, CloseTransport
  <2>13. CASE SupDecide(r)
    BY <2>13, NamesAssumption DEF LockInv, Active, TypeOK, SupDecide, SupMoves
  <2>14. CASE SupBackoff(r)
    BY <2>14, NamesAssumption DEF LockInv, Active, TypeOK, SupBackoff, SupMoves
  <2>15. CASE SupStop(r)
    BY <2>15, NamesAssumption DEF LockInv, Active, TypeOK, SupStop, SupMoves, CancelToken
  <2>16. CASE SupStopPublish(r)
    BY <2>16, NamesAssumption DEF LockInv, Active, TypeOK, SupStopPublish, SupMoves,
       PublishStopped, Notify
  <2>17. CASE SupHandlers(r)
    BY <2>17, NamesAssumption DEF LockInv, Active, TypeOK, SupHandlers, SupMoves, DropHandlers
  <2>18. CASE SupUnlock(r)
    BY <2>18, NamesAssumption DEF LockInv, Active, TypeOK, SupUnlock, SupMoves
  <2> QED BY <1>2, <2>1, <2>2, <2>3, <2>4, <2>5, <2>6, <2>7, <2>8, <2>9, <2>10, <2>11, <2>12,
       <2>13, <2>14, <2>15, <2>16, <2>17, <2>18 DEF Supervise
<1>3. ASSUME NEW g \in Generations, Session(g) PROVE LockInv'
  BY <1>3 DEF LockInv, Active, Session, ReadLoopEnds, KeepaliveEnds, ServerReconnect, WorkerEnds
<1>4. ASSUME NEW c \in Callers, Disconnect(c) PROVE LockInv'
  <2>1. CASE DisconnectStop(c)
    BY <2>1, NamesAssumption DEF LockInv, Active, TypeOK, DisconnectStop, CancelToken
  <2>2. CASE DisconnectPublish(c)
    BY <2>2, NamesAssumption DEF LockInv, Active, TypeOK, DisconnectPublish, PublishStopped, Notify
  <2>3. CASE DisconnectLock(c)
    BY <2>3, NamesAssumption DEF LockInv, Active, TypeOK, DisconnectLock, LockIsFree
  <2>4. CASE DisconnectReturn(c)
    BY <2>4, NamesAssumption DEF LockInv, Active, TypeOK, DisconnectReturn
  <2> QED BY <1>4, <2>1, <2>2, <2>3, <2>4 DEF Disconnect
<1>5. ASSUME NEW h \in Handlers, Handle(h) PROVE LockInv'
  <2>1. CASE HandlerReturns(h)
    BY <2>1, NamesAssumption DEF LockInv, Active, TypeOK, HandlerReturns
  <2>2. CASE HandlerAborted(h)
    BY <2>2, NamesAssumption DEF LockInv, Active, TypeOK, HandlerAborted
  <2>3. ASSUME NEW r \in Runners, SupDispatch(r, h) PROVE LockInv'
    BY <2>3, NamesAssumption DEF LockInv, Active, TypeOK, SupDispatch
  <2> QED BY <1>5, <2>1, <2>2, <2>3 DEF Handle
<1>6. ASSUME NEW s \in Senders, Send(s) PROVE LockInv'
  BY <1>6 DEF LockInv, Active, Send, SendStart, SendLooks, SendAnswered, SendReplays,
     CancelOnFailure, Replay
<1> QED BY <1>1, <1>2, <1>3, <1>4, <1>5, <1>6 DEF Next

-----------------------------------------------------------------------------
\* The new generation is only created once the previous one has nothing live: a
\* live one would have a supervisor in its attempt, and there is only one supervisor.
LEMMA SessionStep == ASSUME TypeOK, LockInv, SessionInv, Next PROVE SessionInv'
<1>1. ASSUME NEW r \in Runners, RunCall(r) PROVE SessionInv'
  <2>1. CASE RunSpawn(r)
    BY <2>1 DEF SessionInv, OneLiveSession, Live, TypeOK, LockInv, RunSpawn, InAttempt, Awaiting
  <2>2. CASE RunTryLock(r) \/ RunDropped(r) \/ RunJoined(r) \/ RunLeaves(r)
    BY <2>2 DEF SessionInv, OneLiveSession, Live, RunTryLock, RunDropped, RunJoined,
       RunLeaves, Rejected, LockIsFree, CancelToken, PublishStopped, Notify
  <2> QED BY <1>1, <2>1, <2>2 DEF RunCall
<1>2. ASSUME NEW r \in Runners, Supervise(r) PROVE SessionInv'
  <2>1. CASE SupBegin(r)
    BY <2>1 DEF SessionInv, OneLiveSession, Live, TypeOK, LockInv, SupBegin, SupMoves,
       InAttempt, Awaiting, Active
  <2>2. CASE SupConnected(r)
    BY <2>2 DEF SessionInv, OneLiveSession, Live, TypeOK, LockInv, SupConnected, SupMoves,
       InAttempt, Awaiting, Active
  <2>3. CASE SupSessionInit(r)
    BY <2>3 DEF SessionInv, OneLiveSession, Live, TypeOK, LockInv, SupSessionInit, SupMoves,
       InAttempt, Awaiting, Active
  <2>4. CASE SupLogin(r)
    BY <2>4 DEF SessionInv, OneLiveSession, Live, TypeOK, LockInv, SupLogin, SupMoves,
       InAttempt, Awaiting, Active
  <2>5. CASE SupPublish(r)
    BY <2>5 DEF SessionInv, OneLiveSession, Live, TypeOK, LockInv, SupPublish, SupMoves,
       CanPublish, Ready, Notify, InAttempt, Awaiting, Active
  <2>6. CASE SupInterrupted(r)
    BY <2>6 DEF SessionInv, OneLiveSession, Live, TypeOK, LockInv, SupInterrupted, SupMoves,
       InAttempt, Awaiting, Active
  <2>7. CASE SupFailsTransient(r)
    BY <2>7 DEF SessionInv, OneLiveSession, Live, TypeOK, LockInv, SupFailsTransient,
       SupMoves, CancelOnFailure, InAttempt, Awaiting, Active
  <2>8. CASE SupFailsFatal(r)
    BY <2>8 DEF SessionInv, OneLiveSession, Live, TypeOK, LockInv, SupFailsFatal, SupMoves,
       InAttempt, Awaiting, Active
  <2>9. CASE SupOffline(r)
    BY <2>9 DEF SessionInv, OneLiveSession, Live, TypeOK, LockInv, SupOffline, SupMoves,
       GoOffline, Notify, InAttempt, Awaiting, Active
  <2>10. CASE SupCancel(r)
    BY <2>10 DEF SessionInv, OneLiveSession, Live, TypeOK, LockInv, SupCancel, SupMoves,
       InAttempt, Awaiting, Active
  <2>11. CASE SupJoin(r)
    BY <2>11 DEF SessionInv, OneLiveSession, Live, TypeOK, LockInv, SupJoin, SupMoves,
       InAttempt, Awaiting, Active, Generations
  <2>12. CASE SupClose(r)
    BY <2>12 DEF SessionInv, OneLiveSession, Live, TypeOK, LockInv, SupClose, SupMoves,
       CloseTransport, InAttempt, Awaiting, Active
  <2>13. CASE SupDecide(r)
    BY <2>13 DEF SessionInv, OneLiveSession, Live, TypeOK, LockInv, SupDecide, SupMoves,
       InAttempt, Awaiting, Active
  <2>14. CASE SupBackoff(r)
    BY <2>14 DEF SessionInv, OneLiveSession, Live, TypeOK, LockInv, SupBackoff, SupMoves,
       InAttempt, Awaiting, Active
  <2>15. CASE SupStop(r)
    BY <2>15 DEF SessionInv, OneLiveSession, Live, TypeOK, LockInv, SupStop, SupMoves,
       CancelToken, InAttempt, Awaiting, Active
  <2>16. CASE SupStopPublish(r)
    BY <2>16 DEF SessionInv, OneLiveSession, Live, TypeOK, LockInv, SupStopPublish, SupMoves,
       PublishStopped, Notify, InAttempt, Awaiting, Active
  <2>17. CASE SupHandlers(r)
    BY <2>17 DEF SessionInv, OneLiveSession, Live, TypeOK, LockInv, SupHandlers, SupMoves,
       DropHandlers, InAttempt, Awaiting, Active
  <2>18. CASE SupUnlock(r)
    BY <2>18 DEF SessionInv, OneLiveSession, Live, TypeOK, LockInv, SupUnlock, SupMoves,
       InAttempt, Awaiting, Active
  <2> QED BY <1>2, <2>1, <2>2, <2>3, <2>4, <2>5, <2>6, <2>7, <2>8, <2>9, <2>10, <2>11, <2>12,
       <2>13, <2>14, <2>15, <2>16, <2>17, <2>18 DEF Supervise
<1>3. ASSUME NEW g \in Generations, Session(g) PROVE SessionInv'
  <2>1. CASE ReadLoopEnds(g)
    BY <2>1 DEF SessionInv, OneLiveSession, Live, TypeOK, LockInv, ReadLoopEnds, WorkerEnds
  <2>2. CASE KeepaliveEnds(g)
    BY <2>2 DEF SessionInv, OneLiveSession, Live, TypeOK, LockInv, KeepaliveEnds, WorkerEnds
  <2>3. CASE ServerReconnect(g)
    BY <2>3 DEF SessionInv, OneLiveSession, Live, ServerReconnect
  <2> QED BY <1>3, <2>1, <2>2, <2>3 DEF Session
<1>4. ASSUME NEW c \in Callers, Disconnect(c) PROVE SessionInv'
  BY <1>4 DEF SessionInv, OneLiveSession, Live, Disconnect, DisconnectStop, DisconnectPublish,
     DisconnectLock, DisconnectReturn, CancelToken, PublishStopped, Notify, LockIsFree
<1>5. ASSUME NEW h \in Handlers, Handle(h) PROVE SessionInv'
  BY <1>5 DEF SessionInv, OneLiveSession, Live, Handle, HandlerReturns, HandlerAborted, SupDispatch
<1>6. ASSUME NEW s \in Senders, Send(s) PROVE SessionInv'
  BY <1>6 DEF SessionInv, OneLiveSession, Live, Send, SendStart, SendLooks, SendAnswered,
     SendReplays, CancelOnFailure, Replay
<1> QED BY <1>1, <1>2, <1>3, <1>4, <1>5, <1>6 DEF Next

-----------------------------------------------------------------------------
\* The channel is taken offline before the session it holds is torn down.
LEMMA ReadyStep == ASSUME TypeOK, LockInv, SessionInv, ReadyIsUsable, Next PROVE ReadyIsUsable'
<1>1. ASSUME NEW r \in Runners, RunCall(r) PROVE ReadyIsUsable'
  <2>1. CASE RunSpawn(r)
    BY <2>1 DEF ReadyIsUsable, TypeOK, LockInv, SessionInv, RunSpawn
  <2>2. CASE RunLeaves(r)
    BY <2>2 DEF ReadyIsUsable, TypeOK, LockInv, SessionInv, RunLeaves, PublishStopped, Notify,
       Offline, Stopped
  <2>3. CASE RunTryLock(r) \/ RunDropped(r) \/ RunJoined(r)
    BY <2>3 DEF ReadyIsUsable, RunTryLock, RunDropped, RunJoined, Rejected, LockIsFree, CancelToken
  <2> QED BY <1>1, <2>1, <2>2, <2>3 DEF RunCall
<1>2. ASSUME NEW r \in Runners, Supervise(r) PROVE ReadyIsUsable'
  <2>1. CASE SupBegin(r)
    BY <2>1 DEF ReadyIsUsable, TypeOK, LockInv, SessionInv, SupBegin, SupMoves, InAttempt,
       Awaiting, Active
  <2>2. CASE SupConnected(r)
    BY <2>2 DEF ReadyIsUsable, TypeOK, LockInv, SessionInv, SupConnected, SupMoves, InAttempt,
       Awaiting, Active
  <2>3. CASE SupSessionInit(r)
    BY <2>3 DEF ReadyIsUsable, TypeOK, LockInv, SessionInv, SupSessionInit, SupMoves,
       InAttempt, Awaiting, Active
  <2>4. CASE SupLogin(r)
    BY <2>4 DEF ReadyIsUsable, TypeOK, LockInv, SessionInv, SupLogin, SupMoves, InAttempt,
       Awaiting, Active
  <2>5. CASE SupPublish(r)
    BY <2>5 DEF ReadyIsUsable, TypeOK, LockInv, SessionInv, SupPublish, SupMoves, CanPublish,
       Ready, Notify, InAttempt, Awaiting, Active
  <2>6. CASE SupInterrupted(r)
    BY <2>6 DEF ReadyIsUsable, TypeOK, LockInv, SessionInv, SupInterrupted, SupMoves,
       InAttempt, Awaiting, Active
  <2>7. CASE SupFailsTransient(r)
    BY <2>7 DEF ReadyIsUsable, TypeOK, LockInv, SessionInv, SupFailsTransient, SupMoves,
       CancelOnFailure, InAttempt, Awaiting, Active
  <2>8. CASE SupFailsFatal(r)
    BY <2>8 DEF ReadyIsUsable, TypeOK, LockInv, SessionInv, SupFailsFatal, SupMoves,
       InAttempt, Awaiting, Active
  <2>9. CASE SupOffline(r)
    BY <2>9 DEF ReadyIsUsable, TypeOK, LockInv, SessionInv, SupOffline, SupMoves, GoOffline,
       Notify, Offline, Stopped, InAttempt, Active
  <2>10. CASE SupCancel(r)
    BY <2>10 DEF ReadyIsUsable, TypeOK, LockInv, SessionInv, SupCancel, SupMoves, InAttempt,
       Awaiting, Active
  <2>11. CASE SupJoin(r)
    BY <2>11 DEF ReadyIsUsable, TypeOK, LockInv, SessionInv, SupJoin, SupMoves, InAttempt,
       Awaiting, Active
  <2>12. CASE SupClose(r)
    BY <2>12 DEF ReadyIsUsable, TypeOK, LockInv, SessionInv, SupClose, SupMoves,
       CloseTransport, InAttempt, Awaiting, Active
  <2>13. CASE SupDecide(r)
    BY <2>13 DEF ReadyIsUsable, TypeOK, LockInv, SessionInv, SupDecide, SupMoves, InAttempt,
       Awaiting, Active
  <2>14. CASE SupBackoff(r)
    BY <2>14 DEF ReadyIsUsable, TypeOK, LockInv, SessionInv, SupBackoff, SupMoves, InAttempt,
       Awaiting, Active
  <2>15. CASE SupStop(r)
    BY <2>15 DEF ReadyIsUsable, TypeOK, LockInv, SessionInv, SupStop, SupMoves, CancelToken,
       InAttempt, Awaiting, Active
  <2>16. CASE SupStopPublish(r)
    BY <2>16 DEF ReadyIsUsable, TypeOK, LockInv, SessionInv, SupStopPublish, SupMoves,
       PublishStopped, Notify, Offline, Stopped
  <2>17. CASE SupHandlers(r)
    BY <2>17 DEF ReadyIsUsable, TypeOK, LockInv, SessionInv, SupHandlers, SupMoves,
       DropHandlers, InAttempt, Awaiting, Active
  <2>18. CASE SupUnlock(r)
    BY <2>18 DEF ReadyIsUsable, TypeOK, LockInv, SessionInv, SupUnlock, SupMoves, InAttempt,
       Awaiting, Active
  <2> QED BY <1>2, <2>1, <2>2, <2>3, <2>4, <2>5, <2>6, <2>7, <2>8, <2>9, <2>10, <2>11, <2>12,
       <2>13, <2>14, <2>15, <2>16, <2>17, <2>18 DEF Supervise
<1>3. ASSUME NEW g \in Generations, Session(g) PROVE ReadyIsUsable'
  BY <1>3 DEF ReadyIsUsable, Session, ReadLoopEnds, KeepaliveEnds, ServerReconnect, WorkerEnds
<1>4. ASSUME NEW c \in Callers, Disconnect(c) PROVE ReadyIsUsable'
  <2>1. CASE DisconnectPublish(c)
    BY <2>1 DEF ReadyIsUsable, TypeOK, LockInv, SessionInv, DisconnectPublish, PublishStopped,
       Notify, Offline, Stopped
  <2>2. CASE DisconnectStop(c) \/ DisconnectLock(c) \/ DisconnectReturn(c)
    BY <2>2 DEF ReadyIsUsable, DisconnectStop, DisconnectLock, DisconnectReturn, CancelToken,
       LockIsFree
  <2> QED BY <1>4, <2>1, <2>2 DEF Disconnect
<1>5. ASSUME NEW h \in Handlers, Handle(h) PROVE ReadyIsUsable'
  BY <1>5 DEF ReadyIsUsable, Handle, HandlerReturns, HandlerAborted, SupDispatch
<1>6. ASSUME NEW s \in Senders, Send(s) PROVE ReadyIsUsable'
  BY <1>6 DEF ReadyIsUsable, Send, SendStart, SendLooks, SendAnswered, SendReplays,
     CancelOnFailure, Replay
<1> QED BY <1>1, <1>2, <1>3, <1>4, <1>5, <1>6 DEF Next

-----------------------------------------------------------------------------
\* The channel says Stopped only after the token is cancelled, and for good.
LEMMA StopStep == ASSUME TypeOK, StopInv, Next PROVE StopInv'
<1>1. ASSUME NEW r \in Runners, RunCall(r) PROVE StopInv'
  <2>1. CASE RunTryLock(r)
    BY <2>1 DEF StopInv, TypeOK, RunTryLock, Rejected, LockIsFree
  <2>2. CASE RunSpawn(r)
    BY <2>2 DEF StopInv, TypeOK, RunSpawn
  <2>3. CASE RunDropped(r)
    BY <2>3 DEF StopInv, TypeOK, RunDropped, CancelToken
  <2>4. CASE RunJoined(r)
    BY <2>4 DEF StopInv, TypeOK, RunJoined, CancelToken
  <2>5. CASE RunLeaves(r)
    BY <2>5 DEF StopInv, TypeOK, RunLeaves, PublishStopped, Notify
  <2> QED BY <1>1, <2>1, <2>2, <2>3, <2>4, <2>5 DEF RunCall
<1>2. ASSUME NEW r \in Runners, Supervise(r) PROVE StopInv'
  <2>1. CASE SupBegin(r)
    BY <2>1 DEF StopInv, TypeOK, SupBegin, SupMoves, Awaiting, Offline, Stopped
  <2>2. CASE SupConnected(r)
    BY <2>2 DEF StopInv, TypeOK, SupConnected, SupMoves, Awaiting, Offline, Stopped
  <2>3. CASE SupSessionInit(r)
    BY <2>3 DEF StopInv, TypeOK, SupSessionInit, SupMoves, Awaiting, Offline, Stopped
  <2>4. CASE SupLogin(r)
    BY <2>4 DEF StopInv, TypeOK, SupLogin, SupMoves, Awaiting, Offline, Stopped
  <2>5. CASE SupPublish(r)
    BY <2>5 DEF StopInv, TypeOK, SupPublish, SupMoves, CanPublish, Ready, Notify, Awaiting,
       Offline, Stopped
  <2>6. CASE SupInterrupted(r)
    BY <2>6 DEF StopInv, TypeOK, SupInterrupted, SupMoves, Awaiting, Offline, Stopped
  <2>7. CASE SupFailsTransient(r)
    BY <2>7 DEF StopInv, TypeOK, SupFailsTransient, SupMoves, CancelOnFailure, Awaiting,
       Offline, Stopped
  <2>8. CASE SupFailsFatal(r)
    BY <2>8 DEF StopInv, TypeOK, SupFailsFatal, SupMoves, Awaiting, Offline, Stopped
  <2>9. CASE SupOffline(r)
    BY <2>9 DEF StopInv, TypeOK, SupOffline, SupMoves, GoOffline, Notify, Awaiting, Offline, Stopped
  <2>10. CASE SupCancel(r)
    BY <2>10 DEF StopInv, TypeOK, SupCancel, SupMoves, Awaiting, Offline, Stopped
  <2>11. CASE SupJoin(r)
    BY <2>11 DEF StopInv, TypeOK, SupJoin, SupMoves, Awaiting, Offline, Stopped
  <2>12. CASE SupClose(r)
    BY <2>12 DEF StopInv, TypeOK, SupClose, SupMoves, CloseTransport, Awaiting, Offline, Stopped
  <2>13. CASE SupDecide(r)
    BY <2>13 DEF StopInv, TypeOK, SupDecide, SupMoves, Awaiting, Offline, Stopped
  <2>14. CASE SupBackoff(r)
    BY <2>14 DEF StopInv, TypeOK, SupBackoff, SupMoves, Awaiting, Offline, Stopped
  <2>15. CASE SupStop(r)
    BY <2>15 DEF StopInv, TypeOK, SupStop, SupMoves, CancelToken, Awaiting, Offline, Stopped
  <2>16. CASE SupStopPublish(r)
    BY <2>16 DEF StopInv, TypeOK, SupStopPublish, SupMoves, PublishStopped, Notify, Awaiting,
       Offline, Stopped
  <2>17. CASE SupHandlers(r)
    BY <2>17 DEF StopInv, TypeOK, SupHandlers, SupMoves, DropHandlers, Awaiting, Offline, Stopped
  <2>18. CASE SupUnlock(r)
    BY <2>18 DEF StopInv, TypeOK, SupUnlock, SupMoves, Awaiting, Offline, Stopped
  <2> QED BY <1>2, <2>1, <2>2, <2>3, <2>4, <2>5, <2>6, <2>7, <2>8, <2>9, <2>10, <2>11, <2>12,
       <2>13, <2>14, <2>15, <2>16, <2>17, <2>18 DEF Supervise
<1>3. ASSUME NEW g \in Generations, Session(g) PROVE StopInv'
  BY <1>3 DEF StopInv, Session, ReadLoopEnds, KeepaliveEnds, ServerReconnect, WorkerEnds
<1>4. ASSUME NEW c \in Callers, Disconnect(c) PROVE StopInv'
  <2>1. CASE DisconnectStop(c)
    BY <2>1 DEF StopInv, TypeOK, DisconnectStop, CancelToken
  <2>2. CASE DisconnectPublish(c)
    BY <2>2 DEF StopInv, TypeOK, DisconnectPublish, PublishStopped, Notify
  <2>3. CASE DisconnectLock(c)
    BY <2>3 DEF StopInv, TypeOK, DisconnectLock, LockIsFree
  <2>4. CASE DisconnectReturn(c)
    BY <2>4 DEF StopInv, TypeOK, DisconnectReturn
  <2> QED BY <1>4, <2>1, <2>2, <2>3, <2>4 DEF Disconnect
<1>5. ASSUME NEW h \in Handlers, Handle(h) PROVE StopInv'
  <2>1. CASE HandlerReturns(h)
    BY <2>1 DEF StopInv, TypeOK, HandlerReturns
  <2>2. CASE HandlerAborted(h)
    BY <2>2 DEF StopInv, TypeOK, HandlerAborted
  <2>3. ASSUME NEW r \in Runners, SupDispatch(r, h) PROVE StopInv'
    BY <2>3 DEF StopInv, TypeOK, SupDispatch
  <2> QED BY <1>5, <2>1, <2>2, <2>3 DEF Handle
<1>6. ASSUME NEW s \in Senders, Send(s) PROVE StopInv'
  BY <1>6 DEF StopInv, Send, SendStart, SendLooks, SendAnswered, SendReplays, CancelOnFailure,
     Replay
<1> QED BY <1>1, <1>2, <1>3, <1>4, <1>5, <1>6 DEF Next

-----------------------------------------------------------------------------
\* A stop always goes back to a caller or to a fatal attempt.
LEMMA CauseStep == ASSUME TypeOK, StopInv, CauseInv, Next PROVE CauseInv'
<1>1. ASSUME NEW r \in Runners, RunCall(r) PROVE CauseInv'
  <2>1. CASE RunTryLock(r)
    BY <2>1 DEF CauseInv, TypeOK, StopInv, RunTryLock, Rejected, LockIsFree
  <2>2. CASE RunSpawn(r)
    BY <2>2 DEF CauseInv, TypeOK, StopInv, RunSpawn
  <2>3. CASE RunDropped(r)
    BY <2>3 DEF CauseInv, TypeOK, StopInv, RunDropped, CancelToken
  <2>4. CASE RunJoined(r)
    BY <2>4 DEF CauseInv, TypeOK, StopInv, RunJoined, CancelToken
  <2>5. CASE RunLeaves(r)
    BY <2>5 DEF CauseInv, TypeOK, StopInv, RunLeaves, PublishStopped, Notify
  <2> QED BY <1>1, <2>1, <2>2, <2>3, <2>4, <2>5 DEF RunCall
<1>2. ASSUME NEW r \in Runners, Supervise(r) PROVE CauseInv'
  <2>1. CASE SupBegin(r)
    BY <2>1 DEF CauseInv, TypeOK, StopInv, SupBegin, SupMoves, Leaving, Awaiting
  <2>2. CASE SupConnected(r)
    BY <2>2 DEF CauseInv, TypeOK, StopInv, SupConnected, SupMoves, Leaving, Awaiting
  <2>3. CASE SupSessionInit(r)
    BY <2>3 DEF CauseInv, TypeOK, StopInv, SupSessionInit, SupMoves, Leaving, Awaiting
  <2>4. CASE SupLogin(r)
    BY <2>4 DEF CauseInv, TypeOK, StopInv, SupLogin, SupMoves, Leaving, Awaiting
  <2>5. CASE SupPublish(r)
    BY <2>5 DEF CauseInv, TypeOK, StopInv, SupPublish, SupMoves, CanPublish, Ready, Notify,
       Leaving, Awaiting
  <2>6. CASE SupInterrupted(r)
    BY <2>6 DEF CauseInv, TypeOK, StopInv, SupInterrupted, SupMoves, Leaving, Awaiting
  <2>7. CASE SupFailsTransient(r)
    BY <2>7 DEF CauseInv, TypeOK, StopInv, SupFailsTransient, SupMoves, CancelOnFailure,
       Leaving, Awaiting
  <2>8. CASE SupFailsFatal(r)
    BY <2>8 DEF CauseInv, TypeOK, StopInv, SupFailsFatal, SupMoves, Leaving, Awaiting
  <2>9. CASE SupOffline(r)
    BY <2>9 DEF CauseInv, TypeOK, StopInv, SupOffline, SupMoves, GoOffline, Notify, Leaving,
       Awaiting
  <2>10. CASE SupCancel(r)
    BY <2>10 DEF CauseInv, TypeOK, StopInv, SupCancel, SupMoves, Leaving, Awaiting
  <2>11. CASE SupJoin(r)
    BY <2>11 DEF CauseInv, TypeOK, StopInv, SupJoin, SupMoves, Leaving, Awaiting
  <2>12. CASE SupClose(r)
    BY <2>12 DEF CauseInv, TypeOK, StopInv, SupClose, SupMoves, CloseTransport, Leaving, Awaiting
  <2>13. CASE SupDecide(r)
    BY <2>13 DEF CauseInv, TypeOK, StopInv, SupDecide, SupMoves, Leaving, Awaiting
  <2>14. CASE SupBackoff(r)
    BY <2>14 DEF CauseInv, TypeOK, StopInv, SupBackoff, SupMoves, Leaving, Awaiting
  <2>15. CASE SupStop(r)
    BY <2>15 DEF CauseInv, TypeOK, StopInv, SupStop, SupMoves, CancelToken, Leaving, Awaiting
  <2>16. CASE SupStopPublish(r)
    BY <2>16 DEF CauseInv, TypeOK, StopInv, SupStopPublish, SupMoves, PublishStopped, Notify,
       Leaving, Awaiting
  <2>17. CASE SupHandlers(r)
    BY <2>17 DEF CauseInv, TypeOK, StopInv, SupHandlers, SupMoves, DropHandlers, Leaving, Awaiting
  <2>18. CASE SupUnlock(r)
    BY <2>18 DEF CauseInv, TypeOK, StopInv, SupUnlock, SupMoves, Leaving, Awaiting
  <2> QED BY <1>2, <2>1, <2>2, <2>3, <2>4, <2>5, <2>6, <2>7, <2>8, <2>9, <2>10, <2>11, <2>12,
       <2>13, <2>14, <2>15, <2>16, <2>17, <2>18 DEF Supervise
<1>3. ASSUME NEW g \in Generations, Session(g) PROVE CauseInv'
  BY <1>3 DEF CauseInv, Session, ReadLoopEnds, KeepaliveEnds, ServerReconnect, WorkerEnds
<1>4. ASSUME NEW c \in Callers, Disconnect(c) PROVE CauseInv'
  <2>1. CASE DisconnectStop(c)
    BY <2>1 DEF CauseInv, TypeOK, StopInv, DisconnectStop, CancelToken
  <2>2. CASE DisconnectPublish(c)
    BY <2>2 DEF CauseInv, TypeOK, StopInv, DisconnectPublish, PublishStopped, Notify
  <2>3. CASE DisconnectLock(c)
    BY <2>3 DEF CauseInv, TypeOK, StopInv, DisconnectLock, LockIsFree
  <2>4. CASE DisconnectReturn(c)
    BY <2>4 DEF CauseInv, TypeOK, StopInv, DisconnectReturn
  <2> QED BY <1>4, <2>1, <2>2, <2>3, <2>4 DEF Disconnect
<1>5. ASSUME NEW h \in Handlers, Handle(h) PROVE CauseInv'
  <2>1. CASE HandlerReturns(h)
    BY <2>1 DEF CauseInv, TypeOK, StopInv, HandlerReturns
  <2>2. CASE HandlerAborted(h)
    BY <2>2 DEF CauseInv, TypeOK, StopInv, HandlerAborted
  <2>3. ASSUME NEW r \in Runners, SupDispatch(r, h) PROVE CauseInv'
    BY <2>3 DEF CauseInv, TypeOK, StopInv, SupDispatch
  <2> QED BY <1>5, <2>1, <2>2, <2>3 DEF Handle
<1>6. ASSUME NEW s \in Senders, Send(s) PROVE CauseInv'
  BY <1>6 DEF CauseInv, Send, SendStart, SendLooks, SendAnswered, SendReplays,
     CancelOnFailure, Replay
<1> QED BY <1>1, <1>2, <1>3, <1>4, <1>5, <1>6 DEF Next

-----------------------------------------------------------------------------
\* handler_shutdown is cancelled by the supervisor after its attempts, or by a
\* disconnect() that holds the lock, so while no supervisor lives.
LEMMA HandlersStep == ASSUME TypeOK, LockInv, StopInv, HandlersOutliveReconnects, Next PROVE HandlersOutliveReconnects'
<1>1. ASSUME NEW r \in Runners, RunCall(r) PROVE HandlersOutliveReconnects'
  <2>1. CASE RunTryLock(r)
    BY <2>1, NamesAssumption DEF HandlersOutliveReconnects, TypeOK, LockInv, StopInv,
       RunTryLock, Rejected, LockIsFree
  <2>2. CASE RunSpawn(r)
    BY <2>2, NamesAssumption DEF HandlersOutliveReconnects, TypeOK, LockInv, StopInv, RunSpawn
  <2>3. CASE RunDropped(r)
    BY <2>3, NamesAssumption DEF HandlersOutliveReconnects, TypeOK, LockInv, StopInv,
       RunDropped, CancelToken
  <2>4. CASE RunJoined(r)
    BY <2>4, NamesAssumption DEF HandlersOutliveReconnects, TypeOK, LockInv, StopInv,
       RunJoined, CancelToken
  <2>5. CASE RunLeaves(r)
    BY <2>5 DEF HandlersOutliveReconnects, RunLeaves, PublishStopped, Notify
  <2> QED BY <1>1, <2>1, <2>2, <2>3, <2>4, <2>5 DEF RunCall
<1>2. ASSUME NEW r \in Runners, Supervise(r) PROVE HandlersOutliveReconnects'
  <2>1. CASE SupBegin(r)
    BY <2>1, NamesAssumption DEF HandlersOutliveReconnects, TypeOK, LockInv, StopInv,
       SupBegin, SupMoves, Awaiting, Active
  <2>2. CASE SupConnected(r)
    BY <2>2, NamesAssumption DEF HandlersOutliveReconnects, TypeOK, LockInv, StopInv,
       SupConnected, SupMoves, Awaiting, Active
  <2>3. CASE SupSessionInit(r)
    BY <2>3, NamesAssumption DEF HandlersOutliveReconnects, TypeOK, LockInv, StopInv,
       SupSessionInit, SupMoves, Awaiting, Active
  <2>4. CASE SupLogin(r)
    BY <2>4, NamesAssumption DEF HandlersOutliveReconnects, TypeOK, LockInv, StopInv,
       SupLogin, SupMoves, Awaiting, Active
  <2>5. CASE SupPublish(r)
    BY <2>5, NamesAssumption DEF HandlersOutliveReconnects, TypeOK, LockInv, StopInv,
       SupPublish, SupMoves, CanPublish, Ready, Notify, Awaiting, Active
  <2>6. CASE SupInterrupted(r)
    BY <2>6, NamesAssumption DEF HandlersOutliveReconnects, TypeOK, LockInv, StopInv,
       SupInterrupted, SupMoves, Awaiting, Active
  <2>7. CASE SupFailsTransient(r)
    BY <2>7, NamesAssumption DEF HandlersOutliveReconnects, TypeOK, LockInv, StopInv,
       SupFailsTransient, SupMoves, CancelOnFailure, Awaiting, Active
  <2>8. CASE SupFailsFatal(r)
    BY <2>8, NamesAssumption DEF HandlersOutliveReconnects, TypeOK, LockInv, StopInv,
       SupFailsFatal, SupMoves, Awaiting, Active
  <2>9. CASE SupOffline(r)
    BY <2>9, NamesAssumption DEF HandlersOutliveReconnects, TypeOK, LockInv, StopInv,
       SupOffline, SupMoves, GoOffline, Notify, Awaiting, Active
  <2>10. CASE SupCancel(r)
    BY <2>10, NamesAssumption DEF HandlersOutliveReconnects, TypeOK, LockInv, StopInv,
       SupCancel, SupMoves, Awaiting, Active
  <2>11. CASE SupJoin(r)
    BY <2>11, NamesAssumption DEF HandlersOutliveReconnects, TypeOK, LockInv, StopInv,
       SupJoin, SupMoves, Awaiting, Active
  <2>12. CASE SupClose(r)
    BY <2>12, NamesAssumption DEF HandlersOutliveReconnects, TypeOK, LockInv, StopInv,
       SupClose, SupMoves, CloseTransport, Awaiting, Active
  <2>13. CASE SupDecide(r)
    BY <2>13, NamesAssumption DEF HandlersOutliveReconnects, TypeOK, LockInv, StopInv,
       SupDecide, SupMoves, Awaiting, Active
  <2>14. CASE SupBackoff(r)
    BY <2>14, NamesAssumption DEF HandlersOutliveReconnects, TypeOK, LockInv, StopInv,
       SupBackoff, SupMoves, Awaiting, Active
  <2>15. CASE SupStop(r)
    BY <2>15, NamesAssumption DEF HandlersOutliveReconnects, TypeOK, LockInv, StopInv,
       SupStop, SupMoves, CancelToken, Awaiting, Active
  <2>16. CASE SupStopPublish(r)
    BY <2>16, NamesAssumption DEF HandlersOutliveReconnects, TypeOK, LockInv, StopInv,
       SupStopPublish, SupMoves, PublishStopped, Notify, Awaiting, Active
  <2>17. CASE SupHandlers(r)
    BY <2>17, NamesAssumption DEF HandlersOutliveReconnects, TypeOK, LockInv, StopInv,
       SupHandlers, SupMoves, DropHandlers, Awaiting, Active
  <2>18. CASE SupUnlock(r)
    BY <2>18, NamesAssumption DEF HandlersOutliveReconnects, TypeOK, LockInv, StopInv,
       SupUnlock, SupMoves, Awaiting, Active
  <2> QED BY <1>2, <2>1, <2>2, <2>3, <2>4, <2>5, <2>6, <2>7, <2>8, <2>9, <2>10, <2>11, <2>12,
       <2>13, <2>14, <2>15, <2>16, <2>17, <2>18 DEF Supervise
<1>3. ASSUME NEW g \in Generations, Session(g) PROVE HandlersOutliveReconnects'
  BY <1>3 DEF HandlersOutliveReconnects, Session, ReadLoopEnds, KeepaliveEnds,
     ServerReconnect, WorkerEnds
<1>4. ASSUME NEW c \in Callers, Disconnect(c) PROVE HandlersOutliveReconnects'
  <2>1. CASE DisconnectStop(c)
    BY <2>1, NamesAssumption DEF HandlersOutliveReconnects, TypeOK, LockInv, StopInv,
       DisconnectStop, CancelToken
  <2>2. CASE DisconnectReturn(c)
    BY <2>2, NamesAssumption DEF HandlersOutliveReconnects, TypeOK, LockInv, StopInv,
       DisconnectReturn, Active
  <2>3. CASE DisconnectPublish(c) \/ DisconnectLock(c)
    BY <2>3 DEF HandlersOutliveReconnects, DisconnectPublish, DisconnectLock, PublishStopped,
       Notify, LockIsFree
  <2> QED BY <1>4, <2>1, <2>2, <2>3 DEF Disconnect
<1>5. ASSUME NEW h \in Handlers, Handle(h) PROVE HandlersOutliveReconnects'
  BY <1>5 DEF HandlersOutliveReconnects, Handle, HandlerReturns, HandlerAborted, SupDispatch
<1>6. ASSUME NEW s \in Senders, Send(s) PROVE HandlersOutliveReconnects'
  BY <1>6 DEF HandlersOutliveReconnects, Send, SendStart, SendLooks, SendAnswered,
     SendReplays, CancelOnFailure, Replay
<1> QED BY <1>1, <1>2, <1>3, <1>4, <1>5, <1>6 DEF Next

-----------------------------------------------------------------------------
\* The lock is what disconnect() waits for; behind it no supervisor is left, so no
\* session is, and a later run() finds the token cancelled.
LEMMA CompleteStep == ASSUME TypeOK, LockInv, SessionInv, StopInv, DisconnectIsComplete, Next PROVE DisconnectIsComplete'
<1>1. ASSUME NEW r \in Runners, RunCall(r) PROVE DisconnectIsComplete'
  <2>1. CASE RunTryLock(r)
    BY <2>1, NamesAssumption DEF DisconnectIsComplete, Active, Live, TypeOK, LockInv,
       SessionInv, StopInv, RunTryLock, Rejected, LockIsFree
  <2>2. CASE RunSpawn(r)
    BY <2>2, NamesAssumption DEF DisconnectIsComplete, Active, Live, TypeOK, LockInv,
       SessionInv, StopInv, RunSpawn
  <2>3. CASE RunDropped(r)
    BY <2>3, NamesAssumption DEF DisconnectIsComplete, Active, Live, TypeOK, LockInv,
       SessionInv, StopInv, RunDropped, CancelToken
  <2>4. CASE RunJoined(r)
    BY <2>4, NamesAssumption DEF DisconnectIsComplete, Active, Live, TypeOK, LockInv,
       SessionInv, StopInv, RunJoined, CancelToken
  <2>5. CASE RunLeaves(r)
    BY <2>5, NamesAssumption DEF DisconnectIsComplete, Active, Live, TypeOK, LockInv,
       SessionInv, StopInv, RunLeaves, PublishStopped, Notify
  <2> QED BY <1>1, <2>1, <2>2, <2>3, <2>4, <2>5 DEF RunCall
<1>2. ASSUME NEW r \in Runners, Supervise(r) PROVE DisconnectIsComplete'
  <2>1. CASE SupBegin(r)
    BY <2>1, NamesAssumption DEF DisconnectIsComplete, Active, Live, TypeOK, LockInv,
       SessionInv, StopInv, SupBegin, SupMoves, Awaiting, InAttempt, OneLiveSession, Offline,
       Stopped
  <2>2. CASE SupConnected(r)
    BY <2>2, NamesAssumption DEF DisconnectIsComplete, Active, Live, TypeOK, LockInv,
       SessionInv, StopInv, SupConnected, SupMoves, Awaiting, InAttempt, OneLiveSession, Offline,
       Stopped
  <2>3. CASE SupSessionInit(r)
    BY <2>3, NamesAssumption DEF DisconnectIsComplete, Active, Live, TypeOK, LockInv,
       SessionInv, StopInv, SupSessionInit, SupMoves, Awaiting, InAttempt, OneLiveSession,
       Offline, Stopped
  <2>4. CASE SupLogin(r)
    BY <2>4, NamesAssumption DEF DisconnectIsComplete, Active, Live, TypeOK, LockInv,
       SessionInv, StopInv, SupLogin, SupMoves, Awaiting, InAttempt, OneLiveSession, Offline,
       Stopped
  <2>5. CASE SupPublish(r)
    BY <2>5, NamesAssumption DEF DisconnectIsComplete, Active, Live, TypeOK, LockInv,
       SessionInv, StopInv, SupPublish, SupMoves, CanPublish, Ready, Notify, Awaiting, InAttempt,
       OneLiveSession, Offline, Stopped
  <2>6. CASE SupInterrupted(r)
    BY <2>6, NamesAssumption DEF DisconnectIsComplete, Active, Live, TypeOK, LockInv,
       SessionInv, StopInv, SupInterrupted, SupMoves, Awaiting, InAttempt, OneLiveSession,
       Offline, Stopped
  <2>7. CASE SupFailsTransient(r)
    BY <2>7, NamesAssumption DEF DisconnectIsComplete, Active, Live, TypeOK, LockInv,
       SessionInv, StopInv, SupFailsTransient, SupMoves, CancelOnFailure, Awaiting, InAttempt,
       OneLiveSession, Offline, Stopped
  <2>8. CASE SupFailsFatal(r)
    BY <2>8, NamesAssumption DEF DisconnectIsComplete, Active, Live, TypeOK, LockInv,
       SessionInv, StopInv, SupFailsFatal, SupMoves, Awaiting, InAttempt, OneLiveSession,
       Offline, Stopped
  <2>9. CASE SupOffline(r)
    BY <2>9, NamesAssumption DEF DisconnectIsComplete, Active, Live, TypeOK, LockInv,
       SessionInv, StopInv, SupOffline, SupMoves, GoOffline, Notify, Awaiting, InAttempt,
       OneLiveSession, Offline, Stopped
  <2>10. CASE SupCancel(r)
    BY <2>10, NamesAssumption DEF DisconnectIsComplete, Active, Live, TypeOK, LockInv,
       SessionInv, StopInv, SupCancel, SupMoves, Awaiting, InAttempt, OneLiveSession, Offline,
       Stopped
  <2>11. CASE SupJoin(r)
    BY <2>11, NamesAssumption DEF DisconnectIsComplete, Active, Live, TypeOK, LockInv,
       SessionInv, StopInv, SupJoin, SupMoves, Awaiting, InAttempt, OneLiveSession, Offline,
       Stopped
  <2>12. CASE SupClose(r)
    BY <2>12, NamesAssumption DEF DisconnectIsComplete, Active, Live, TypeOK, LockInv,
       SessionInv, StopInv, SupClose, SupMoves, CloseTransport, Awaiting, InAttempt,
       OneLiveSession, Offline, Stopped
  <2>13. CASE SupDecide(r)
    BY <2>13, NamesAssumption DEF DisconnectIsComplete, Active, Live, TypeOK, LockInv,
       SessionInv, StopInv, SupDecide, SupMoves, Awaiting, InAttempt, OneLiveSession, Offline,
       Stopped
  <2>14. CASE SupBackoff(r)
    BY <2>14, NamesAssumption DEF DisconnectIsComplete, Active, Live, TypeOK, LockInv,
       SessionInv, StopInv, SupBackoff, SupMoves, Awaiting, InAttempt, OneLiveSession, Offline,
       Stopped
  <2>15. CASE SupStop(r)
    BY <2>15, NamesAssumption DEF DisconnectIsComplete, Active, Live, TypeOK, LockInv,
       SessionInv, StopInv, SupStop, SupMoves, CancelToken, Awaiting, InAttempt, OneLiveSession,
       Offline, Stopped
  <2>16. CASE SupStopPublish(r)
    BY <2>16, NamesAssumption DEF DisconnectIsComplete, Active, Live, TypeOK, LockInv,
       SessionInv, StopInv, SupStopPublish, SupMoves, PublishStopped, Notify, Awaiting,
       InAttempt, OneLiveSession, Offline, Stopped
  <2>17. CASE SupHandlers(r)
    BY <2>17, NamesAssumption DEF DisconnectIsComplete, Active, Live, TypeOK, LockInv,
       SessionInv, StopInv, SupHandlers, SupMoves, DropHandlers, Awaiting, InAttempt,
       OneLiveSession, Offline, Stopped
  <2>18. CASE SupUnlock(r)
    BY <2>18, NamesAssumption DEF DisconnectIsComplete, Active, Live, TypeOK, LockInv,
       SessionInv, StopInv, SupUnlock, SupMoves, Awaiting, InAttempt, OneLiveSession, Offline,
       Stopped
  <2> QED BY <1>2, <2>1, <2>2, <2>3, <2>4, <2>5, <2>6, <2>7, <2>8, <2>9, <2>10, <2>11, <2>12,
       <2>13, <2>14, <2>15, <2>16, <2>17, <2>18 DEF Supervise
<1>3. ASSUME NEW g \in Generations, Session(g) PROVE DisconnectIsComplete'
  <2>1. CASE ReadLoopEnds(g)
    BY <2>1, NamesAssumption DEF DisconnectIsComplete, Active, Live, TypeOK, LockInv,
       SessionInv, StopInv, ReadLoopEnds, WorkerEnds
  <2>2. CASE KeepaliveEnds(g)
    BY <2>2, NamesAssumption DEF DisconnectIsComplete, Active, Live, TypeOK, LockInv,
       SessionInv, StopInv, KeepaliveEnds, WorkerEnds
  <2>3. CASE ServerReconnect(g)
    BY <2>3 DEF DisconnectIsComplete, Active, Live, ServerReconnect
  <2> QED BY <1>3, <2>1, <2>2, <2>3 DEF Session
<1>4. ASSUME NEW c \in Callers, Disconnect(c) PROVE DisconnectIsComplete'
  <2>1. CASE DisconnectStop(c)
    BY <2>1, NamesAssumption DEF DisconnectIsComplete, Active, Live, TypeOK, LockInv,
       SessionInv, StopInv, DisconnectStop, CancelToken
  <2>2. CASE DisconnectPublish(c)
    BY <2>2, NamesAssumption DEF DisconnectIsComplete, Active, Live, TypeOK, LockInv,
       SessionInv, StopInv, DisconnectPublish, PublishStopped, Notify
  <2>3. CASE DisconnectLock(c)
    BY <2>3, NamesAssumption DEF DisconnectIsComplete, Active, Live, TypeOK, LockInv,
       SessionInv, StopInv, DisconnectLock, LockIsFree
  <2>4. CASE DisconnectReturn(c)
    BY <2>4, NamesAssumption DEF DisconnectIsComplete, Active, Live, TypeOK, LockInv,
       SessionInv, StopInv, DisconnectReturn, OneLiveSession, InAttempt, Awaiting
  <2> QED BY <1>4, <2>1, <2>2, <2>3, <2>4 DEF Disconnect
<1>5. ASSUME NEW h \in Handlers, Handle(h) PROVE DisconnectIsComplete'
  <2>1. CASE HandlerReturns(h)
    BY <2>1, NamesAssumption DEF DisconnectIsComplete, Active, Live, TypeOK, LockInv,
       SessionInv, StopInv, HandlerReturns
  <2>2. CASE HandlerAborted(h)
    BY <2>2, NamesAssumption DEF DisconnectIsComplete, Active, Live, TypeOK, LockInv,
       SessionInv, StopInv, HandlerAborted
  <2>3. ASSUME NEW r \in Runners, SupDispatch(r, h) PROVE DisconnectIsComplete'
    BY <2>3, NamesAssumption DEF DisconnectIsComplete, Active, Live, TypeOK, LockInv,
       SessionInv, StopInv, SupDispatch
  <2> QED BY <1>5, <2>1, <2>2, <2>3 DEF Handle
<1>6. ASSUME NEW s \in Senders, Send(s) PROVE DisconnectIsComplete'
  BY <1>6 DEF DisconnectIsComplete, Active, Live, Send, SendStart, SendLooks, SendAnswered,
     SendReplays, CancelOnFailure, Replay
<1> QED BY <1>1, <1>2, <1>3, <1>4, <1>5, <1>6 DEF Next

-----------------------------------------------------------------------------
\* Whatever makes the channel interesting also marks it changed.
LEMMA WakeupStep == ASSUME TypeOK, NoLostWakeup, Next PROVE NoLostWakeup'
<1>1. ASSUME NEW r \in Runners, RunCall(r) PROVE NoLostWakeup'
  <2>1. CASE RunTryLock(r)
    BY <2>1 DEF NoLostWakeup, IsCancelled, Offline, Stopped, TypeOK, RunTryLock, Rejected,
       LockIsFree
  <2>2. CASE RunDropped(r)
    BY <2>2 DEF NoLostWakeup, IsCancelled, Offline, Stopped, TypeOK, RunDropped, CancelToken
  <2>3. CASE RunJoined(r)
    BY <2>3 DEF NoLostWakeup, IsCancelled, Offline, Stopped, TypeOK, RunJoined, CancelToken
  <2>4. CASE RunLeaves(r)
    BY <2>4 DEF NoLostWakeup, IsCancelled, Offline, Stopped, TypeOK, RunLeaves,
       PublishStopped, Notify
  <2>5. CASE RunSpawn(r)
    BY <2>5 DEF NoLostWakeup, IsCancelled, Offline, Stopped, RunSpawn
  <2> QED BY <1>1, <2>1, <2>2, <2>3, <2>4, <2>5 DEF RunCall
<1>2. ASSUME NEW r \in Runners, Supervise(r) PROVE NoLostWakeup'
  <2>1. CASE SupPublish(r)
    BY <2>1 DEF NoLostWakeup, IsCancelled, Offline, Stopped, TypeOK, SupPublish, SupMoves,
       CanPublish, Ready, Notify
  <2>2. CASE SupFailsTransient(r)
    BY <2>2 DEF NoLostWakeup, IsCancelled, Offline, Stopped, TypeOK, SupFailsTransient,
       SupMoves, CancelOnFailure
  <2>3. CASE SupOffline(r)
    BY <2>3 DEF NoLostWakeup, IsCancelled, Offline, Stopped, TypeOK, SupOffline, SupMoves,
       GoOffline, Notify
  <2>4. CASE SupCancel(r)
    BY <2>4 DEF NoLostWakeup, IsCancelled, Offline, Stopped, TypeOK, SupCancel, SupMoves
  <2>5. CASE SupStop(r)
    BY <2>5 DEF NoLostWakeup, IsCancelled, Offline, Stopped, TypeOK, SupStop, SupMoves, CancelToken
  <2>6. CASE SupStopPublish(r)
    BY <2>6 DEF NoLostWakeup, IsCancelled, Offline, Stopped, TypeOK, SupStopPublish, SupMoves,
       PublishStopped, Notify
  <2>7. CASE SupBegin(r) \/ SupConnected(r) \/ SupSessionInit(r) \/ SupLogin(r) \/
       SupInterrupted(r) \/ SupFailsFatal(r) \/ SupJoin(r) \/ SupClose(r) \/ SupDecide(r) \/
       SupBackoff(r) \/ SupHandlers(r) \/ SupUnlock(r)
    BY <2>7 DEF NoLostWakeup, IsCancelled, Offline, Stopped, SupBegin, SupConnected,
       SupSessionInit, SupLogin, SupInterrupted, SupFailsFatal, SupJoin, SupClose, SupDecide,
       SupBackoff, SupHandlers, SupUnlock, CloseTransport, DropHandlers, SupMoves
  <2> QED BY <1>2, <2>1, <2>2, <2>3, <2>4, <2>5, <2>6, <2>7 DEF Supervise
<1>3. ASSUME NEW g \in Generations, Session(g) PROVE NoLostWakeup'
  <2>1. CASE ReadLoopEnds(g)
    BY <2>1 DEF NoLostWakeup, IsCancelled, Offline, Stopped, TypeOK, ReadLoopEnds, WorkerEnds
  <2>2. CASE KeepaliveEnds(g)
    BY <2>2 DEF NoLostWakeup, IsCancelled, Offline, Stopped, TypeOK, KeepaliveEnds, WorkerEnds
  <2>3. CASE ServerReconnect(g)
    BY <2>3 DEF NoLostWakeup, IsCancelled, Offline, Stopped, TypeOK, ServerReconnect
  <2> QED BY <1>3, <2>1, <2>2, <2>3 DEF Session
<1>4. ASSUME NEW c \in Callers, Disconnect(c) PROVE NoLostWakeup'
  <2>1. CASE DisconnectStop(c)
    BY <2>1 DEF NoLostWakeup, IsCancelled, Offline, Stopped, TypeOK, DisconnectStop, CancelToken
  <2>2. CASE DisconnectPublish(c)
    BY <2>2 DEF NoLostWakeup, IsCancelled, Offline, Stopped, TypeOK, DisconnectPublish,
       PublishStopped, Notify
  <2>3. CASE DisconnectLock(c) \/ DisconnectReturn(c)
    BY <2>3 DEF NoLostWakeup, IsCancelled, Offline, Stopped, DisconnectLock, DisconnectReturn,
       LockIsFree
  <2> QED BY <1>4, <2>1, <2>2, <2>3 DEF Disconnect
<1>5. ASSUME NEW h \in Handlers, Handle(h) PROVE NoLostWakeup'
  BY <1>5 DEF NoLostWakeup, IsCancelled, Offline, Stopped, Handle, HandlerReturns,
     HandlerAborted, SupDispatch
<1>6. ASSUME NEW s \in Senders, Send(s) PROVE NoLostWakeup'
  <2>1. CASE SendStart(s)
    BY <2>1 DEF NoLostWakeup, IsCancelled, Offline, Stopped, TypeOK, SendStart
  <2>2. CASE SendLooks(s)
    BY <2>2 DEF NoLostWakeup, IsCancelled, Offline, Stopped, TypeOK, SendLooks
  <2>3. CASE SendAnswered(s)
    BY <2>3 DEF NoLostWakeup, IsCancelled, Offline, Stopped, TypeOK, SendAnswered
  <2>4. CASE SendReplays(s)
    BY <2>4 DEF NoLostWakeup, IsCancelled, Offline, Stopped, TypeOK, SendReplays,
       CancelOnFailure, Replay
  <2> QED BY <1>6, <2>1, <2>2, <2>3, <2>4 DEF Send
<1> QED BY <1>1, <1>2, <1>3, <1>4, <1>5, <1>6 DEF Next

-----------------------------------------------------------------------------
\* ConnectionClosed is returned from Stopped, which stays.
LEMMA ClosedStep == ASSUME TypeOK, ClosedOnlyIfStopped, Next PROVE ClosedOnlyIfStopped'
<1>1. ASSUME NEW r \in Runners, RunCall(r) PROVE ClosedOnlyIfStopped'
  <2>1. CASE RunLeaves(r)
    BY <2>1 DEF ClosedOnlyIfStopped, Stopped, Offline, TypeOK, RunLeaves, PublishStopped, Notify
  <2>2. CASE RunTryLock(r) \/ RunSpawn(r) \/ RunDropped(r) \/ RunJoined(r)
    BY <2>2 DEF ClosedOnlyIfStopped, Stopped, Offline, RunTryLock, RunSpawn, RunDropped,
       RunJoined, Rejected, LockIsFree, CancelToken
  <2> QED BY <1>1, <2>1, <2>2 DEF RunCall
<1>2. ASSUME NEW r \in Runners, Supervise(r) PROVE ClosedOnlyIfStopped'
  <2>1. CASE SupPublish(r)
    BY <2>1 DEF ClosedOnlyIfStopped, Stopped, Offline, TypeOK, SupPublish, SupMoves,
       CanPublish, Ready, Notify
  <2>2. CASE SupOffline(r)
    BY <2>2 DEF ClosedOnlyIfStopped, Stopped, Offline, TypeOK, SupOffline, SupMoves,
       GoOffline, Notify
  <2>3. CASE SupStopPublish(r)
    BY <2>3 DEF ClosedOnlyIfStopped, Stopped, Offline, TypeOK, SupStopPublish, SupMoves,
       PublishStopped, Notify
  <2>4. CASE SupBegin(r) \/ SupConnected(r) \/ SupSessionInit(r) \/ SupLogin(r) \/
       SupInterrupted(r) \/ SupFailsTransient(r) \/ SupFailsFatal(r) \/ SupCancel(r) \/ SupJoin(r)
       \/ SupClose(r) \/ SupDecide(r) \/ SupBackoff(r) \/ SupStop(r) \/ SupHandlers(r) \/
       SupUnlock(r)
    BY <2>4 DEF ClosedOnlyIfStopped, Stopped, Offline, SupBegin, SupConnected, SupSessionInit,
       SupLogin, SupInterrupted, SupFailsTransient, SupFailsFatal, SupCancel, SupJoin, SupClose,
       SupDecide, SupBackoff, SupStop, SupHandlers, SupUnlock, CancelOnFailure, CloseTransport,
       CancelToken, DropHandlers, SupMoves
  <2> QED BY <1>2, <2>1, <2>2, <2>3, <2>4 DEF Supervise
<1>3. ASSUME NEW g \in Generations, Session(g) PROVE ClosedOnlyIfStopped'
  BY <1>3 DEF ClosedOnlyIfStopped, Stopped, Offline, Session, ReadLoopEnds, KeepaliveEnds,
     ServerReconnect, WorkerEnds
<1>4. ASSUME NEW c \in Callers, Disconnect(c) PROVE ClosedOnlyIfStopped'
  <2>1. CASE DisconnectPublish(c)
    BY <2>1 DEF ClosedOnlyIfStopped, Stopped, Offline, TypeOK, DisconnectPublish,
       PublishStopped, Notify
  <2>2. CASE DisconnectStop(c) \/ DisconnectLock(c) \/ DisconnectReturn(c)
    BY <2>2 DEF ClosedOnlyIfStopped, Stopped, Offline, DisconnectStop, DisconnectLock,
       DisconnectReturn, CancelToken, LockIsFree
  <2> QED BY <1>4, <2>1, <2>2 DEF Disconnect
<1>5. ASSUME NEW h \in Handlers, Handle(h) PROVE ClosedOnlyIfStopped'
  BY <1>5 DEF ClosedOnlyIfStopped, Stopped, Offline, Handle, HandlerReturns, HandlerAborted,
     SupDispatch
<1>6. ASSUME NEW s \in Senders, Send(s) PROVE ClosedOnlyIfStopped'
  <2>1. CASE SendLooks(s)
    BY <2>1 DEF ClosedOnlyIfStopped, Stopped, Offline, TypeOK, SendLooks
  <2>2. CASE SendAnswered(s)
    BY <2>2 DEF ClosedOnlyIfStopped, Stopped, Offline, TypeOK, SendAnswered
  <2>3. CASE SendReplays(s)
    BY <2>3 DEF ClosedOnlyIfStopped, Stopped, Offline, TypeOK, SendReplays, CancelOnFailure, Replay
  <2>4. CASE SendStart(s)
    BY <2>4 DEF ClosedOnlyIfStopped, Stopped, Offline, SendStart
  <2> QED BY <1>6, <2>1, <2>2, <2>3, <2>4 DEF Send
<1> QED BY <1>1, <1>2, <1>3, <1>4, <1>5, <1>6 DEF Next

-----------------------------------------------------------------------------
\* A send loop leaves a session only when it is cancelled, and cancelled stays.
LEMMA SendStep == ASSUME TypeOK, SessionInv, ReadyIsUsable, SendInv, Next PROVE SendInv'
<1>1. ASSUME NEW r \in Runners, RunCall(r) PROVE SendInv'
  <2>1. CASE RunTryLock(r)
    BY <2>1 DEF SendInv, IsCancelled, TypeOK, SessionInv, ReadyIsUsable, RunTryLock, Rejected,
       LockIsFree
  <2>2. CASE RunDropped(r)
    BY <2>2 DEF SendInv, IsCancelled, TypeOK, SessionInv, ReadyIsUsable, RunDropped, CancelToken
  <2>3. CASE RunJoined(r)
    BY <2>3 DEF SendInv, IsCancelled, TypeOK, SessionInv, ReadyIsUsable, RunJoined, CancelToken
  <2>4. CASE RunLeaves(r)
    BY <2>4 DEF SendInv, IsCancelled, TypeOK, SessionInv, ReadyIsUsable, RunLeaves,
       PublishStopped, Notify
  <2>5. CASE RunSpawn(r)
    BY <2>5 DEF SendInv, IsCancelled, RunSpawn
  <2> QED BY <1>1, <2>1, <2>2, <2>3, <2>4, <2>5 DEF RunCall
<1>2. ASSUME NEW r \in Runners, Supervise(r) PROVE SendInv'
  <2>1. CASE SupBegin(r)
    BY <2>1 DEF SendInv, IsCancelled, TypeOK, SessionInv, ReadyIsUsable, SupBegin, SupMoves,
       InAttempt, Awaiting
  <2>2. CASE SupPublish(r)
    BY <2>2 DEF SendInv, IsCancelled, TypeOK, SessionInv, ReadyIsUsable, SupPublish, SupMoves,
       CanPublish, Ready, Notify, InAttempt, Awaiting
  <2>3. CASE SupFailsTransient(r)
    <3>1. \A g \in Generations : IsCancelled(g) => IsCancelled(g)'
      BY <2>3 DEF SupFailsTransient, CancelOnFailure, IsCancelled, TypeOK
    <3>2. UNCHANGED <<gen, conn, sendPc>>
      BY <2>3 DEF SupFailsTransient
    <3> QED BY <3>1, <3>2 DEF SendInv, TypeOK, Generations
  <2>4. CASE SupOffline(r)
    BY <2>4 DEF SendInv, IsCancelled, TypeOK, SessionInv, ReadyIsUsable, SupOffline, SupMoves,
       GoOffline, Notify, InAttempt, Awaiting
  <2>5. CASE SupCancel(r)
    BY <2>5 DEF SendInv, IsCancelled, TypeOK, SessionInv, ReadyIsUsable, SupCancel, SupMoves,
       InAttempt, Awaiting
  <2>6. CASE SupStop(r)
    BY <2>6 DEF SendInv, IsCancelled, TypeOK, SessionInv, ReadyIsUsable, SupStop, SupMoves,
       CancelToken, InAttempt, Awaiting
  <2>7. CASE SupStopPublish(r)
    BY <2>7 DEF SendInv, IsCancelled, TypeOK, SessionInv, ReadyIsUsable, SupStopPublish,
       SupMoves, PublishStopped, Notify, InAttempt, Awaiting
  <2>8. CASE SupConnected(r) \/ SupSessionInit(r) \/ SupLogin(r) \/ SupInterrupted(r) \/
       SupFailsFatal(r) \/ SupJoin(r) \/ SupClose(r) \/ SupDecide(r) \/ SupBackoff(r) \/
       SupHandlers(r) \/ SupUnlock(r)
    BY <2>8 DEF SendInv, IsCancelled, SupConnected, SupSessionInit, SupLogin, SupInterrupted,
       SupFailsFatal, SupJoin, SupClose, SupDecide, SupBackoff, SupHandlers, SupUnlock,
       CloseTransport, DropHandlers, SupMoves
  <2> QED BY <1>2, <2>1, <2>2, <2>3, <2>4, <2>5, <2>6, <2>7, <2>8 DEF Supervise
<1>3. ASSUME NEW g \in Generations, Session(g) PROVE SendInv'
  <2>1. CASE ReadLoopEnds(g)
    BY <2>1 DEF SendInv, IsCancelled, TypeOK, SessionInv, ReadyIsUsable, ReadLoopEnds,
       WorkerEnds, Generations, InAttempt, Awaiting, Offline, Stopped
  <2>2. CASE KeepaliveEnds(g)
    BY <2>2 DEF SendInv, IsCancelled, TypeOK, SessionInv, ReadyIsUsable, KeepaliveEnds,
       WorkerEnds, Generations, InAttempt, Awaiting, Offline, Stopped
  <2>3. CASE ServerReconnect(g)
    BY <2>3 DEF SendInv, IsCancelled, TypeOK, SessionInv, ReadyIsUsable, ServerReconnect
  <2> QED BY <1>3, <2>1, <2>2, <2>3 DEF Session
<1>4. ASSUME NEW c \in Callers, Disconnect(c) PROVE SendInv'
  <2>1. CASE DisconnectStop(c)
    BY <2>1 DEF SendInv, IsCancelled, TypeOK, SessionInv, ReadyIsUsable, DisconnectStop, CancelToken
  <2>2. CASE DisconnectPublish(c)
    BY <2>2 DEF SendInv, IsCancelled, TypeOK, SessionInv, ReadyIsUsable, DisconnectPublish,
       PublishStopped, Notify
  <2>3. CASE DisconnectLock(c) \/ DisconnectReturn(c)
    BY <2>3 DEF SendInv, IsCancelled, DisconnectLock, DisconnectReturn, LockIsFree
  <2> QED BY <1>4, <2>1, <2>2, <2>3 DEF Disconnect
<1>5. ASSUME NEW h \in Handlers, Handle(h) PROVE SendInv'
  BY <1>5 DEF SendInv, IsCancelled, Handle, HandlerReturns, HandlerAborted, SupDispatch
<1>6. ASSUME NEW s \in Senders, Send(s) PROVE SendInv'
  <2>1. CASE SendStart(s)
    BY <2>1 DEF SendInv, IsCancelled, TypeOK, SessionInv, ReadyIsUsable, SendStart
  <2>2. CASE SendLooks(s)
    BY <2>2 DEF SendInv, IsCancelled, TypeOK, SessionInv, ReadyIsUsable, SendLooks,
       Generations, InAttempt, Awaiting, Offline, Stopped
  <2>3. CASE SendAnswered(s)
    BY <2>3 DEF SendInv, IsCancelled, TypeOK, SessionInv, ReadyIsUsable, SendAnswered
  <2>4. CASE SendReplays(s)
    <3>1. /\ UNCHANGED <<shutdown, gen, conn>>
          /\ sendPc' = [sendPc EXCEPT ![s] = "current"]
          /\ conn[s] \in 0 .. MaxAttempts
      BY <2>4 DEF SendReplays, Replay, TypeOK
    <3>2. \A g \in Generations : IsCancelled(g) => IsCancelled(g)'
      BY <2>4 DEF SendReplays, CancelOnFailure, IsCancelled, TypeOK
    <3>3. ASSUME conn[s] > 0 PROVE shutdown \/ cancelled'[conn[s]]
      <4>1. conn[s] \in Generations
        BY <3>1, <3>3 DEF Generations
      <4>2. CASE IsCancelled(conn[s])
        BY <4>1, <4>2, <3>1, <3>2 DEF IsCancelled
      <4>3. CASE ~IsCancelled(conn[s])
        BY <2>4, <4>1, <4>3 DEF SendReplays, CancelOnFailure, TypeOK
      <4> QED BY <4>2, <4>3
    <3> SUFFICES ASSUME NEW q \in Senders,
                        sendPc'[q] \in {"current", "waiting"}, conn'[q] > 0
                 PROVE  IsCancelled(conn[q])'
      BY <3>1 DEF SendInv, TypeOK
    <3>4. conn[q] \in Generations
      BY <3>1 DEF TypeOK, Generations
    <3> QED BY <3>1, <3>2, <3>3, <3>4 DEF SendInv, TypeOK, IsCancelled
  <2> QED BY <1>6, <2>1, <2>2, <2>3, <2>4 DEF Send
<1> QED BY <1>1, <1>2, <1>3, <1>4, <1>5, <1>6 DEF Next

-----------------------------------------------------------------------------
\* The drop guards cancel a session in the step that costs it a worker; only its
\* supervisor closes it, long after it has left "dispatch".
LEMMA ServedStep ==
    ASSUME TypeOK, LockInv, SessionInv, ReadyIsUsable, ServedInv, Next PROVE ServedInv'
<1>1. \A r, q \in Runners : Active(r) /\ Active(q) => q = r
  BY DEF LockInv
<1>2. \A r \in Runners : sup[r] \in InAttempt => att[r] = gen /\ att[r] \in Generations
  BY DEF SessionInv, TypeOK, Generations
<1>3. \A s \in Senders : conn[s] \in 0 .. MaxAttempts /\ (sendPc[s] = "invoking" => conn[s] \in Generations)
  BY DEF TypeOK, ServedInv, Generations
<1>4. ASSUME NEW r \in Runners, RunCall(r) PROVE ServedInv'
  <2>1. CASE RunTryLock(r) \/ RunDropped(r) \/ RunJoined(r)
    BY <2>1 DEF ServedInv, SessionIsServed, Served, IsCancelled, RunTryLock, Rejected, RunDropped,
       RunJoined, CancelToken
  <2>2. CASE RunSpawn(r)
    BY <2>2 DEF ServedInv, SessionIsServed, Served, IsCancelled, TypeOK, LockInv, RunSpawn
  <2>3. CASE RunLeaves(r)
    BY <2>3 DEF ServedInv, SessionIsServed, Served, IsCancelled, RunLeaves, PublishStopped,
       Stopped, Ready
  <2> QED BY <1>4, <2>1, <2>2, <2>3 DEF RunCall
<1>5. ASSUME NEW r \in Runners, Supervise(r) PROVE ServedInv'
  <2>1. CASE SupBegin(r)
    BY <1>1, <1>2, <1>3, <2>1 DEF ServedInv, SessionIsServed, Served, IsCancelled, TypeOK, SupBegin,
       SupMoves, Active, InAttempt, Awaiting
  <2>2. CASE SupConnected(r)
    BY <1>1, <1>2, <1>3, <2>2 DEF ServedInv, SessionIsServed, Served, IsCancelled, TypeOK,
       SupConnected, SupMoves, Active, InAttempt, Awaiting, Workers
  <2>3. CASE SupSessionInit(r)
    BY <1>1, <1>2, <1>3, <2>3 DEF ServedInv, SessionIsServed, Served, IsCancelled, TypeOK,
       SupSessionInit, SupMoves, Active, InAttempt, Awaiting, Workers
  <2>4. CASE SupLogin(r)
    BY <1>1, <1>2, <1>3, <2>4 DEF ServedInv, SessionIsServed, Served, IsCancelled, TypeOK, SupLogin,
       SupMoves, Active, InAttempt, Awaiting
  <2>5. CASE SupPublish(r)
    BY <1>1, <1>2, <1>3, <2>5 DEF ServedInv, SessionIsServed, Served, IsCancelled, TypeOK,
       ReadyIsUsable, SupPublish, SupMoves, CanPublish, Ready, Active, InAttempt, Awaiting
  <2>6. CASE SupInterrupted(r)
    BY <1>1, <1>2, <1>3, <2>6 DEF ServedInv, SessionIsServed, Served, IsCancelled, TypeOK,
       SupInterrupted, SupMoves, Active, InAttempt, Awaiting
  <2>7. CASE SupFailsTransient(r)
    BY <1>1, <1>2, <1>3, <2>7 DEF ServedInv, SessionIsServed, Served, IsCancelled, TypeOK,
       ReadyIsUsable, SupFailsTransient, CancelOnFailure, SupMoves, Ready, Active, InAttempt, Awaiting
  <2>8. CASE SupFailsFatal(r)
    BY <1>1, <1>2, <1>3, <2>8 DEF ServedInv, SessionIsServed, Served, IsCancelled, TypeOK,
       ReadyIsUsable, SupFailsFatal, SupMoves, Ready, Active, InAttempt, Awaiting
  <2>9. CASE SupOffline(r)
    BY <1>1, <1>2, <1>3, <2>9 DEF ServedInv, SessionIsServed, Served, IsCancelled, TypeOK,
       SupOffline, GoOffline, Offline, SupMoves, Ready, Active, InAttempt, Awaiting
  <2>10. CASE SupCancel(r)
    BY <1>1, <1>2, <1>3, <2>10 DEF ServedInv, SessionIsServed, Served, IsCancelled, TypeOK,
       SupCancel, SupMoves, Active, InAttempt, Awaiting
  <2>11. CASE SupJoin(r)
    BY <1>1, <1>2, <1>3, <2>11 DEF ServedInv, SessionIsServed, Served, IsCancelled, TypeOK, SupJoin,
       SupMoves, Active, InAttempt, Awaiting
  <2>12. CASE SupClose(r)
    BY <1>1, <1>2, <1>3, <2>12 DEF ServedInv, SessionIsServed, Served, IsCancelled, TypeOK, SupClose,
       CloseTransport, SupMoves, Active, InAttempt, Awaiting
  <2>13. CASE SupStopPublish(r)
    BY <2>13 DEF ServedInv, SessionIsServed, Served, IsCancelled, TypeOK, SupStopPublish,
       PublishStopped, SupMoves, Stopped, Ready
  <2>14. CASE SupDecide(r) \/ SupBackoff(r) \/ SupStop(r) \/ SupHandlers(r) \/ SupUnlock(r)
    BY <2>14 DEF ServedInv, SessionIsServed, Served, IsCancelled, TypeOK, SupDecide, SupBackoff,
       SupStop, CancelToken, SupHandlers, DropHandlers, SupUnlock, SupMoves
  <2> QED BY <1>5, <2>1, <2>2, <2>3, <2>4, <2>5, <2>6, <2>7, <2>8, <2>9, <2>10, <2>11, <2>12,
       <2>13, <2>14 DEF Supervise
<1>6. ASSUME NEW g \in Generations, Session(g) PROVE ServedInv'
  <2>1. /\ cancelled' = [cancelled EXCEPT ![g] = TRUE]
        /\ \A k \in Generations : k # g => tasks'[k] = tasks[k]
        /\ UNCHANGED <<shutdown, state, open, sup, att, sendPc, conn>>
    BY <1>6 DEF Session, ReadLoopEnds, KeepaliveEnds, WorkerEnds, ServerReconnect, TypeOK
  <2> QED BY <1>2, <1>3, <2>1 DEF ServedInv, SessionIsServed, Served, IsCancelled, TypeOK,
       InAttempt, Awaiting, Ready
<1>7. ASSUME NEW c \in Callers, Disconnect(c) PROVE ServedInv'
  BY <1>7 DEF ServedInv, SessionIsServed, Served, IsCancelled, Disconnect, DisconnectStop,
     DisconnectPublish, DisconnectLock, DisconnectReturn, CancelToken, PublishStopped, Stopped, Ready
<1>8. ASSUME NEW h \in Handlers, Handle(h) PROVE ServedInv'
  BY <1>8 DEF ServedInv, SessionIsServed, Served, IsCancelled, Handle, HandlerReturns,
     HandlerAborted, SupDispatch
<1>9. ASSUME NEW s \in Senders, Send(s) PROVE ServedInv'
  <2>1. CASE SendStart(s)
    BY <2>1 DEF ServedInv, SessionIsServed, Served, IsCancelled, TypeOK, SendStart
  <2>2. CASE SendLooks(s)
    <3>1. UNCHANGED <<shutdown, state, cancelled, open, tasks, sup, att>>
      BY <2>2 DEF SendLooks
    <3>2. \A q \in Senders : q # s => sendPc'[q] = sendPc[q] /\ conn'[q] = conn[q]
      BY <2>2 DEF SendLooks, TypeOK
    <3>3. CASE sendPc'[s] = "invoking"
      <4>1. state.tag = "Ready" /\ ~IsCancelled(state.gen) /\ conn'[s] = state.gen
        BY <2>2, <3>3 DEF SendLooks, TypeOK
      <4>2. state = Ready(state.gen) /\ state.gen \in Generations
        BY <4>1 DEF TypeOK, Ready, Offline, Stopped
      <4>3. PICK r \in Runners : att[r] = state.gen /\ sup[r] \in {"dispatch", "offline"}
        BY <4>1 DEF ReadyIsUsable
      <4>4. sup[r] = "dispatch" /\ Served(state.gen)
        BY <4>1, <4>2, <4>3 DEF ServedInv, SessionIsServed
      <4> QED BY <3>1, <3>2, <4>1, <4>2, <4>3, <4>4
              DEF ServedInv, SessionIsServed, Served, IsCancelled, Ready, Generations
    <3>4. CASE sendPc'[s] # "invoking"
      BY <3>1, <3>2, <3>4 DEF ServedInv, SessionIsServed, Served, IsCancelled, Ready
    <3> QED BY <3>3, <3>4
  <2>3. CASE SendAnswered(s)
    BY <2>3 DEF ServedInv, SessionIsServed, Served, IsCancelled, TypeOK, SendAnswered
  <2>4. CASE SendReplays(s)
    BY <1>2, <1>3, <2>4 DEF ServedInv, SessionIsServed, Served, IsCancelled, TypeOK, SendReplays,
       CancelOnFailure, Replay, InAttempt, Awaiting
  <2> QED BY <1>9, <2>1, <2>2, <2>3, <2>4 DEF Send
<1> QED BY <1>4, <1>5, <1>6, <1>7, <1>8, <1>9 DEF Next

-----------------------------------------------------------------------------
\* Stuttering, for all parts at once.
LEMMA StutterStep == ASSUME IInv, UNCHANGED vars PROVE IInv'
BY DEF IInv, vars, TypeOK, LockInv, SessionInv, OneLiveSession, ReadyIsUsable, StopInv, CauseInv,
       HandlersOutliveReconnects, DisconnectIsComplete, NoLostWakeup, ClosedOnlyIfStopped,
       SendInv, ServedInv, SessionIsServed, Served, Active, Live, IsCancelled, Ready

\* IInv is an invariant of the handle (run_lock, sessions, channel, stop, sends).
THEOREM Invariance == Spec => []IInv
<1>1. Init => IInv
  BY InitStep
<1>2. IInv /\ [Next]_vars => IInv'
  <2> SUFFICES ASSUME IInv, Next PROVE IInv'
    BY StutterStep
  <2>1. AttemptTyped
    BY AttemptIsTyped DEF IInv
  <2> QED
    BY <2>1, TypeStep, LockStep, SessionStep, ReadyStep, StopStep, CauseStep, HandlersStep,
       CompleteStep, WakeupStep, ClosedStep, SendStep, ServedStep DEF IInv
<1> QED BY <1>1, <1>2, PTL DEF Spec

\* The types of MaxClient's state hold for any sets of callers.
THEOREM TypeCorrect == Spec => []TypeOK
<1>1. IInv => TypeOK
  BY DEF IInv
<1> QED BY <1>1, Invariance, PTL

\* However many run() calls there are, at most one supervisor is alive and it
\* holds run_lock.
THEOREM SupervisorIsUnique == Spec => []OneSupervisor
<1>1. IInv => OneSupervisor
  BY DEF IInv, LockInv, OneSupervisor
<1> QED BY <1>1, Invariance, PTL

\* Nothing of an earlier socket generation survives into a later one.
THEOREM SessionIsUnique == Spec => []OneLiveSession
<1>1. IInv => OneLiveSession
  BY DEF IInv, SessionInv
<1> QED BY <1>1, Invariance, PTL

\* Senders are only handed a connection that is logged in, open and supervised.
THEOREM PublishedIsUsable == Spec => []ReadyIsUsable
<1>1. IInv => ReadyIsUsable
  BY DEF IInv
<1> QED BY <1>1, Invariance, PTL

\* Once disconnect() has returned, nothing is left and nothing can start again.
THEOREM DisconnectCompletes == Spec => []DisconnectIsComplete
<1>1. IInv => DisconnectIsComplete
  BY DEF IInv
<1> QED BY <1>1, Invariance, PTL

\* Handlers are only told to abort after the last attempt.
THEOREM HandlersSurvive == Spec => []HandlersOutliveReconnects
<1>1. IInv => HandlersOutliveReconnects
  BY DEF IInv
<1> QED BY <1>1, Invariance, PTL

\* A stop always has a cause; a refused run() is not one.
THEOREM StopHasCause == Spec => []StopIsCaused
<1>1. IInv => StopIsCaused
  BY DEF IInv, CauseInv, StopIsCaused
<1> QED BY <1>1, Invariance, PTL

\* No send waits on a channel that already holds what it waits for.
THEOREM WakeupsAreKept == Spec => []NoLostWakeup
<1>1. IInv => NoLostWakeup
  BY DEF IInv
<1> QED BY <1>1, Invariance, PTL

\* Neither an attempt nor a send waits on a session that nobody reads and nobody
\* has cancelled.
THEOREM SessionsAreServed == Spec => []SessionIsServed
<1>1. IInv => SessionIsServed
  BY DEF IInv, ServedInv
<1> QED BY <1>1, Invariance, PTL

\* A send reports ConnectionClosed only on a stopped handle.
THEOREM SendsSurviveReconnects == Spec => []ClosedOnlyIfStopped
<1>1. IInv => ClosedOnlyIfStopped
  BY DEF IInv
<1> QED BY <1>1, Invariance, PTL

-----------------------------------------------------------------------------
\* A stop is terminal: the token stays cancelled and the channel stays Stopped,
\* also against a publication or an offline() that was under way.
THEOREM StopIsTerminal == Spec => StopIsFinal
<1> DEFINE Terminal == (shutdown => shutdown') /\ (state = Stopped => state' = Stopped)
<1>1. [Next]_vars => [Terminal]_vars
  <2> SUFFICES ASSUME Next PROVE Terminal
    OBVIOUS
  <2>1. ASSUME NEW r \in Runners, RunCall(r) PROVE Terminal
    BY <2>1 DEF RunCall, RunTryLock, RunSpawn, RunDropped, RunJoined, RunLeaves, Rejected,
       CancelToken, PublishStopped
  <2>2. ASSUME NEW r \in Runners, Supervise(r) PROVE Terminal
    <3>1. CASE SupPublish(r) \/ SupOffline(r)
      BY <3>1 DEF SupPublish, CanPublish, SupOffline, GoOffline
    <3>2. CASE SupStop(r) \/ SupStopPublish(r)
      BY <3>2 DEF SupStop, CancelToken, SupStopPublish, PublishStopped
    <3>3. CASE \/ SupBegin(r) \/ SupConnected(r) \/ SupSessionInit(r) \/ SupLogin(r)
               \/ SupInterrupted(r) \/ SupFailsTransient(r) \/ SupFailsFatal(r)
               \/ SupCancel(r) \/ SupJoin(r) \/ SupClose(r) \/ SupDecide(r)
               \/ SupBackoff(r) \/ SupHandlers(r) \/ SupUnlock(r)
      BY <3>3 DEF SupBegin, SupConnected, SupSessionInit, SupLogin, SupInterrupted,
         SupFailsTransient, SupFailsFatal, SupCancel, SupJoin, SupClose, SupDecide, SupBackoff,
         SupHandlers, SupUnlock
    <3> QED BY <2>2, <3>1, <3>2, <3>3 DEF Supervise
  <2>3. ASSUME NEW g \in Generations, Session(g) PROVE Terminal
    BY <2>3 DEF Session, ReadLoopEnds, KeepaliveEnds, WorkerEnds, ServerReconnect
  <2>4. ASSUME NEW c \in Callers, Disconnect(c) PROVE Terminal
    BY <2>4 DEF Disconnect, DisconnectStop, DisconnectPublish, DisconnectLock, DisconnectReturn,
       CancelToken, PublishStopped
  <2>5. ASSUME NEW h \in Handlers, Handle(h) PROVE Terminal
    BY <2>5 DEF Handle, HandlerReturns, HandlerAborted, SupDispatch
  <2>6. ASSUME NEW s \in Senders, Send(s) PROVE Terminal
    BY <2>6 DEF Send, SendStart, SendLooks, SendAnswered, SendReplays
  <2> QED BY <2>1, <2>2, <2>3, <2>4, <2>5, <2>6 DEF Next
<1> QED BY <1>1, PTL DEF Spec, StopIsFinal

\* A send loop takes up each session at most once: what it left is cancelled, and
\* what the channel hands out is the newest generation and not cancelled.
THEOREM SessionsAreNotReused == Spec => SendNeverReusesSession
<1> DEFINE Fresh == \A s \in Senders :
                sendPc[s] # "invoking" /\ sendPc'[s] = "invoking" => conn'[s] > conn[s]
<1>1. IInv /\ [Next]_vars => [Fresh]_vars
  <2> SUFFICES ASSUME IInv, Next PROVE Fresh
    OBVIOUS
  <2>1. ASSUME NEW s \in Senders, SendLooks(s) PROVE Fresh
    <3> SUFFICES ASSUME sendPc[s] # "invoking", sendPc'[s] = "invoking"
                 PROVE  conn'[s] > conn[s]
      BY <2>1 DEF IInv, TypeOK, SendLooks
    <3>1. /\ state.tag = "Ready" /\ ~IsCancelled(state.gen)
          /\ conn'[s] = state.gen
          /\ sendPc[s] \in {"current", "waiting"}
      BY <2>1 DEF IInv, TypeOK, SendLooks
    <3>2. state.gen \in Generations /\ state.gen = gen
      BY <3>1 DEF IInv, TypeOK, ReadyIsUsable, SessionInv, InAttempt, Awaiting
    <3>3. conn[s] \in 0 .. MaxAttempts /\ conn[s] <= gen
      BY DEF IInv, TypeOK, SendInv
    <3>4. conn[s] # gen
      BY <3>1, <3>2, <3>3 DEF IInv, SendInv, Generations
    <3> QED BY <3>1, <3>2, <3>3, <3>4 DEF Generations
  <2>2. ASSUME NEW s \in Senders, SendStart(s) \/ SendAnswered(s) \/ SendReplays(s) PROVE Fresh
    BY <2>2 DEF IInv, TypeOK, SendStart, SendAnswered, SendReplays, Replay
  <2>3. ASSUME NEW r \in Runners, RunCall(r) PROVE Fresh
    BY <2>3 DEF RunCall, RunTryLock, RunSpawn, RunDropped, RunJoined, RunLeaves
  <2>4. ASSUME NEW r \in Runners, Supervise(r) PROVE Fresh
    BY <2>4 DEF Supervise, SupBegin, SupConnected, SupSessionInit, SupLogin, SupPublish,
       SupInterrupted, SupFailsTransient, SupFailsFatal, SupOffline, SupCancel, SupJoin,
       SupClose, SupDecide, SupBackoff, SupStop, SupStopPublish, SupHandlers, SupUnlock
  <2>5. ASSUME NEW g \in Generations, Session(g) PROVE Fresh
    BY <2>5 DEF Session, ReadLoopEnds, KeepaliveEnds, WorkerEnds, ServerReconnect
  <2>6. ASSUME NEW c \in Callers, Disconnect(c) PROVE Fresh
    BY <2>6 DEF Disconnect, DisconnectStop, DisconnectPublish, DisconnectLock, DisconnectReturn
  <2>7. ASSUME NEW h \in Handlers, Handle(h) PROVE Fresh
    BY <2>7 DEF Handle, HandlerReturns, HandlerAborted, SupDispatch
  <2> QED BY <2>1, <2>2, <2>3, <2>4, <2>5, <2>6, <2>7 DEF Next, Send
<1> QED BY <1>1, Invariance, PTL DEF Spec, SendNeverReusesSession
=============================================================================
