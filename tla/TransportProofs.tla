--------------------------- MODULE TransportProofs ---------------------------
(***************************************************************************)
(* What holds of Transport for any calls, and what holds as long as the    *)
(* sequence counter does not wrap while they are under way. The first part *)
(* is about the table alone; the second numbers the calls and ends in the  *)
(* refinement of RequestReply.                                             *)
(***************************************************************************)
EXTENDS Transport, FiniteSetTheorems, TLAPS

USE DEF lockVars, stateVars, callVars, serverVars, readerVars, closeVars

\* Before its registration.
Early == {"idle", "ordering", "numbered"}

\* An entry is stored under the number of its call, which is past its
\* registration; there is none for a call that got its answer or lost its sender.
EntryInv ==
    /\ \A n \in Seqs, c \in Calls :
          pending[n] = c => /\ seq[c] = n
                            /\ pc[c] \notin Early
                            /\ inbox[c] = None
    /\ \A c \in Calls : pc[c] \in Early => inbox[c] = None

TableInv == TypeOK /\ EntryInv /\ NoWaiterLost

\* Wrapping addition stays within the numbers there are.
LEMMA NextSeqIsSeq == ASSUME nextSeq \in Seqs PROVE NextSeq \in Seqs
BY ModulusAssumption DEF Seqs, NextSeq

\* The transport starts well.
LEMMA TableInit == ASSUME Init PROVE TableInv
<1>1. TypeOK
  <2>1. 0 \in Seqs /\ 1 \in Seqs /\ 0 \in 0 .. MaxPushes
    BY ModulusAssumption, PushesAssumption DEF Seqs
  <2>2. pc \in [Calls -> CallPcs]
    BY DEF Init, CallPcs
  <2>3. wire \in Seq(Calls)
    BY DEF Init
  <2> QED BY <2>1, <2>2, <2>3 DEF Init, TypeOK
<1>2. EntryInv
  BY NamesAssumption DEF Init, EntryInv, Early
<1>3. NoWaiterLost
  BY DEF Init, NoWaiterLost, Alive, Waiting
<1> QED BY <1>1, <1>2, <1>3 DEF TableInv

\* Every action keeps the types.
LEMMA TypeStep == ASSUME TypeOK, [Next]_vars PROVE TypeOK'
<1> USE DEF TypeOK
<1>1. ASSUME NEW c \in Calls, Call(c) PROVE TypeOK'
  <2> USE DEF CallPcs, InFlight, Waiting, Goto
  <2>1. CASE Invoke(c)
    BY <2>1 DEF Invoke
  <2>2. CASE TakeNumber(c)
    BY <2>2, NextSeqIsSeq DEF TakeNumber
  <2>3. CASE Register(c)
    BY <2>3 DEF Register, Pruned
  <2>4. CASE Duplicate(c)
    BY <2>4 DEF Duplicate, Pruned, UnlockOrder, FailsWith
  <2>5. CASE TakeSink(c)
    BY <2>5 DEF TakeSink
  <2>6. CASE Feed(c)
    BY <2>6 DEF Feed
  <2>7. CASE Flushed(c)
    BY <2>7 DEF Flushed, UnlockSink, UnlockOrder
  <2>8. CASE WriteFails(c)
    BY <2>8 DEF WriteFails, UnlockSink
  <2>9. CASE Unsend(c)
    BY <2>9 DEF Unsend, RemoveEntry, UnlockOrder, FailsWith
  <2>10. CASE Answered(c)
    BY <2>10 DEF Answered
  <2>11. CASE GivesUp(c)
    BY <2>11 DEF GivesUp
  <2>12. CASE Remove(c)
    BY <2>12 DEF Remove, RemoveEntry, FailsWith
  <2>13. CASE Drop(c)
    BY <2>13 DEF Drop, UnlockSink, UnlockOrder
  <2> QED BY <1>1, <2>1, <2>2, <2>3, <2>4, <2>5, <2>6, <2>7, <2>8, <2>9, <2>10, <2>11, <2>12, <2>13
          DEF Call, Proceed
<1>2. ASSUME NEW c \in Calls, Serve(c) PROVE TypeOK'
  BY <1>2 DEF Serve
<1>3. ASSUME NEW c \in Calls, ReadResponse(c) PROVE TypeOK'
  BY <1>3 DEF ReadResponse
<1>4. CASE ReadPush
  BY <1>4, PushesAssumption DEF ReadPush
<1>5. CASE AckTakesSink \/ AckEnds
  BY <1>5 DEF AckTakesSink, AckEnds
<1>6. CASE Cancel \/ CloseJoin
  BY <1>6 DEF Cancel, CloseJoin
<1>7. CASE ClosePending \/ CloseSink
  BY <1>7 DEF ClosePending, CloseSink
<1>8. CASE UNCHANGED vars
  BY <1>8 DEF vars
<1> QED BY <1>1, <1>2, <1>3, <1>4, <1>5, <1>6, <1>7, <1>8 DEF Next, Server, ReadLoop, Close

\* A call that moves on without touching the table keeps its relation to it, if
\* it neither goes back before its registration nor comes alive.
LEMMA MoveKeepsTable ==
    ASSUME TypeOK, EntryInv, NoWaiterLost, NEW c \in Calls, NEW label,
           pc' = [pc EXCEPT ![c] = label],
           label \in Early => pc[c] \in Early,
           label \in Waiting => pc[c] \in Waiting,
           UNCHANGED <<pending, inbox>>,
           seq' = seq \/ (pc[c] \in Early /\ seq' = [seq EXCEPT ![c] = nextSeq])
    PROVE  EntryInv' /\ NoWaiterLost'
<1>1. \A d \in Calls : d # c => pc'[d] = pc[d] /\ seq'[d] = seq[d]
  BY DEF TypeOK
<1>2. pc'[c] = label
  BY DEF TypeOK
<1>3. pc[c] \in Early => \A n \in Seqs : pending[n] # c
  BY DEF EntryInv
<1>4. pc[c] \notin Early => seq'[c] = seq[c]
  OBVIOUS
<1>5. EntryInv'
  BY <1>1, <1>2, <1>3, <1>4 DEF EntryInv
<1>6. Early \cap Waiting = {}
  BY DEF Early, Waiting
<1>7. NoWaiterLost'
  BY <1>1, <1>2, <1>4, <1>6 DEF NoWaiterLost, Alive
<1> QED BY <1>5, <1>7

\* So does a step of anybody else.
LEMMA OthersKeepTable ==
    ASSUME EntryInv, NoWaiterLost, UNCHANGED <<pc, pending, inbox, seq>>
    PROVE  EntryInv' /\ NoWaiterLost'
BY DEF EntryInv, NoWaiterLost, Alive

\* Removing an entry tells whoever was stored there; the call that does it is not
\* alive any more.
LEMMA RemovalKeepsTable ==
    ASSUME TypeOK, EntryInv, NoWaiterLost, NEW c \in Calls,
           RemoveEntry(seq[c]),
           pc' = [pc EXCEPT ![c] = "returned"], pc[c] \notin Early, UNCHANGED seq
    PROVE  EntryInv' /\ NoWaiterLost'
<1> DEFINE n0 == seq[c]
<1>1. /\ n0 \in Seqs
      /\ pending' = [pending EXCEPT ![n0] = None]
      /\ inbox' = [d \in Calls |-> IF pending[n0] = d THEN Gone ELSE inbox[d]]
  BY DEF TypeOK, RemoveEntry
<1>2. \A d \in Calls : d # c => pc'[d] = pc[d]
  BY DEF TypeOK
<1>3. pc'[c] = "returned"
  BY DEF TypeOK
<1>4. \A d \in Calls : d # None
  BY NamesAssumption
<1> HIDE DEF n0
<1>5. ASSUME NEW n \in Seqs, NEW d \in Calls, pending'[n] = d
      PROVE  seq[d] = n /\ pc'[d] \notin Early /\ inbox'[d] = None
  <2>1. n # n0 /\ pending[n] = d
    BY <1>1, <1>4, <1>5 DEF TypeOK
  <2>2. seq[d] = n /\ pc[d] \notin Early /\ inbox[d] = None
    BY <2>1 DEF EntryInv
  <2>3. pending[n0] # d
    BY <1>1, <2>1, <2>2 DEF EntryInv
  <2> QED BY <1>1, <1>2, <1>3, <2>2, <2>3 DEF Early
<1>6. ASSUME NEW d \in Calls, pc'[d] \in Early PROVE inbox'[d] = None
  <2>1. d # c /\ pc[d] \in Early
    BY <1>2, <1>3, <1>6 DEF Early
  <2>2. inbox[d] = None /\ pending[n0] # d
    BY <1>1, <2>1 DEF EntryInv
  <2> QED BY <1>1, <2>2
<1>7. EntryInv'
  BY <1>5, <1>6 DEF EntryInv
<1>8. ASSUME NEW d \in Calls, pc'[d] \in Waiting, inbox'[d] = None
      PROVE  pending'[seq[d]] = d
  <2>1. d # c /\ pc[d] \in Waiting
    BY <1>2, <1>3, <1>8 DEF Waiting
  <2>2. pending[n0] # d /\ inbox[d] = None
    BY <1>1, <1>8, NamesAssumption
  <2>3. pending[seq[d]] = d
    BY <2>1, <2>2 DEF NoWaiterLost, Alive
  <2> QED BY <1>1, <2>2, <2>3 DEF TypeOK
<1> QED BY <1>7, <1>8 DEF NoWaiterLost, Alive

\* Every action keeps the table: the pruning removes no entry of a call that is
\* alive, and a registration only takes a free number.
LEMMA TableStep == ASSUME TableInv, [Next]_vars PROVE EntryInv' /\ NoWaiterLost'
<1> USE DEF TableInv
<1>a. \A d \in Calls : d # None
  BY NamesAssumption
<1>b. /\ "ordering" \in Early /\ "numbered" \in Early /\ "idle" \in Early
      /\ \A l \in {"feeding", "flushing", "unsending", "awaiting"} : l \in Waiting /\ l \notin Early
      /\ \A l \in {"removing", "returned", "dropped"} : l \notin Waiting /\ l \notin Early
      /\ "ordering" \notin Waiting /\ "numbered" \notin Waiting /\ "registered" \in Waiting
  BY DEF Early, Waiting
<1>1. ASSUME NEW c \in Calls, Invoke(c) \/ TakeNumber(c) PROVE EntryInv' /\ NoWaiterLost'
  <2>1. \E label \in {"ordering", "numbered"} : pc' = [pc EXCEPT ![c] = label]
    BY <1>1 DEF Invoke, TakeNumber, Goto
  <2>2. pending' = pending /\ inbox' = inbox /\ pc[c] \in Early
        /\ (seq' = seq \/ seq' = [seq EXCEPT ![c] = nextSeq])
    BY <1>1, <1>b DEF Invoke, TakeNumber
  <2> QED BY <2>1, <2>2, <1>b, MoveKeepsTable
<1>2. ASSUME NEW c \in Calls, TakeSink(c) \/ Feed(c) \/ Flushed(c) \/ WriteFails(c)
      PROVE  EntryInv' /\ NoWaiterLost'
  <2>1. \E label \in {"feeding", "flushing", "unsending", "awaiting"} : pc' = [pc EXCEPT ![c] = label]
    BY <1>2 DEF TakeSink, Feed, Flushed, WriteFails, Goto
  <2>2. pending' = pending /\ inbox' = inbox /\ seq' = seq
    BY <1>2 DEF TakeSink, Feed, Flushed, WriteFails
  <2>3. pc[c] \in Waiting
    BY <1>2, <1>b DEF TakeSink, Feed, Flushed, WriteFails
  <2> QED BY <2>1, <2>2, <2>3, <1>b, MoveKeepsTable
<1>10. ASSUME NEW c \in Calls, Answered(c) \/ GivesUp(c) \/ Drop(c)
      PROVE  EntryInv' /\ NoWaiterLost'
  <2>1. \E label \in {"removing", "returned", "dropped"} : pc' = [pc EXCEPT ![c] = label]
    BY <1>10 DEF Answered, GivesUp, Drop, Goto
  <2>2. pending' = pending /\ inbox' = inbox /\ seq' = seq
    BY <1>10 DEF Answered, GivesUp, Drop
  <2> QED BY <2>1, <2>2, <1>b, MoveKeepsTable
<1>3. ASSUME NEW c \in Calls, Register(c) PROVE EntryInv' /\ NoWaiterLost'
  <2>1. /\ seq[c] \in Seqs /\ Pruned[seq[c]] = None
        /\ pending' = [Pruned EXCEPT ![seq[c]] = c]
        /\ pc' = [pc EXCEPT ![c] = "registered"]
        /\ seq' = seq /\ inbox' = inbox
        /\ pc[c] = "numbered"
    BY <1>3 DEF Register, Goto, Taken, TypeOK
  <2>2. \A n \in Seqs : Pruned[n] # None => Pruned[n] = pending[n]
    BY DEF Pruned
  <2>3. \A n \in Seqs, d \in Calls : pending'[n] = d => \/ n = seq[c] /\ d = c
                                                        \/ n # seq[c] /\ pending[n] = d
    BY <2>1, <2>2, <1>a DEF Pruned
  <2>4. \A d \in Calls : d # c => pc'[d] = pc[d]
    BY <2>1 DEF TypeOK
  <2>5. pc'[c] = "registered" /\ pc'[c] \notin Early
    BY <2>1 DEF TypeOK, Early
  <2>6. inbox[c] = None
    BY <2>1 DEF EntryInv, Early
  <2>7. EntryInv'
    BY <2>1, <2>3, <2>4, <2>5, <2>6 DEF EntryInv
  <2>8. ASSUME NEW d \in Calls, d # c, pc[d] \in Waiting, inbox[d] = None PROVE pending'[seq[d]] = d
    <3>1. pending[seq[d]] = d /\ seq[d] \in Seqs
      BY <2>8 DEF NoWaiterLost, Alive, TypeOK
    <3>2. Pruned[seq[d]] = d
      BY <2>8, <3>1 DEF Pruned, Alive
    <3>3. seq[d] # seq[c]
      BY <3>2, <2>1, <1>a
    <3> QED BY <2>1, <3>1, <3>2, <3>3 DEF Pruned
  <2>9. pending'[seq[c]] = c
    BY <2>1 DEF Pruned
  <2> QED BY <2>1, <2>4, <2>7, <2>8, <2>9 DEF NoWaiterLost, Alive
<1>4. ASSUME NEW c \in Calls, Duplicate(c) PROVE EntryInv' /\ NoWaiterLost'
  <2>1. /\ pending' = Pruned /\ pc' = [pc EXCEPT ![c] = "returned"]
        /\ seq' = seq /\ inbox' = inbox
    BY <1>4 DEF Duplicate, FailsWith, Goto
  <2>2. \A n \in Seqs : pending'[n] # None => pending'[n] = pending[n]
    BY <2>1 DEF Pruned
  <2>3. \A d \in Calls : d # c => pc'[d] = pc[d]
    BY <2>1 DEF TypeOK
  <2>4. pc'[c] = "returned" /\ pc'[c] \notin Early /\ pc'[c] \notin Waiting
    BY <2>1 DEF TypeOK, Early, Waiting
  <2>5. EntryInv'
    BY <2>1, <2>2, <2>3, <2>4, <1>a DEF EntryInv
  <2>6. \A d \in Calls, n \in Seqs : pending[n] = d /\ pc[d] \in Waiting => pending'[n] = d
    BY <2>1, <1>a DEF Pruned, Alive
  <2> QED BY <2>1, <2>3, <2>4, <2>5, <2>6 DEF NoWaiterLost, Alive, TypeOK
<1>5. ASSUME NEW c \in Calls, Unsend(c) \/ Remove(c) PROVE EntryInv' /\ NoWaiterLost'
  BY <1>5, RemovalKeepsTable DEF Unsend, Remove, FailsWith, Goto, Early
<1>6. ASSUME NEW c \in Calls, ReadResponse(c) PROVE EntryInv' /\ NoWaiterLost'
  <2>1. /\ pending' = [pending EXCEPT ![seq[c]] = None]
        /\ inbox' = [d \in Calls |-> IF pending[seq[c]] = d /\ Alive(d) THEN c ELSE inbox[d]]
        /\ pc' = pc /\ seq' = seq /\ seq[c] \in Seqs
    BY <1>6 DEF ReadResponse, TypeOK
  <2>2. \A n \in Seqs, d \in Calls : pending'[n] = d => n # seq[c] /\ pending[n] = d
    BY <2>1, <1>a DEF TypeOK
  <2>3. \A n \in Seqs, d \in Calls : pending'[n] = d => pending[seq[c]] # d
    BY <2>1, <2>2 DEF EntryInv
  <2>4. \A d \in Calls : pc[d] \in Early => pending[seq[c]] # d
    BY <2>1 DEF EntryInv
  <2>5. EntryInv'
    BY <2>1, <2>2, <2>3, <2>4 DEF EntryInv
  <2>6. \A d \in Calls : Alive(d) /\ inbox'[d] = None => pending[seq[c]] # d /\ inbox[d] = None
    BY <2>1, <1>a
  <2> QED BY <2>1, <2>5, <2>6 DEF NoWaiterLost, Alive, TypeOK
<1>7. CASE ClosePending
  <2>1. /\ \A n \in Seqs : pending'[n] = None
        /\ inbox' = [d \in Calls |-> IF \E n \in Seqs : pending[n] = d THEN Gone ELSE inbox[d]]
        /\ pc' = pc /\ seq' = seq
    BY <1>7 DEF ClosePending
  <2>2. EntryInv'
    BY <2>1, <1>a DEF EntryInv
  <2>3. ASSUME NEW d \in Calls, Alive(d), inbox'[d] = None PROVE FALSE
    <3>1. inbox[d] = None /\ pending[seq[d]] # d
      BY <2>1, <2>3, NamesAssumption DEF TypeOK
    <3> QED BY <2>3, <3>1 DEF NoWaiterLost
  <2> QED BY <2>1, <2>2, <2>3 DEF NoWaiterLost, Alive
<1>8. ASSUME (\E c \in Calls : Serve(c)) \/ ReadPush \/ AckTakesSink \/ AckEnds \/ Cancel \/ CloseJoin \/ CloseSink
      PROVE  EntryInv' /\ NoWaiterLost'
  <2>1. UNCHANGED <<pc, pending, inbox, seq>>
    BY <1>8 DEF Serve, ReadPush, AckTakesSink, AckEnds, Cancel, CloseJoin, CloseSink
  <2> QED BY <2>1, OthersKeepTable
<1>9. CASE UNCHANGED vars
  BY <1>9, OthersKeepTable DEF vars
<1> QED BY <1>1, <1>2, <1>3, <1>4, <1>5, <1>6, <1>7, <1>8, <1>9, <1>10
        DEF Next, Call, Proceed, Server, ReadLoop, Close

\* The table and the calls agree in every reachable state, whether the counter
\* wraps or not.
THEOREM TableInvariance == Spec => []TableInv
<1>1. Init => TableInv
  BY TableInit
<1>2. TableInv /\ [Next]_vars => TableInv'
  BY TypeStep, TableStep DEF TableInv
<1> QED BY <1>1, <1>2, PTL DEF Spec

\* Every variable of Transport keeps its type.
THEOREM TransportTypeCorrect == Spec => []TypeOK
BY TableInvariance, PTL DEF TableInv

\* NoWaiterLost: a call that waits without an answer is stored under its number,
\* so its response finds it, also after a wrap.
THEOREM WaitersAreKept == Spec => []NoWaiterLost
BY TableInvariance, PTL DEF TableInv

\* NoWaiterReplaced: whoever waits under a number is never replaced there.
THEOREM WaitersAreNotReplaced == Spec => NoWaiterReplaced
<1>1. TableInv /\ [Next]_vars => \A n \in Seqs, c \in Calls :
          pending[n] = c /\ Alive(c) => pending'[n] \in {c, None}
  <2> SUFFICES ASSUME TableInv, [Next]_vars, NEW n \in Seqs, NEW c \in Calls, pending[n] = c, Alive(c)
               PROVE  pending'[n] \in {c, None}
    OBVIOUS
  <2> USE DEF TableInv
  <2>1. c # None /\ Pruned[n] = c
    BY NamesAssumption DEF Pruned
  <2>2. ASSUME NEW d \in Calls, Register(d) PROVE pending'[n] = c
    <3>1. Pruned[seq[d]] = None /\ pending' = [Pruned EXCEPT ![seq[d]] = d]
      BY <2>2 DEF Register, Taken
    <3> QED BY <2>1, <3>1 DEF Pruned
  <2>3. ASSUME NEW d \in Calls, Duplicate(d) PROVE pending'[n] = c
    BY <2>1, <2>3 DEF Duplicate
  <2>4. ASSUME NEW d \in Calls, Unsend(d) \/ Remove(d) \/ ReadResponse(d) PROVE pending'[n] \in {c, None}
    BY <2>4 DEF Unsend, Remove, RemoveEntry, ReadResponse, TypeOK
  <2>5. ASSUME NEW d \in Calls, Call(d), ~Register(d), ~Duplicate(d), ~Unsend(d), ~Remove(d)
        PROVE  pending' = pending
    BY <2>5 DEF Call, Proceed, Invoke, TakeNumber, TakeSink, Feed, Flushed, WriteFails,
                Answered, GivesUp, Drop
  <2>6. CASE ClosePending
    BY <2>6 DEF ClosePending
  <2>7. CASE (\E d \in Calls : Serve(d)) \/ ReadPush \/ AckTakesSink \/ AckEnds \/ Cancel
             \/ CloseJoin \/ CloseSink \/ UNCHANGED vars
    BY <2>7 DEF Serve, ReadPush, AckTakesSink, AckEnds, Cancel, CloseJoin, CloseSink, vars
  <2> QED BY <2>2, <2>3, <2>4, <2>5, <2>6, <2>7 DEF Next, Server, ReadLoop, Close
<1> QED BY <1>1, TableInvariance, PTL DEF Spec, NoWaiterReplaced

\* DuplicateMeansInFlight: a call is refused only for a number that another call
\* is waiting under.
THEOREM DuplicatesAreInFlight == Spec => DuplicateMeansInFlight
<1>1. TableInv /\ [Next]_vars => \A c \in Calls : result'[c] = "duplicate" /\ result[c] = "none" =>
          \E d \in Calls \ {c} : Alive(d) /\ seq[d] = seq[c]
  <2> SUFFICES ASSUME TableInv, [Next]_vars, NEW c \in Calls,
                      result'[c] = "duplicate", result[c] = "none"
               PROVE  \E d \in Calls \ {c} : Alive(d) /\ seq[d] = seq[c]
    OBVIOUS
  <2> USE DEF TableInv
  <2>1. ASSUME NEW d \in Calls, Unsend(d) \/ Remove(d) \/ Answered(d) PROVE FALSE
    BY <2>1 DEF Unsend, Remove, Answered, FailsWith, TypeOK
  <2>2. ASSUME NEW d \in Calls, Call(d), ~Duplicate(d), ~Unsend(d), ~Remove(d), ~Answered(d) PROVE FALSE
    <3>1. result' = result
      BY <2>2 DEF Call, Proceed, Invoke, TakeNumber, Register, TakeSink, Feed, Flushed, WriteFails,
                  GivesUp, Drop
    <3> QED BY <3>1
  <2>3. ASSUME (\E d \in Calls : Serve(d) \/ ReadResponse(d)) \/ ReadPush \/ AckTakesSink \/ AckEnds
               \/ Close \/ UNCHANGED vars
        PROVE  FALSE
    <3>1. result' = result
      BY <2>3 DEF Serve, ReadResponse, ReadPush, AckTakesSink, AckEnds, Close, Cancel, CloseJoin,
                  ClosePending, CloseSink, vars
    <3> QED BY <3>1
  <2>4. PICK d \in Calls : Duplicate(d)
    BY <2>1, <2>2, <2>3 DEF Next, Server, ReadLoop
  <2>5. d = c
    BY <2>4 DEF Duplicate, FailsWith, TypeOK
  <2>6. seq[c] \in Seqs /\ pc[c] = "numbered" /\ Pruned[seq[c]] # None
    BY <2>4, <2>5 DEF Duplicate, Taken, TypeOK
  <2>7. pending[seq[c]] # None /\ Alive(pending[seq[c]]) /\ pending[seq[c]] \in Calls
    BY <2>6 DEF Pruned, TypeOK
  <2>8. seq[pending[seq[c]]] = seq[c]
    BY <2>6, <2>7 DEF EntryInv
  <2> QED BY <2>6, <2>7, <2>8 DEF Alive, Waiting
<1> QED BY <1>1, TableInvariance, PTL DEF Spec, DuplicateMeansInFlight

-----------------------------------------------------------------------------
(* The two locks, and which answer reaches a call, whether the counter      *)
(* wraps or not.                                                           *)

\* From the allocation of its number to the end of its write.
Sending == {"numbered", "registered", "feeding", "flushing", "unsending"}

\* Writing its frame to the sink.
Writing == {"feeding", "flushing"}

\* Who holds a lock is at a step that gives it back, and nobody else is there.
LockInv ==
    /\ \A c \in Calls : sendOrder = c <=> pc[c] \in Sending
    /\ \A c \in Calls : sinkLock = c <=> pc[c] \in Writing
    /\ sinkLock = Reader <=> reader = "acking"

\* An answer is to a frame that was sent, and has the number of whoever gets it.
FitInv ==
    /\ replies \subseteq served
    /\ served \subseteq OnWire
    /\ \A c \in OnWire : pc[c] \notin Early
    /\ \A c \in Calls : inbox[c] \in Calls => inbox[c] \in served /\ seq[inbox[c]] = seq[c]
    /\ \A c \in Calls : result[c] = "response" => inbox[c] \in Calls

\* The calls on the wire, and one more frame.
LEMMA OnWireType == ASSUME TypeOK PROVE OnWire \subseteq Calls
BY DEF TypeOK, OnWire

LEMMA OnWireAppend ==
    ASSUME TypeOK, NEW c \in Calls, wire' = Append(wire, c)
    PROVE  OnWire' = OnWire \cup {c}
<1>1. wire \in Seq(Calls)
  BY DEF TypeOK
<1>2. DOMAIN wire = 1 .. Len(wire) /\ DOMAIN wire' = 1 .. Len(wire) + 1 /\ Len(wire) \in Nat
  BY <1>1
<1>3. wire'[Len(wire) + 1] = c /\ \A i \in 1 .. Len(wire) : wire'[i] = wire[i]
  BY <1>1
<1>4. 1 .. Len(wire) + 1 = (1 .. Len(wire)) \cup {Len(wire) + 1}
  BY <1>2
<1> QED BY <1>2, <1>3, <1>4 DEF OnWire

\* Every action keeps the locks with their holders.
LEMMA LockStep == ASSUME TableInv, LockInv, [Next]_vars PROVE LockInv'
<1> USE DEF TableInv, TypeOK, LockInv
<1>0. None \notin Calls /\ Reader \notin Calls /\ Reader # None
  BY NamesAssumption
<1>1. ASSUME NEW c \in Calls, Call(c) PROVE LockInv'
  <2> USE <1>0 DEF Goto, Sending, Writing
  <2>1. CASE Invoke(c)
    BY <2>1 DEF Invoke
  <2>2. CASE TakeNumber(c)
    BY <2>2 DEF TakeNumber
  <2>3. CASE Register(c)
    BY <2>3 DEF Register
  <2>4. CASE Duplicate(c)
    BY <2>4 DEF Duplicate, UnlockOrder, FailsWith
  <2>5. CASE TakeSink(c)
    BY <2>5 DEF TakeSink
  <2>6. CASE Feed(c)
    BY <2>6 DEF Feed
  <2>7. CASE Flushed(c)
    BY <2>7 DEF Flushed, UnlockSink, UnlockOrder
  <2>8. CASE WriteFails(c)
    BY <2>8 DEF WriteFails, UnlockSink
  <2>9. CASE Unsend(c)
    BY <2>9 DEF Unsend, UnlockOrder, FailsWith
  <2>10. CASE Answered(c)
    BY <2>10 DEF Answered
  <2>11. CASE GivesUp(c)
    BY <2>11 DEF GivesUp
  <2>12. CASE Remove(c)
    BY <2>12 DEF Remove, FailsWith
  <2>13. CASE Drop(c)
    BY <2>13 DEF Drop, UnlockSink, UnlockOrder
  <2> QED BY <1>1, <2>1, <2>2, <2>3, <2>4, <2>5, <2>6, <2>7, <2>8, <2>9, <2>10, <2>11, <2>12, <2>13
          DEF Call, Proceed
<1>2. CASE AckTakesSink \/ AckEnds
  BY <1>0, <1>2 DEF AckTakesSink, AckEnds
<1>3. CASE CloseJoin
  BY <1>0, <1>3 DEF CloseJoin
<1>4. CASE ReadPush
  BY <1>4 DEF ReadPush
<1>5. ASSUME (\E c \in Calls : Serve(c) \/ ReadResponse(c)) \/ Cancel \/ ClosePending \/ CloseSink
             \/ UNCHANGED vars
      PROVE  LockInv'
  BY <1>5 DEF Serve, ReadResponse, Cancel, ClosePending, CloseSink, vars
<1> QED BY <1>1, <1>2, <1>3, <1>4, <1>5 DEF Next, Server, ReadLoop, Close

\* What a step does to the wire, the numbers and the answers that came.
LEMMA FitStep == ASSUME TableInv, FitInv, [Next]_vars PROVE FitInv'
<1> USE DEF TableInv
<1>0. /\ None \notin Calls /\ Gone \notin Calls /\ OnWire \subseteq Calls
      /\ \A d \in Calls : inbox[d] # None => pc[d] \notin Early
  BY NamesAssumption, OnWireType DEF EntryInv
<1>1. ASSUME NEW c \in Calls, Call(c)
      PROVE  /\ UNCHANGED <<served, replies>>
             /\ OnWire \subseteq OnWire' /\ \A d \in OnWire' \ OnWire : pc'[d] \notin Early
             /\ \A d \in Calls : pc[d] \notin Early => pc'[d] \notin Early /\ seq'[d] = seq[d]
             /\ \A d \in Calls : inbox'[d] # inbox[d] => inbox[d] = None /\ inbox'[d] = Gone
             /\ \A d \in Calls : result'[d] = "response" => result[d] = "response" \/ inbox[d] \in Calls
  <2> USE DEF Goto, Early, TypeOK
  <2>1. CASE Feed(c)
    <3>1. pc' = [pc EXCEPT ![c] = "flushing"] /\ OnWire' = OnWire \cup {c}
          /\ UNCHANGED <<served, replies, seq, inbox, result>>
      BY <2>1, OnWireAppend DEF Feed
    <3> QED BY <3>1
  <2>2. CASE Unsend(c) \/ Remove(c)
    <3>1. /\ inbox' = [d \in Calls |-> IF pending[seq[c]] = d THEN Gone ELSE inbox[d]]
          /\ result' = [result EXCEPT ![c] = "failed"] /\ wire' = wire
          /\ pc' = [pc EXCEPT ![c] = "returned"]
          /\ UNCHANGED <<served, replies, seq>> /\ seq[c] \in Seqs
      BY <2>2 DEF Unsend, Remove, RemoveEntry, FailsWith
    <3>2. \A d \in Calls : inbox'[d] # inbox[d] => pending[seq[c]] = d /\ inbox'[d] = Gone
      BY <3>1
    <3>3. OnWire' = OnWire
      BY <3>1 DEF OnWire
    <3> QED BY <3>1, <3>2, <3>3 DEF EntryInv
  <2>3. CASE Answered(c)
    <3>1. OnWire' = OnWire
      BY <2>3 DEF Answered, OnWire
    <3> QED BY <2>3, <3>1 DEF Answered
  <2>4. CASE Duplicate(c)
    <3>1. OnWire' = OnWire
      BY <2>4 DEF Duplicate, OnWire
    <3> QED BY <2>4, <3>1 DEF Duplicate, FailsWith
  <2>5. CASE Invoke(c) \/ TakeNumber(c)
    <3>1. UNCHANGED <<served, replies, wire, inbox, result>> /\ pc[c] \in {"idle", "ordering"}
          /\ (seq' = seq \/ seq' = [seq EXCEPT ![c] = nextSeq])
          /\ \E label \in {"ordering", "numbered"} : pc' = [pc EXCEPT ![c] = label]
      BY <2>5 DEF Invoke, TakeNumber
    <3>2. OnWire' = OnWire
      BY <3>1 DEF OnWire
    <3> QED BY <3>1, <3>2
  <2>6. CASE Register(c) \/ TakeSink(c) \/ Flushed(c) \/ WriteFails(c) \/ GivesUp(c) \/ Drop(c)
    <3>1. UNCHANGED <<served, replies, wire, inbox, result, seq>>
          /\ \E label \in CallPcs \ Early : pc' = [pc EXCEPT ![c] = label]
      BY <2>6 DEF Register, TakeSink, Flushed, WriteFails, GivesUp, Drop, CallPcs, InFlight, Waiting
    <3>2. OnWire' = OnWire
      BY <3>1 DEF OnWire
    <3> QED BY <3>1, <3>2
  <2> QED BY <1>1, <2>1, <2>2, <2>3, <2>4, <2>5, <2>6 DEF Call, Proceed
<1>2. ASSUME NEW c \in Calls, Call(c) PROVE FitInv'
  <2>1. \A d \in Calls : inbox'[d] \in Calls => inbox[d] \in Calls /\ inbox'[d] = inbox[d]
    BY <1>0, <1>1, <1>2
  <2>2. \A d \in Calls : inbox'[d] \in Calls => inbox'[d] \in served' /\ seq'[inbox'[d]] = seq'[d]
    <3> SUFFICES ASSUME NEW d \in Calls, inbox'[d] \in Calls
                 PROVE  inbox'[d] \in served' /\ seq'[inbox'[d]] = seq'[d]
      OBVIOUS
    <3>1. inbox[d] \in served /\ inbox'[d] = inbox[d] /\ seq[inbox[d]] = seq[d]
      BY <2>1 DEF FitInv
    <3>2. pc[d] \notin Early /\ pc[inbox[d]] \notin Early /\ inbox[d] \in Calls
      BY <1>0, <2>1, <3>1 DEF FitInv
    <3> QED BY <1>1, <1>2, <3>1, <3>2
  <2>3. \A d \in OnWire' : pc'[d] \notin Early
    BY <1>0, <1>1, <1>2 DEF FitInv
  <2>4. \A d \in Calls : result'[d] = "response" => inbox'[d] \in Calls
    BY <1>0, <1>1, <1>2 DEF FitInv
  <2> QED BY <1>1, <1>2, <2>2, <2>3, <2>4 DEF FitInv
<1>3. ASSUME NEW c \in Calls, Serve(c) PROVE FitInv'
  <2>1. UNCHANGED <<wire, inbox, result, pc, seq>> /\ c \in OnWire
        /\ served' = served \cup {c} /\ replies' = replies \cup {c}
    BY <1>3 DEF Serve
  <2> QED BY <2>1 DEF FitInv, OnWire
<1>4. ASSUME NEW c \in Calls, ReadResponse(c) PROVE FitInv'
  <2>1. /\ c \in replies /\ replies' \subseteq replies
        /\ inbox' = [d \in Calls |-> IF pending[seq[c]] = d /\ Alive(d) THEN c ELSE inbox[d]]
        /\ UNCHANGED <<wire, served, result, pc, seq>> /\ seq[c] \in Seqs
    BY <1>4 DEF ReadResponse, TypeOK
  <2>2. \A d \in Calls : pending[seq[c]] = d => seq[d] = seq[c]
    BY <2>1 DEF EntryInv
  <2>3. \A d \in Calls : inbox'[d] = inbox[d] \/ (inbox'[d] = c /\ seq[d] = seq[c])
    BY <2>1, <2>2
  <2>4. OnWire' = OnWire /\ c \in served
    BY <2>1 DEF OnWire, FitInv
  <2> QED BY <2>1, <2>3, <2>4 DEF FitInv
<1>5. CASE ClosePending
  <2>1. /\ inbox' = [d \in Calls |-> IF \E n \in Seqs : pending[n] = d THEN Gone ELSE inbox[d]]
        /\ UNCHANGED <<wire, served, replies, result, pc, seq>>
    BY <1>5 DEF ClosePending
  <2>2. \A d \in Calls : inbox'[d] # inbox[d] => inbox[d] = None /\ inbox'[d] = Gone
    BY <2>1 DEF EntryInv
  <2> QED BY <1>0, <2>1, <2>2 DEF FitInv, OnWire
<1>6. CASE ReadPush \/ AckTakesSink \/ AckEnds \/ Cancel \/ CloseJoin \/ CloseSink \/ UNCHANGED vars
  <2>1. UNCHANGED <<wire, served, replies, inbox, result, pc, seq>>
    BY <1>6 DEF ReadPush, AckTakesSink, AckEnds, Cancel, CloseJoin, CloseSink, vars
  <2> QED BY <2>1 DEF FitInv, OnWire
<1> QED BY <1>2, <1>3, <1>4, <1>5, <1>6 DEF Next, Server, ReadLoop, Close

\* A lock of the transport is held exactly by the call, or the read loop, that is
\* between taking it and giving it back, and by one of them: whoever returned, was
\* dropped at any await or was aborted by close() holds none.
THEOREM LocksHaveHolders == Spec => []LockInv
<1>1. Init => LockInv
  BY NamesAssumption DEF Init, LockInv, Sending, Writing
<1>2. TableInv /\ LockInv /\ [Next]_vars => LockInv'
  BY LockStep
<1> QED BY <1>1, <1>2, TableInvariance, PTL DEF Spec

\* Also over a wrap of the counter, what a call returns is an answer the server
\* gave to a frame with the number of that call: only a frame whose number was
\* given out twice can be answered to the wrong one.
THEOREM AnswersFit ==
    Spec => [](\A c \in Calls : result[c] = "response" =>
                  /\ inbox[c] \in served
                  /\ seq[inbox[c]] = seq[c])
<1>1. Init => FitInv
  BY NamesAssumption DEF Init, FitInv, OnWire
<1>2. TableInv /\ FitInv /\ [Next]_vars => FitInv'
  BY FitStep
<1>3. FitInv => \A c \in Calls : result[c] = "response" =>
                  /\ inbox[c] \in served
                  /\ seq[inbox[c]] = seq[c]
  BY DEF FitInv
<1> QED BY <1>1, <1>2, <1>3, TableInvariance, PTL DEF Spec

-----------------------------------------------------------------------------
(* Without a wrap: fewer calls than numbers. A number then belongs to one   *)
(* call for good, which is what the next three results need.               *)

NoWrap == IsFiniteSet(Calls) /\ Cardinality(Calls) < SeqModulus

\* Calls that took a number; the first is 1, so 0 is nobody's.
Numbered == {c \in Calls : seq[c] # 0}

\* Numbers are taken once each, in order.
NumberInv ==
    /\ nextSeq = (Cardinality(Numbered) + 1) % SeqModulus
    /\ \A c \in Calls : seq[c] <= Cardinality(Numbered)
    /\ \A c, d \in Calls : seq[c] # 0 /\ seq[c] = seq[d] => c = d
    /\ \A c \in Calls : pc[c] \in {"idle", "ordering"} => seq[c] = 0
    /\ \A c \in Calls : pc[c] \in {"numbered", "removing"} \cup Waiting => seq[c] # 0

\* A call that is sending holds send_order, its number is the newest, and its
\* frame is written once.
OrderInv ==
    /\ \A c \in Calls : pc[c] \in Sending => /\ sendOrder = c
                                             /\ \A d \in Calls : seq[d] <= seq[c]
    /\ \A c \in Calls : pc[c] \in {"idle", "ordering", "numbered", "registered", "feeding"} => c \notin OnWire
    /\ \A c \in OnWire : seq[c] # 0
    /\ WireInOrder

\* Answers are answers to requests that were sent, and reach nobody else.
AnswerInv ==
    /\ replies \subseteq served
    /\ served \subseteq OnWire
    /\ \A c \in Calls : inbox[c] \in Calls => inbox[c] = c /\ c \in served
    /\ \A c \in Calls : result[c] = "response" => inbox[c] \in Calls

OnceInv == NumberInv /\ OrderInv /\ AnswerInv

\* The number taken is one more than the numbers given out.
LEMMA TakenNumber ==
    ASSUME NoWrap, TypeOK, NumberInv, NEW c \in Calls, seq[c] = 0,
           seq' = [seq EXCEPT ![c] = nextSeq], nextSeq' = NextSeq
    PROVE  /\ nextSeq = Cardinality(Numbered) + 1
           /\ Cardinality(Numbered)' = Cardinality(Numbered) + 1
           /\ Cardinality(Numbered) \in Nat
           /\ nextSeq' = (Cardinality(Numbered)' + 1) % SeqModulus
<1>1. IsFiniteSet(Numbered) /\ Cardinality(Numbered) \in Nat
  BY FS_Subset, FS_CardinalityType DEF NoWrap, Numbered
<1>2. c \notin Numbered /\ Numbered \cup {c} \in SUBSET Calls
  BY DEF Numbered
<1>3. /\ Cardinality(Numbered \cup {c}) = Cardinality(Numbered) + 1
      /\ Cardinality(Numbered \cup {c}) <= Cardinality(Calls)
  BY <1>1, <1>2, FS_AddElement, FS_Subset DEF NoWrap
<1>4. Cardinality(Numbered) + 1 < SeqModulus /\ SeqModulus \in Nat
  BY <1>1, <1>3, FS_CardinalityType, ModulusAssumption DEF NoWrap
<1>5. nextSeq = Cardinality(Numbered) + 1
  BY <1>1, <1>4 DEF NumberInv
<1>6. nextSeq # 0
  BY <1>1, <1>5
<1>7. Numbered' = Numbered \cup {c}
  BY <1>6 DEF Numbered, TypeOK
<1> QED BY <1>1, <1>3, <1>5, <1>7 DEF NextSeq

\* A number changes only when it is taken, and only taking one leads to the
\* states that need it.
LEMMA NumberKept ==
    ASSUME TypeOK, NumberInv, [Next]_vars, \A c \in Calls : ~TakeNumber(c)
    PROVE  UNCHANGED <<seq, nextSeq>> /\ NumberInv'
<1> DEFINE Without == {"idle", "ordering"}
           With    == {"numbered", "removing"} \cup Waiting
<1>1. UNCHANGED <<seq, nextSeq>> /\ \A c \in Calls : /\ pc'[c] \in Without => pc[c] \in Without
                                                     /\ pc'[c] \in With => pc[c] \in With
  <2>1. ASSUME NEW c \in Calls, Call(c)
        PROVE  /\ seq' = seq /\ nextSeq' = nextSeq
               /\ \E label \in CallPcs : /\ pc' = [pc EXCEPT ![c] = label]
                                         /\ label \in Without => pc[c] \in Without
                                         /\ label \in With => pc[c] \in With
    <3> USE DEF Goto, CallPcs, InFlight, Waiting
    <3>1. CASE Invoke(c)
      BY <3>1 DEF Invoke
    <3>2. CASE Register(c) \/ TakeSink(c) \/ Feed(c)
      BY <3>2 DEF Register, TakeSink, Feed
    <3>3. CASE Flushed(c) \/ WriteFails(c) \/ GivesUp(c)
      BY <3>3 DEF Flushed, WriteFails, GivesUp
    <3>4. CASE Duplicate(c) \/ Unsend(c) \/ Answered(c) \/ Remove(c) \/ Drop(c)
      BY <3>4 DEF Duplicate, Unsend, Answered, Remove, Drop, FailsWith
    <3> QED BY <2>1, <3>1, <3>2, <3>3, <3>4 DEF Call, Proceed
  <2>2. ASSUME NEW c \in Calls, Call(c)
        PROVE  UNCHANGED <<seq, nextSeq>> /\ \A d \in Calls : /\ pc'[d] \in Without => pc[d] \in Without
                                                              /\ pc'[d] \in With => pc[d] \in With
    <3> HIDE DEF Without, With
    <3> QED BY <2>1, <2>2 DEF TypeOK
  <2>3. ASSUME (\E c \in Calls : Serve(c) \/ ReadResponse(c)) \/ ReadPush \/ AckTakesSink \/ AckEnds
               \/ Close \/ UNCHANGED vars
        PROVE  UNCHANGED <<pc, seq, nextSeq>>
    BY <2>3 DEF Serve, ReadResponse, ReadPush, AckTakesSink, AckEnds, Close, Cancel, CloseJoin,
                ClosePending, CloseSink, vars
  <2> QED BY <2>2, <2>3 DEF Next, Server, ReadLoop
<1>2. Cardinality(Numbered)' = Cardinality(Numbered)
  BY <1>1 DEF Numbered
<1> QED BY <1>1, <1>2 DEF NumberInv

\* Calls are numbered once each.
LEMMA NumberStep == ASSUME NoWrap, TypeOK, NumberInv, [Next]_vars PROVE NumberInv'
<1>1. ASSUME NEW c \in Calls, TakeNumber(c) PROVE NumberInv'
  <2> DEFINE K == Cardinality(Numbered)
  <2>1. /\ pc[c] = "ordering" /\ seq[c] = 0
        /\ seq' = [seq EXCEPT ![c] = nextSeq] /\ nextSeq' = NextSeq
        /\ pc' = [pc EXCEPT ![c] = "numbered"]
    BY <1>1 DEF TakeNumber, Goto, NumberInv
  <2>2. nextSeq = K + 1 /\ K' = K + 1 /\ K \in Nat /\ nextSeq' = (K' + 1) % SeqModulus
    BY <2>1, TakenNumber
  <2>3. /\ seq'[c] = K + 1
        /\ \A d \in Calls : seq[d] \in Nat /\ seq[d] <= K
        /\ \A d \in Calls : d # c => seq'[d] = seq[d]
    BY <2>1, <2>2, ModulusAssumption DEF NumberInv, TypeOK, Seqs
  <2>4. \A d \in Calls : d # c => pc'[d] = pc[d]
    BY <2>1 DEF TypeOK
  <2>5. pc'[c] = "numbered"
    BY <2>1 DEF TypeOK
  <2> HIDE DEF K
  <2>6. \A d \in Calls : seq'[d] <= K'
    BY <2>2, <2>3
  <2>7. \A d, e \in Calls : seq'[d] # 0 /\ seq'[d] = seq'[e] => d = e
    BY <2>2, <2>3 DEF NumberInv
  <2>8. \A d \in Calls : pc'[d] \in {"idle", "ordering"} => seq'[d] = 0
    BY <2>3, <2>4, <2>5 DEF NumberInv
  <2>9. \A d \in Calls : pc'[d] \in {"numbered", "removing"} \cup Waiting => seq'[d] # 0
    BY <2>2, <2>3, <2>4 DEF NumberInv
  <2> QED BY <2>2, <2>6, <2>7, <2>8, <2>9 DEF K, NumberInv
<1> QED BY <1>1, NumberKept

\* What a call sends stays in the order of the numbers.
LEMMA OrderStep == ASSUME NoWrap, TypeOK, NumberInv, OrderInv, [Next]_vars PROVE OrderInv'
<1> DEFINE Unsent == {"idle", "ordering", "numbered", "registered", "feeding"}
<1>0. OnWire \subseteq Calls
  BY OnWireType
<1>1. ASSUME NEW c \in Calls, TakeNumber(c) PROVE OrderInv'
  <2>1. /\ pc[c] = "ordering" /\ seq[c] = 0 /\ sendOrder = None /\ sendOrder' = c
        /\ seq' = [seq EXCEPT ![c] = nextSeq] /\ nextSeq' = NextSeq
        /\ pc' = [pc EXCEPT ![c] = "numbered"] /\ wire' = wire
    BY <1>1 DEF TakeNumber, Goto, NumberInv
  <2>2. nextSeq = Cardinality(Numbered) + 1 /\ Cardinality(Numbered) \in Nat
    BY <2>1, TakenNumber
  <2>3. \A d \in Calls : seq[d] \in Nat /\ seq[d] <= nextSeq
    BY <2>2, ModulusAssumption DEF NumberInv, TypeOK, Seqs
  <2>4. seq'[c] = nextSeq /\ \A d \in Calls : d # c => seq'[d] = seq[d] /\ pc'[d] = pc[d]
    BY <2>1 DEF TypeOK
  <2>5. \A d \in Calls : pc[d] \notin Sending
    BY <2>1, NamesAssumption DEF OrderInv
  <2>6. c \notin OnWire /\ OnWire' = OnWire
    BY <2>1 DEF OrderInv, OnWire
  <2>7. \A d \in Calls : pc'[d] \in Sending => sendOrder' = d /\ \A e \in Calls : seq'[e] <= seq'[d]
    BY <2>1, <2>2, <2>3, <2>4, <2>5
  <2>8. \A d \in Calls : pc'[d] \in Unsent => d \notin OnWire'
    BY <2>4, <2>6 DEF OrderInv
  <2>9. \A d \in OnWire' : seq'[d] # 0
    BY <1>0, <2>4, <2>6 DEF OrderInv
  <2>10. WireInOrder'
    <3>1. \A k \in DOMAIN wire : wire[k] \in OnWire
      BY DEF OnWire
    <3>2. \A k \in DOMAIN wire : seq'[wire[k]] = seq[wire[k]]
      BY <3>1, <1>0, <2>4, <2>6
    <3> QED BY <3>2, <2>1 DEF OrderInv, WireInOrder
  <2> QED BY <2>7, <2>8, <2>9, <2>10 DEF OrderInv
<1>2. ASSUME NEW c \in Calls, Feed(c) PROVE OrderInv'
  <2>1. /\ pc[c] = "feeding" /\ pc' = [pc EXCEPT ![c] = "flushing"]
        /\ seq' = seq /\ sendOrder' = sendOrder /\ wire' = Append(wire, c)
    BY <1>2 DEF Feed, Goto
  <2>2. c \notin OnWire /\ seq[c] # 0 /\ \A d \in Calls : seq[d] <= seq[c]
    BY <2>1 DEF NumberInv, OrderInv, Waiting, Sending
  <2>3. OnWire' = OnWire \cup {c}
    BY <2>1, OnWireAppend
  <2>4. pc'[c] = "flushing" /\ \A d \in Calls : d # c => pc'[d] = pc[d]
    BY <2>1 DEF TypeOK
  <2>5. \A d \in Calls : pc'[d] \in Sending => pc[d] \in Sending
    BY <2>1, <2>4 DEF Sending
  <2>6. \A d \in Calls : pc'[d] \in Unsent => d \notin OnWire'
    BY <2>3, <2>4 DEF OrderInv
  <2>7. \A d \in OnWire : seq[d] < seq[c]
    BY <1>0, <2>2, ModulusAssumption DEF NumberInv, TypeOK, Seqs
  <2>8. WireInOrder'
    <3>1. wire \in Seq(Calls)
      BY DEF TypeOK
    <3>2. /\ DOMAIN wire' = 1 .. Len(wire) + 1 /\ DOMAIN wire = 1 .. Len(wire) /\ Len(wire) \in Nat
          /\ wire'[Len(wire) + 1] = c /\ \A k \in DOMAIN wire : wire'[k] = wire[k]
      BY <2>1, <3>1
    <3>3. \A k \in DOMAIN wire : seq[wire[k]] < seq[c]
      BY <2>7 DEF OnWire
    <3>4. ASSUME NEW i \in DOMAIN wire', NEW j \in DOMAIN wire', i < j
          PROVE  seq'[wire'[i]] < seq'[wire'[j]]
      <4>1. i \in DOMAIN wire
        BY <3>2, <3>4
      <4>2. CASE j \in DOMAIN wire
        BY <2>1, <3>2, <3>4, <4>1, <4>2 DEF OrderInv, WireInOrder
      <4>3. CASE j = Len(wire) + 1
        BY <2>1, <3>2, <3>3, <4>1, <4>3
      <4> QED BY <3>2, <4>2, <4>3
    <3> QED BY <3>4 DEF WireInOrder
  <2> QED BY <2>1, <2>2, <2>3, <2>5, <2>6, <2>8 DEF OrderInv
<1>3. ASSUME \A c \in Calls : ~TakeNumber(c) /\ ~Feed(c) PROVE OrderInv'
  <2>1. seq' = seq
    BY <1>3, NumberKept
  <2>2. wire' = wire /\ \A d \in Calls : /\ pc'[d] \in Sending => pc[d] \in Sending /\ sendOrder' = sendOrder
                                         /\ pc'[d] \in Unsent => pc[d] \in Unsent
    <3>1. ASSUME NEW c \in Calls, Call(c)
          PROVE  /\ wire' = wire
                 /\ \E label \in CallPcs : /\ pc' = [pc EXCEPT ![c] = label]
                                           /\ label \in Sending => pc[c] \in Sending
                                           /\ label \in Unsent => pc[c] \in Unsent
                                           /\ label \in Sending => sendOrder' = sendOrder
                 /\ sendOrder' = sendOrder \/ sendOrder = c
      <4> USE DEF Goto, CallPcs, InFlight, Waiting, Sending
      <4>1. CASE Invoke(c)
        BY <4>1 DEF Invoke
      <4>2. CASE Register(c) \/ TakeSink(c)
        BY <4>2 DEF Register, TakeSink
      <4>3. CASE WriteFails(c) \/ GivesUp(c)
        BY <4>3 DEF WriteFails, GivesUp
      <4>4. CASE Flushed(c) \/ Duplicate(c) \/ Unsend(c) \/ Drop(c)
        BY <4>4 DEF Flushed, Duplicate, Unsend, Drop, FailsWith, UnlockOrder
      <4>5. CASE Answered(c) \/ Remove(c)
        BY <4>5 DEF Answered, Remove, FailsWith
      <4> QED BY <1>3, <3>1, <4>1, <4>2, <4>3, <4>4, <4>5 DEF Call, Proceed
    <3>2. ASSUME NEW c \in Calls, Call(c)
          PROVE  wire' = wire /\ \A d \in Calls :
                    /\ pc'[d] \in Sending => pc[d] \in Sending /\ sendOrder' = sendOrder
                    /\ pc'[d] \in Unsent => pc[d] \in Unsent
      <4> HIDE DEF Unsent
      <4> QED BY <3>1, <3>2 DEF TypeOK, OrderInv
    <3>3. ASSUME (\E c \in Calls : Serve(c) \/ ReadResponse(c)) \/ ReadPush \/ AckTakesSink \/ AckEnds
                 \/ Close \/ UNCHANGED vars
          PROVE  UNCHANGED <<pc, wire, sendOrder>>
      BY <3>3 DEF Serve, ReadResponse, ReadPush, AckTakesSink, AckEnds, Close, Cancel, CloseJoin,
                  ClosePending, CloseSink, vars
    <3> QED BY <3>2, <3>3 DEF Next, Server, ReadLoop
  <2>3. OnWire' = OnWire
    BY <2>2 DEF OnWire
  <2>4. WireInOrder'
    BY <2>1, <2>2 DEF OrderInv, WireInOrder
  <2> QED BY <2>1, <2>2, <2>3, <2>4 DEF OrderInv
<1> QED BY <1>1, <1>2, <1>3

\* A response reaches its own call or nobody, and stays there.
LEMMA AnswerStep ==
    ASSUME TableInv, NumberInv, OrderInv, AnswerInv, [Next]_vars PROVE AnswerInv'
<1> USE DEF TableInv
<1>0. /\ OnWire \subseteq Calls /\ replies \subseteq served /\ served \subseteq OnWire
      /\ None \notin Calls /\ Gone \notin Calls
  BY OnWireType, NamesAssumption DEF AnswerInv
<1>1. ASSUME NEW c \in Calls, Call(c)
      PROVE  /\ UNCHANGED <<served, replies>> /\ OnWire \subseteq OnWire'
             /\ \A d \in Calls : inbox'[d] # inbox[d] => inbox[d] = None /\ inbox'[d] = Gone
             /\ \A d \in Calls : result'[d] = "response" => result[d] = "response" \/ inbox[d] \in Calls
  <2>1. CASE Feed(c)
    BY <2>1, OnWireAppend DEF Feed
  <2>2. CASE Answered(c)
    BY <2>2 DEF Answered, OnWire, TypeOK
  <2>3. CASE Unsend(c) \/ Remove(c)
    <3>1. /\ inbox' = [d \in Calls |-> IF pending[seq[c]] = d THEN Gone ELSE inbox[d]]
          /\ result' = [result EXCEPT ![c] = "failed"] /\ wire' = wire
          /\ UNCHANGED <<served, replies>> /\ seq[c] \in Seqs
      BY <2>3 DEF Unsend, Remove, RemoveEntry, FailsWith, TypeOK
    <3>2. \A d \in Calls : inbox'[d] # inbox[d] => pending[seq[c]] = d /\ inbox'[d] = Gone
      BY <3>1
    <3> QED BY <3>1, <3>2 DEF EntryInv, OnWire, TypeOK
  <2>4. CASE Duplicate(c)
    BY <2>4 DEF Duplicate, FailsWith, OnWire, TypeOK
  <2>5. ASSUME ~Feed(c), ~Answered(c), ~Unsend(c), ~Remove(c), ~Duplicate(c)
        PROVE  UNCHANGED <<served, replies, wire, inbox, result>>
    BY <1>1, <2>5 DEF Call, Proceed, Invoke, TakeNumber, Register, TakeSink, Flushed, WriteFails, GivesUp, Drop
  <2> QED BY <2>1, <2>2, <2>3, <2>4, <2>5 DEF OnWire
<1>2. ASSUME NEW c \in Calls, Call(c) PROVE AnswerInv'
  BY <1>0, <1>1, <1>2 DEF AnswerInv
<1>3. ASSUME NEW c \in Calls, Serve(c) PROVE AnswerInv'
  <2>1. UNCHANGED <<wire, inbox, result>> /\ c \in OnWire /\ served' = served \cup {c}
        /\ replies' = replies \cup {c}
    BY <1>3 DEF Serve
  <2> QED BY <2>1 DEF AnswerInv, OnWire
<1>4. ASSUME NEW c \in Calls, ReadResponse(c) PROVE AnswerInv'
  <2>1. /\ c \in replies /\ replies' \subseteq replies
        /\ inbox' = [d \in Calls |-> IF pending[seq[c]] = d /\ Alive(d) THEN c ELSE inbox[d]]
        /\ UNCHANGED <<wire, served, result>> /\ seq[c] \in Seqs
    BY <1>4 DEF ReadResponse, TypeOK
  <2>2. \A d \in Calls : pending[seq[c]] = d => d = c
    BY <1>0, <2>1 DEF EntryInv, NumberInv, OrderInv
  <2>3. \A d \in Calls : inbox'[d] = inbox[d] \/ (d = c /\ inbox'[d] = c)
    BY <2>1, <2>2
  <2>4. OnWire' = OnWire /\ c \in served /\ c \in Calls
    BY <1>0, <2>1 DEF OnWire
  <2>5. \A d \in Calls : inbox'[d] \in Calls => inbox'[d] = d /\ d \in served'
    BY <2>1, <2>3, <2>4 DEF AnswerInv
  <2>6. \A d \in Calls : result'[d] = "response" => inbox'[d] \in Calls
    BY <2>1, <2>3, <2>4 DEF AnswerInv
  <2> QED BY <1>0, <2>1, <2>4, <2>5, <2>6 DEF AnswerInv
<1>5. CASE ClosePending
  <2>1. /\ inbox' = [d \in Calls |-> IF \E n \in Seqs : pending[n] = d THEN Gone ELSE inbox[d]]
        /\ UNCHANGED <<wire, served, replies, result>>
    BY <1>5 DEF ClosePending
  <2>2. \A d \in Calls : inbox'[d] # inbox[d] => inbox[d] = None /\ inbox'[d] = Gone
    BY <2>1 DEF EntryInv
  <2> QED BY <1>0, <2>1, <2>2 DEF AnswerInv, OnWire
<1>6. CASE ReadPush \/ AckTakesSink \/ AckEnds \/ Cancel \/ CloseJoin \/ CloseSink \/ UNCHANGED vars
  <2>1. UNCHANGED <<wire, served, replies, inbox, result>>
    BY <1>6 DEF ReadPush, AckTakesSink, AckEnds, Cancel, CloseJoin, CloseSink, vars
  <2> QED BY <2>1 DEF AnswerInv, OnWire
<1> QED BY <1>2, <1>3, <1>4, <1>5, <1>6 DEF Next, Server, ReadLoop, Close

\* Nothing was numbered, sent or answered yet.
LEMMA OnceInit == ASSUME Init PROVE OnceInv
<1>1. Numbered = {} /\ OnWire = {}
  BY DEF Init, Numbered, OnWire
<1>2. NumberInv
  <2>1. Cardinality(Numbered) = 0 /\ nextSeq = 1 /\ (0 + 1) % SeqModulus = 1
    BY <1>1, FS_EmptySet, ModulusAssumption DEF Init
  <2>2. \A c \in Calls : seq[c] = 0 /\ pc[c] = "idle"
    BY DEF Init
  <2> QED BY <2>1, <2>2 DEF NumberInv, Waiting
<1>3. OrderInv
  BY <1>1 DEF Init, OrderInv, Sending, WireInOrder
<1>4. AnswerInv
  BY NamesAssumption DEF Init, AnswerInv
<1> QED BY <1>2, <1>3, <1>4 DEF OnceInv

\* As long as the counter does not wrap, numbers belong to one call each.
THEOREM OnceInvariance == NoWrap => (Spec => [](TableInv /\ OnceInv))
<1> SUFFICES ASSUME NoWrap PROVE Spec => [](TableInv /\ OnceInv)
  OBVIOUS
<1>1. Init => TableInv /\ OnceInv
  BY TableInit, OnceInit
<1>2. TableInv /\ OnceInv /\ [Next]_vars => TableInv' /\ OnceInv'
  BY TypeStep, TableStep, NumberStep, OrderStep, AnswerStep DEF TableInv, OnceInv
<1> QED BY <1>1, <1>2, PTL DEF Spec

\* ResponseMatches: a call returns the response to its own request, whatever was
\* dropped, timed out, or was answered late or out of order.
THEOREM ResponsesMatch == NoWrap => (Spec => []ResponseMatches)
<1>1. OnceInv => ResponseMatches
  BY DEF OnceInv, AnswerInv, ResponseMatches
<1> QED BY <1>1, OnceInvariance, PTL

\* WireInOrder: frames are written in the order of their numbers.
THEOREM FramesAreInOrder == NoWrap => (Spec => []WireInOrder)
<1>1. OnceInv => WireInOrder
  BY DEF OnceInv, OrderInv
<1> QED BY <1>1, OnceInvariance, PTL

-----------------------------------------------------------------------------
(* The refinement: what a call of Transport has left is what RequestReply   *)
(* says of it.                                                             *)

\* A step of one call changes what is left of that call only.
LEMMA StatusOf ==
    ASSUME TypeOK, NEW c \in Calls, NEW label \in CallPcs, pc' = [pc EXCEPT ![c] = label],
           \A d \in Calls : d # c => result'[d] = result[d]
    PROVE  /\ \A d \in Calls : d # c => Status(d)' = Status(d)
           /\ [d \in Calls |-> Status(d)]' = [[d \in Calls |-> Status(d)] EXCEPT ![c] = Status(c)']
<1>1. \A d \in Calls : d # c => pc'[d] = pc[d]
  BY DEF TypeOK
<1>2. \A d \in Calls : d # c => Status(d)' = Status(d)
  BY <1>1 DEF Status
<1> HIDE DEF Status
<1> QED BY <1>2

\* What the names of the states mean.
LEMMA StatusIs ==
    ASSUME NEW c \in Calls
    PROVE  /\ pc[c] = "idle" => Status(c) = "new"
           /\ pc[c] \in InFlight => Status(c) = "open"
           /\ pc[c] = "dropped" => Status(c) = "failed"
           /\ pc[c] = "returned" /\ result[c] = "response" => Status(c) = "answered"
           /\ pc[c] = "returned" /\ result[c] # "response" => Status(c) = "failed"
BY DEF Status, InFlight, Waiting

\* Every step of a call is one of RequestReply, or none that shows.
LEMMA CallImplements ==
    ASSUME TableInv, OnceInv, NEW c \in Calls, Call(c)
    PROVE  [Abstract!Next]_(Abstract!vars)
<1> DEFINE Left == [d \in Calls |-> Status(d)]
<1> USE DEF TableInv
<1>1. ASSUME NEW label \in CallPcs, pc' = [pc EXCEPT ![c] = label],
             \A d \in Calls : d # c => result'[d] = result[d]
      PROVE  Left' = [Left EXCEPT ![c] = Status(c)'] /\ Left[c] = Status(c) /\ pc'[c] = label
  BY <1>1, StatusOf DEF TypeOK
<1>2. ASSUME UNCHANGED <<pc, result, wire, served>> PROVE UNCHANGED <<Left, OnWire, served>>
  BY <1>2 DEF Status, OnWire
<1>3. \A l \in {"ordering", "numbered", "registered", "feeding", "flushing", "unsending", "awaiting", "removing"} :
          l \in InFlight /\ l \in CallPcs
  BY DEF InFlight, Waiting, CallPcs
<1>4. {"idle", "returned", "dropped"} \subseteq CallPcs
  BY DEF CallPcs
<1>5. UNCHANGED served /\ (wire' = wire \/ Feed(c))
  BY DEF Call, Proceed, Invoke, TakeNumber, Register, Duplicate, TakeSink, Feed, Flushed, WriteFails,
         Unsend, Answered, GivesUp, Remove, Drop
<1>6. ~Feed(c) => OnWire' = OnWire
  BY <1>5 DEF OnWire
<1>7. ASSUME NEW label \in InFlight, pc[c] \in InFlight, pc' = [pc EXCEPT ![c] = label], result' = result
      PROVE  Left' = Left
  <2>1. label \in CallPcs /\ pc'[c] = label
    BY <1>7 DEF CallPcs, TypeOK
  <2>2. Status(c) = "open" /\ Status(c)' = "open"
    BY <1>7, <2>1, StatusIs DEF Status, InFlight, Waiting
  <2> HIDE DEF Left
  <2> QED BY <1>1, <1>7, <2>1, <2>2 DEF Left
<1> USE DEF Abstract!Next, Abstract!vars
<1>8. CASE Invoke(c)
  <2>1. /\ pc[c] = "idle" /\ pc' = [pc EXCEPT ![c] = "ordering"] /\ result' = result
    BY <1>8 DEF Invoke, Goto
  <2>2. Left' = [Left EXCEPT ![c] = Status(c)'] /\ Left[c] = Status(c) /\ pc'[c] = "ordering"
    BY <1>1, <1>3, <2>1
  <2>3. Status(c) = "new" /\ Status(c)' = "open"
    BY <2>1, <2>2 DEF Status, InFlight, Waiting
  <2>4. OnWire' = OnWire
    BY <1>8 DEF Invoke, OnWire
  <2> QED BY <1>5, <2>2, <2>3, <2>4 DEF Abstract!Begin
<1>9. CASE Feed(c)
  <2>1. /\ pc[c] = "feeding" /\ pc' = [pc EXCEPT ![c] = "flushing"] /\ result' = result
        /\ wire' = Append(wire, c)
    BY <1>9 DEF Feed, Goto
  <2>2. Left' = Left
    BY <1>3, <1>7, <2>1
  <2>3. Left[c] = "open"
    BY <1>3, <2>1, StatusIs
  <2>4. OnWire' = OnWire \cup {c} /\ c \notin OnWire
    BY <2>1, OnWireAppend DEF OnceInv, OrderInv
  <2> QED BY <1>5, <2>2, <2>3, <2>4 DEF Abstract!Ask
<1>10. CASE Answered(c)
  <2>1. /\ pc[c] = "awaiting" /\ pc' = [pc EXCEPT ![c] = "returned"]
        /\ result' = [result EXCEPT ![c] = "response"] /\ inbox[c] \in Calls
    BY <1>10 DEF Answered, Goto
  <2>2. Left' = [Left EXCEPT ![c] = Status(c)'] /\ Left[c] = Status(c) /\ pc'[c] = "returned"
    BY <1>1, <1>4, <2>1 DEF TypeOK
  <2>3. Status(c) = "open"
    BY <1>3, <2>1, StatusIs
  <2>4. Status(c)' = "answered"
    BY <2>1, <2>2 DEF Status, InFlight, Waiting, TypeOK
  <2>5. c \in served
    BY <2>1 DEF OnceInv, AnswerInv
  <2>6. OnWire' = OnWire
    BY <1>10 DEF Answered, OnWire
  <2> QED BY <1>5, <2>2, <2>3, <2>4, <2>5, <2>6 DEF Abstract!Return
<1>11. CASE Duplicate(c) \/ Unsend(c) \/ Remove(c) \/ Drop(c)
  <2>1. \E label \in {"returned", "dropped"}, how \in {"failed", "duplicate"} :
           /\ pc[c] \in InFlight /\ pc' = [pc EXCEPT ![c] = label]
           /\ \/ label = "dropped" /\ result' = result
              \/ label = "returned" /\ result' = [result EXCEPT ![c] = how]
    BY <1>3, <1>11 DEF Duplicate, Unsend, Remove, Drop, FailsWith, Goto
  <2>2. Left' = [Left EXCEPT ![c] = Status(c)'] /\ Left[c] = Status(c)
    BY <1>1, <1>4, <2>1 DEF TypeOK
  <2>3. Status(c) = "open"
    BY <2>1, StatusIs
  <2>4. Status(c)' = "failed"
    <3>1. pc'[c] = "dropped" \/ (pc'[c] = "returned" /\ result'[c] # "response")
      BY <2>1 DEF TypeOK
    <3> QED BY <3>1 DEF Status, InFlight, Waiting
  <2>5. OnWire' = OnWire
    BY <1>11 DEF Duplicate, Unsend, Remove, Drop, OnWire
  <2> QED BY <1>5, <2>2, <2>3, <2>4, <2>5 DEF Abstract!Fail
<1>12. CASE TakeNumber(c) \/ Register(c) \/ TakeSink(c) \/ Flushed(c) \/ WriteFails(c) \/ GivesUp(c)
  <2>1. \E label \in InFlight : /\ pc[c] \in InFlight /\ pc' = [pc EXCEPT ![c] = label]
                                /\ result' = result
    BY <1>3, <1>12 DEF TakeNumber, Register, TakeSink, Flushed, WriteFails, GivesUp, Goto
  <2>2. Left' = Left
    BY <1>7, <2>1
  <2>3. OnWire' = OnWire
    BY <1>12 DEF TakeNumber, Register, TakeSink, Flushed, WriteFails, GivesUp, OnWire
  <2> QED BY <1>5, <2>2, <2>3
<1> QED BY <1>8, <1>9, <1>10, <1>11, <1>12 DEF Call, Proceed

\* ImplementsRequestReply: behind locks, numbers, table, late answers and close(),
\* a call asks at most once and returns only what the server answered to it.
THEOREM TransportImplements == NoWrap => (Spec => ImplementsRequestReply)
<1> SUFFICES ASSUME NoWrap PROVE Spec => Abstract!Spec
  BY DEF ImplementsRequestReply
<1>1. Init => Abstract!Init
  <2>1. ASSUME Init PROVE OnWire = {} /\ served = {} /\ \A c \in Calls : Status(c) = "new"
    BY <2>1, StatusIs DEF Init, OnWire
  <2> QED BY <2>1 DEF Abstract!Init
<1>2. TableInv /\ OnceInv /\ [Next]_vars => [Abstract!Next]_(Abstract!vars)
  <2> SUFFICES ASSUME TableInv, OnceInv, [Next]_vars PROVE [Abstract!Next]_(Abstract!vars)
    OBVIOUS
  <2>1. ASSUME NEW c \in Calls, Serve(c) PROVE Abstract!Next
    <3>1. UNCHANGED <<pc, result, wire>> /\ c \in OnWire \ served /\ served' = served \cup {c}
      BY <2>1 DEF Serve
    <3>2. UNCHANGED <<[d \in Calls |-> Status(d)], OnWire>>
      BY <3>1 DEF Status, OnWire
    <3> QED BY <3>1, <3>2 DEF Abstract!Next, Abstract!Answer
  <2>2. ASSUME (\E c \in Calls : ReadResponse(c)) \/ ReadPush \/ AckTakesSink \/ AckEnds
               \/ Close \/ UNCHANGED vars
        PROVE  UNCHANGED Abstract!vars
    <3>1. UNCHANGED <<pc, result, wire, served>>
      BY <2>2 DEF ReadResponse, ReadPush, AckTakesSink, AckEnds, Close, Cancel, CloseJoin,
                  ClosePending, CloseSink, vars
    <3> QED BY <3>1 DEF Abstract!vars, Status, OnWire
  <2> QED BY <2>1, <2>2, CallImplements DEF Next, Server, ReadLoop
<1> QED BY <1>1, <1>2, OnceInvariance, PTL DEF Spec, Abstract!Spec
=============================================================================
