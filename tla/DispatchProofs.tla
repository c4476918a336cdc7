---------------------------- MODULE DispatchProofs ----------------------------
(***************************************************************************)
(* What holds of Dispatch for any number of pushes and sessions. A push    *)
(* goes from socket to reader to queue to handler and never backwards, so  *)
(* that the order among these places is the order of the pushes.           *)
(***************************************************************************)
EXTENDS Dispatch, TLAPS

Newest == Len(pushed)

\* Whatever is under way is a push that was made.
KnownInv ==
    /\ \A i \in DOMAIN dispatched : dispatched[i].push <= Newest
    /\ \A i \in DOMAIN queue : queue[i] <= Newest
    /\ reader <= Newest
    /\ \A i \in DOMAIN socket : socket[i] <= Newest
    /\ \A p \in acked : p <= Newest

\* Places further from the server hold older pushes.
OrderInv ==
    /\ HandledInOrder
    /\ \A i, j \in DOMAIN queue : i < j => queue[i] < queue[j]
    /\ \A i, j \in DOMAIN socket : i < j /\ socket[j] # None => socket[i] < socket[j]
    /\ \A i \in DOMAIN dispatched : /\ \A j \in DOMAIN queue : dispatched[i].push < queue[j]
                                    /\ reader # None => dispatched[i].push < reader
                                    /\ \A j \in DOMAIN socket : socket[j] # None => dispatched[i].push < socket[j]
    /\ \A i \in DOMAIN queue : /\ reader # None => queue[i] < reader
                               /\ \A j \in DOMAIN socket : socket[j] # None => queue[i] < socket[j]
    /\ \A j \in DOMAIN socket : socket[j] # None => reader < socket[j]

\* What this session sent comes back, if it does, when the own id is known.
EchoInv ==
    /\ login = "online" => ownIdKnown
    /\ session \in unpushed => ownIdKnown
    /\ \A u \in unpushed : u <= session
    /\ \A p \in 1 .. Newest : /\ pushed[p].on <= session /\ pushed[p].sentIn <= session
                              /\ pushed[p].sentIn = session => ownIdKnown /\ pushed[p].by = "own"
    /\ \A i \in DOMAIN queue : pushed[queue[i]].sentIn # session
    /\ ~receiver => queue = <<>>
    /\ EchoIsOld

IInv == TypeOK /\ KnownInv /\ OrderInv /\ EchoInv /\ LostOnlyWithSession

-----------------------------------------------------------------------------
(* Sequences. *)

LEMMA AppendIs ==
    ASSUME NEW S, NEW s \in Seq(S), NEW e \in S
    PROVE  /\ Append(s, e) \in Seq(S)
           /\ Len(s) \in Nat
           /\ Len(Append(s, e)) = Len(s) + 1
           /\ DOMAIN s = 1 .. Len(s)
           /\ DOMAIN Append(s, e) = DOMAIN s \cup {Len(s) + 1}
           /\ \A i \in DOMAIN s : Append(s, e)[i] = s[i] /\ i < Len(s) + 1
           /\ Append(s, e)[Len(s) + 1] = e
           /\ DOMAIN s \subseteq Nat
<1>1. Append(s, e) \in Seq(S) /\ Len(s) \in Nat /\ Len(Append(s, e)) = Len(s) + 1 /\ DOMAIN s = 1 .. Len(s)
  OBVIOUS
<1>2. DOMAIN Append(s, e) = 1 .. Len(s) + 1
  BY <1>1
<1>3. 1 .. Len(s) + 1 = (1 .. Len(s)) \cup {Len(s) + 1}
  BY <1>1
<1> QED BY <1>1, <1>2, <1>3

LEMMA TailIs ==
    ASSUME NEW S, NEW s \in Seq(S), s # <<>>
    PROVE  /\ Tail(s) \in Seq(S)
           /\ Head(s) = s[1] /\ Head(s) \in S
           /\ 1 \in DOMAIN s
           /\ \A i \in DOMAIN Tail(s) : i + 1 \in DOMAIN s /\ i \in Nat /\ Tail(s)[i] = s[i + 1] /\ 1 < i + 1
           /\ \A i \in DOMAIN s : i = 1 \/ (i - 1 \in DOMAIN Tail(s) /\ Tail(s)[i - 1] = s[i])
<1>1. /\ Tail(s) \in Seq(S) /\ Len(Tail(s)) = Len(s) - 1 /\ Len(s) \in Nat /\ Len(s) > 0
      /\ Head(s) = s[1]
  OBVIOUS
<1>2. DOMAIN s = 1 .. Len(s) /\ DOMAIN Tail(s) = 1 .. Len(s) - 1
  BY <1>1
<1>3. \A i \in 1 .. Len(s) - 1 : Tail(s)[i] = s[i + 1]
  OBVIOUS
<1>4. 1 \in DOMAIN s /\ s[1] \in S
  BY <1>1, <1>2
<1>5. ASSUME NEW i \in DOMAIN s, i # 1 PROVE i - 1 \in DOMAIN Tail(s) /\ Tail(s)[i - 1] = s[i]
  <2>1. i - 1 \in 1 .. Len(s) - 1
    BY <1>1, <1>2, <1>5
  <2> QED BY <1>2, <1>3, <2>1
<1>6. ASSUME NEW i \in DOMAIN Tail(s)
      PROVE  i + 1 \in DOMAIN s /\ i \in Nat /\ Tail(s)[i] = s[i + 1] /\ 1 < i + 1
  BY <1>1, <1>2, <1>3, <1>6
<1> QED BY <1>1, <1>4, <1>5, <1>6

LEMMA ElementIs == ASSUME NEW S, NEW s \in Seq(S), NEW i \in DOMAIN s PROVE s[i] \in S /\ i \in Nat
<1>1. DOMAIN s = 1 .. Len(s) /\ Len(s) \in Nat
  OBVIOUS
<1> QED BY <1>1

\* The places and what is in them.
LEMMA Places ==
    ASSUME TypeOK
    PROVE  /\ Newest \in Nat /\ Newest <= MaxPushes /\ MaxPushes \in Nat
           /\ session \in Nat /\ session > 0
           /\ DOMAIN dispatched \subseteq Nat /\ DOMAIN queue \subseteq Nat /\ DOMAIN socket \subseteq Nat
           /\ \A i \in DOMAIN dispatched : dispatched[i].push \in Nat /\ dispatched[i].push > 0
           /\ \A i \in DOMAIN queue : queue[i] \in Nat /\ queue[i] > 0
           /\ \A i \in DOMAIN socket : socket[i] \in Nat
           /\ reader \in Nat
           /\ \A p \in 1 .. Newest : pushed[p] \in Push
           /\ \A p \in acked : p \in Nat /\ p > 0
           /\ unpushed \subseteq Nat
<1>1. Newest \in Nat /\ Newest <= MaxPushes /\ MaxPushes \in Nat
  BY BoundsAssumption DEF TypeOK, Newest
<1>2. session \in Nat /\ session > 0 /\ reader \in Nat /\ acked \subseteq Pushes /\ unpushed \subseteq Nat
  <2>1. Sessions \subseteq Nat /\ Pushes \subseteq Nat /\ \A s \in Sessions : s > 0
    BY <1>1, BoundsAssumption DEF Sessions, Pushes
  <2> QED BY <2>1 DEF TypeOK, None
<1>3. /\ dispatched \in Seq([push : Pushes, on : Sessions]) /\ queue \in Seq(Pushes)
      /\ socket \in Seq(Pushes \cup {None}) /\ pushed \in Seq(Push)
  BY DEF TypeOK
<1>4. Pushes \subseteq Nat /\ \A p \in Pushes : p > 0
  BY <1>1 DEF Pushes
<1>5. ASSUME NEW i \in DOMAIN dispatched
      PROVE  i \in Nat /\ dispatched[i].push \in Nat /\ dispatched[i].push > 0
  <2>1. i \in Nat /\ dispatched[i] \in [push : Pushes, on : Sessions]
    <3> DEFINE R == [push : Pushes, on : Sessions]
    <3>1. dispatched \in Seq(R)
      BY <1>3
    <3> HIDE DEF R
    <3>2. i \in Nat /\ dispatched[i] \in R
      BY <3>1, ElementIs
    <3> QED BY <3>2 DEF R
  <2>2. dispatched[i].push \in Pushes
    BY <2>1
  <2> QED BY <1>4, <2>1, <2>2
<1>6. ASSUME NEW i \in DOMAIN queue PROVE i \in Nat /\ queue[i] \in Nat /\ queue[i] > 0
  BY <1>3, <1>4, ElementIs
<1>7. ASSUME NEW i \in DOMAIN socket PROVE i \in Nat /\ socket[i] \in Nat
  <2>1. i \in Nat /\ socket[i] \in Pushes \cup {None}
    BY <1>3, ElementIs
  <2>2. socket[i] \in Pushes \/ socket[i] = 0
    BY <2>1 DEF None
  <2>3. \A x : x \in Pushes => x \in Nat
    BY <1>4
  <2> QED BY <2>1, <2>2, <2>3
<1>8. \A p \in 1 .. Newest : pushed[p] \in Push
  BY <1>3 DEF Newest
<1>9. \A p \in acked : p \in Nat /\ p > 0
  BY <1>2, <1>4
<1> QED BY <1>1, <1>2, <1>5, <1>6, <1>7, <1>8, <1>9

-----------------------------------------------------------------------------
LEMMA InitIInv == ASSUME Init PROVE IInv
<1> USE DEF Init
<1>1. TypeOK
  <2>1. 1 \in Sessions /\ 0 <= MaxPushes
    BY BoundsAssumption DEF Sessions
  <2>2. /\ socket \in Seq(Pushes \cup {None}) /\ queue \in Seq(Pushes) /\ pushed \in Seq(Push)
        /\ Len(pushed) <= MaxPushes /\ dispatched \in Seq([push : Pushes, on : Sessions])
    BY <2>1
  <2> QED BY <2>1, <2>2 DEF TypeOK
<1>2. KnownInv /\ OrderInv
  BY DEF KnownInv, OrderInv, HandledInOrder, Newest, None
<1>3. EchoInv /\ LostOnlyWithSession
  BY DEF EchoInv, EchoIsOld, LostOnlyWithSession, Newest
<1> QED BY <1>1, <1>2, <1>3 DEF IInv

LEMMA PushStep ==
    ASSUME IInv, NEW by \in {"own", "service", "peer"}, NEW sentIn \in Sessions \cup {None},
           ServerPush(by, sentIn)
    PROVE  IInv'
<1> USE DEF IInv
<1> DEFINE p == [by |-> by, on |-> session, sentIn |-> sentIn]
<1>1. /\ Len(pushed) < MaxPushes
      /\ sentIn # None => by = "own" /\ sentIn \in unpushed
      /\ pushed' = Append(pushed, p) /\ unpushed' = unpushed \ {sentIn}
      /\ socket' = Append(socket, Len(pushed'))
      /\ UNCHANGED <<session, cancelled, login, ownIdKnown, receiver, reading, reader, queue, acked, dispatched>>
  BY DEF ServerPush
<1>2. p \in Push /\ p.on = session /\ p.sentIn = sentIn /\ p.by = by
  BY DEF Push, TypeOK
<1> HIDE DEF p
<1>3. /\ pushed' \in Seq(Push) /\ Newest' = Newest + 1 /\ Newest \in Nat /\ DOMAIN pushed = 1 .. Newest
      /\ \A i \in 1 .. Newest : pushed'[i] = pushed[i]
      /\ pushed'[Newest + 1] = p
  BY <1>1, <1>2, AppendIs DEF TypeOK, Newest
<1>4. Newest + 1 \in Pushes /\ Newest + 1 <= MaxPushes
  BY <1>1, <1>3, Places DEF Pushes, Newest
<1>5. /\ socket' \in Seq(Pushes \cup {None}) /\ Len(socket) \in Nat
      /\ DOMAIN socket' = DOMAIN socket \cup {Len(socket) + 1}
      /\ \A i \in DOMAIN socket : socket'[i] = socket[i] /\ i < Len(socket) + 1 /\ i \in Nat
      /\ socket'[Len(socket) + 1] = Newest + 1
  <2>1. socket \in Seq(Pushes \cup {None}) /\ socket' = Append(socket, Newest + 1)
        /\ Newest + 1 \in Pushes \cup {None}
    BY <1>1, <1>3, <1>4 DEF TypeOK, Newest
  <2> QED BY <2>1, AppendIs
<1>6. TypeOK'
  BY <1>1, <1>3, <1>4, <1>5 DEF TypeOK, Newest
<1>7. KnownInv'
  BY <1>1, <1>3, <1>5, Places DEF KnownInv
<1>8. OrderInv'
  <2>1. \A i, j \in DOMAIN socket' : i < j /\ socket'[j] # None => socket'[i] < socket'[j]
    BY <1>3, <1>5, Places DEF OrderInv, KnownInv
  <2>2. \A j \in DOMAIN socket' : socket'[j] # None => reader < socket'[j]
    BY <1>3, <1>5, Places DEF OrderInv, KnownInv
  <2>3. \A i \in DOMAIN dispatched, j \in DOMAIN socket' : socket'[j] # None => dispatched[i].push < socket'[j]
    BY <1>3, <1>5, Places DEF OrderInv, KnownInv
  <2>4. \A i \in DOMAIN queue, j \in DOMAIN socket' : socket'[j] # None => queue[i] < socket'[j]
    BY <1>3, <1>5, Places DEF OrderInv, KnownInv
  <2> QED BY <1>1, <2>1, <2>2, <2>3, <2>4 DEF OrderInv, HandledInOrder
<1>9. \A i \in 1 .. Newest' : i \in 1 .. Newest \/ i = Newest + 1
  BY <1>3
<1>10. EchoInv'
  <2>1. p.sentIn <= session /\ (p.sentIn = session => ownIdKnown /\ p.by = "own")
    BY <1>1, <1>2, Places DEF EchoInv, None
  <2>2. \A i \in DOMAIN queue : pushed'[queue[i]].sentIn # session
    BY <1>3, Places DEF EchoInv, KnownInv
  <2>3. EchoIsOld'
    BY <1>1, <1>3, Places DEF EchoInv, EchoIsOld, KnownInv
  <2>4. \A i \in 1 .. Newest' : /\ pushed'[i].on <= session /\ pushed'[i].sentIn <= session
                                /\ pushed'[i].sentIn = session => ownIdKnown /\ pushed'[i].by = "own"
    BY <1>2, <1>3, <1>9, <2>1, Places DEF EchoInv
  <2> QED BY <1>1, <2>2, <2>3, <2>4 DEF EchoInv
<1>11. LostOnlyWithSession'
  BY <1>1, <1>3, Places DEF LostOnlyWithSession, KnownInv, PushesDispatched
<1> QED BY <1>6, <1>7, <1>8, <1>10, <1>11

\* Steps that move no push.
LEMMA QuietStep ==
    ASSUME IInv, Send \/ SetOwnUserId \/ Publish \/ Cancel \/ StopReading \/ UNCHANGED vars
    PROVE  IInv'
<1> USE DEF IInv
<1>1. UNCHANGED <<session, receiver, socket, reader, queue, pushed, acked, dispatched>>
  BY DEF Send, SetOwnUserId, Publish, Cancel, StopReading, vars
<1>2. TypeOK'
  BY <1>1 DEF Send, SetOwnUserId, Publish, Cancel, StopReading, vars, TypeOK
<1>3. KnownInv' /\ OrderInv' /\ LostOnlyWithSession'
  BY <1>1 DEF KnownInv, OrderInv, HandledInOrder, LostOnlyWithSession, PushesDispatched, Newest
<1>4. /\ ownIdKnown => ownIdKnown'
      /\ login' = "online" => ownIdKnown'
      /\ unpushed' \subseteq unpushed \cup {session}
      /\ session \in unpushed' => ownIdKnown'
  BY DEF EchoInv, Send, SetOwnUserId, Publish, Cancel, StopReading, vars
<1>5. EchoInv'
  BY <1>1, <1>4, Places DEF EchoInv, EchoIsOld, Newest
<1> QED BY <1>2, <1>3, <1>5

LEMMA AnswerStep == ASSUME IInv, AnswerLogin PROVE IInv'
<1> USE DEF IInv
<1>1. UNCHANGED <<session, cancelled, login, ownIdKnown, receiver, reading, reader, queue,
                  pushed, unpushed, acked, dispatched>>
  BY DEF AnswerLogin
<1>2. /\ socket' \in Seq(Pushes \cup {None}) /\ Len(socket) \in Nat
      /\ DOMAIN socket' = DOMAIN socket \cup {Len(socket) + 1}
      /\ \A i \in DOMAIN socket : socket'[i] = socket[i] /\ i < Len(socket) + 1 /\ i \in Nat
      /\ socket'[Len(socket) + 1] = None
  <2>1. socket \in Seq(Pushes \cup {None}) /\ socket' = Append(socket, None) /\ None \in Pushes \cup {None}
    BY DEF TypeOK, AnswerLogin
  <2> QED BY <2>1, AppendIs
<1>3. TypeOK' /\ EchoInv' /\ LostOnlyWithSession'
  BY <1>1, <1>2 DEF TypeOK, EchoInv, EchoIsOld, LostOnlyWithSession, PushesDispatched, Newest
<1>4. KnownInv'
  BY <1>1, <1>2, Places DEF KnownInv, Newest, None
<1>5. OrderInv'
  <2>1. \A i, j \in DOMAIN socket' : i < j /\ socket'[j] # None => socket'[i] < socket'[j]
    BY <1>2, Places DEF OrderInv
  <2>2. \A j \in DOMAIN socket' : socket'[j] # None => j \in DOMAIN socket /\ socket'[j] = socket[j]
    BY <1>2
  <2> QED BY <1>1, <2>1, <2>2 DEF OrderInv, HandledInOrder
<1> QED BY <1>3, <1>4, <1>5

\* The read loop takes its next frame: an answer, a push that it skips, or one it
\* goes on with.
LEMMA ReadStep == ASSUME IInv, ReadLoginAnswer \/ ReadUnparsable \/ ReadPush PROVE IInv'
<1> USE DEF IInv
<1>1. /\ reader = None /\ socket # <<>> /\ socket' = Tail(socket)
      /\ UNCHANGED <<session, cancelled, ownIdKnown, receiver, reading, queue, pushed, unpushed, acked, dispatched>>
      /\ login' \in {login, "answered"}
      /\ reader' = None \/ (reader' = Head(socket) /\ Head(socket) # None)
  BY DEF ReadLoginAnswer, ReadUnparsable, ReadPush
<1>2. /\ socket' \in Seq(Pushes \cup {None})
      /\ Head(socket) = socket[1] /\ Head(socket) \in Pushes \cup {None} /\ 1 \in DOMAIN socket
      /\ \A i \in DOMAIN socket' : i + 1 \in DOMAIN socket /\ i \in Nat /\ socket'[i] = socket[i + 1] /\ 1 < i + 1
  BY <1>1, TailIs DEF TypeOK
<1>3. TypeOK'
  BY <1>1, <1>2 DEF TypeOK
<1>4. KnownInv'
  BY <1>1, <1>2, Places DEF KnownInv, Newest, None
<1>5. \A j \in DOMAIN socket' : socket'[j] # None =>
         /\ socket[1] < socket'[j] /\ reader < socket'[j]
         /\ \A i \in DOMAIN dispatched : dispatched[i].push < socket'[j]
         /\ \A i \in DOMAIN queue : queue[i] < socket'[j]
  BY <1>2 DEF OrderInv
<1>6. \A i, j \in DOMAIN socket' : i < j /\ socket'[j] # None => socket'[i] < socket'[j]
  <2> SUFFICES ASSUME NEW i \in DOMAIN socket', NEW j \in DOMAIN socket', i < j, socket'[j] # None
               PROVE  socket'[i] < socket'[j]
    OBVIOUS
  <2>1. i + 1 \in DOMAIN socket /\ j + 1 \in DOMAIN socket /\ i + 1 < j + 1
    BY <1>2
  <2> QED BY <1>2, <2>1 DEF OrderInv
<1>7. reader' # None => /\ reader' = socket[1]
                        /\ \A i \in DOMAIN dispatched : dispatched[i].push < socket[1]
                        /\ \A i \in DOMAIN queue : queue[i] < socket[1]
  BY <1>1, <1>2 DEF OrderInv
<1>8. OrderInv'
  BY <1>1, <1>5, <1>6, <1>7 DEF OrderInv, HandledInOrder
<1>9. EchoInv'
  BY <1>1 DEF EchoInv, EchoIsOld, Newest
<1>10. LostOnlyWithSession'
  BY <1>1, Places DEF LostOnlyWithSession, PushesDispatched, None
<1> QED BY <1>3, <1>4, <1>8, <1>9, <1>10

LEMMA AcknowledgeStep == ASSUME IInv, Acknowledge PROVE IInv'
<1> USE DEF IInv
<1>1. /\ reader # None /\ acked' = acked \cup {reader}
      /\ UNCHANGED <<session, cancelled, login, ownIdKnown, receiver, socket, reading, reader, queue,
                     pushed, unpushed, dispatched>>
  BY DEF Acknowledge
<1>2. TypeOK'
  BY <1>1 DEF TypeOK
<1>3. KnownInv' /\ OrderInv' /\ EchoInv'
  BY <1>1 DEF KnownInv, OrderInv, HandledInOrder, EchoInv, EchoIsOld, Newest
<1>4. LostOnlyWithSession'
  BY <1>1 DEF LostOnlyWithSession, PushesDispatched
<1> QED BY <1>2, <1>3, <1>4

\* The message is queued, if the attempt is there and the filter lets it pass.
LEMMA ForwardStep == ASSUME IInv, Forward PROVE IInv'
<1> USE DEF IInv
<1>1. /\ reader # None /\ reader' = None
      /\ UNCHANGED <<session, cancelled, login, ownIdKnown, receiver, socket, reading, pushed, unpushed,
                     acked, dispatched>>
  BY DEF Forward
<1>2. CASE ~(receiver /\ ~IsFiltered(reader))
  <2>1. queue' = queue
    BY <1>2 DEF Forward
  <2>2. TypeOK'
    BY <1>1, <2>1 DEF TypeOK
  <2>3. KnownInv' /\ EchoInv'
    BY <1>1, <2>1, Places DEF KnownInv, EchoInv, EchoIsOld, Newest, None
  <2>4. OrderInv'
    <3>1. \A j \in DOMAIN socket : socket[j] # None => 0 < socket[j]
      BY Places DEF None
    <3> QED BY <1>1, <2>1, <3>1 DEF OrderInv, HandledInOrder, None
  <2>5. ~receiver \/ pushed[reader].by # "peer"
    BY <1>2 DEF IsFiltered
  <2>6. LostOnlyWithSession'
    BY <1>1, <2>1, <2>5 DEF LostOnlyWithSession, PushesDispatched
  <2> QED BY <2>2, <2>3, <2>4, <2>6
<1>3. CASE receiver /\ ~IsFiltered(reader)
  <2>1. queue' = Append(queue, reader)
    BY <1>3 DEF Forward
  <2>2. /\ reader \in Pushes /\ queue \in Seq(Pushes)
    BY <1>1 DEF TypeOK
  <2>3. /\ queue' \in Seq(Pushes) /\ Len(queue) \in Nat
        /\ DOMAIN queue = 1 .. Len(queue) /\ Len(queue') = Len(queue) + 1
        /\ DOMAIN queue' = DOMAIN queue \cup {Len(queue) + 1}
        /\ \A i \in DOMAIN queue : queue'[i] = queue[i] /\ i < Len(queue) + 1 /\ i \in Nat
        /\ queue'[Len(queue) + 1] = reader
    BY <2>1, <2>2, AppendIs
  <2>4. reader \in Nat /\ reader > 0 /\ reader <= Newest
    BY <1>1, Places DEF KnownInv, None
  <2>5. TypeOK'
    BY <1>1, <2>3 DEF TypeOK
  <2>6. KnownInv'
    BY <1>1, <2>3, <2>4, Places DEF KnownInv, Newest, None
  <2>7. OrderInv'
    <3>1. \A i, j \in DOMAIN queue' : i < j => queue'[i] < queue'[j]
      BY <1>1, <2>3 DEF OrderInv
    <3>2. \A i \in DOMAIN dispatched, j \in DOMAIN queue' : dispatched[i].push < queue'[j]
      BY <1>1, <2>3 DEF OrderInv
    <3>3. \A i \in DOMAIN queue', j \in DOMAIN socket : socket[j] # None => queue'[i] < socket[j]
      BY <2>3 DEF OrderInv
    <3>4. \A j \in DOMAIN socket : socket[j] # None => 0 < socket[j]
      BY Places DEF None
    <3> QED BY <1>1, <3>1, <3>2, <3>3, <3>4 DEF OrderInv, HandledInOrder, None
  <2>8. pushed[reader].sentIn # session
    BY <1>3, <2>4, Places DEF EchoInv, IsFiltered
  <2>9. EchoInv'
    BY <1>1, <1>3, <2>3, <2>8 DEF EchoInv, EchoIsOld, Newest
  <2>10. \A p : p = reader \/ Contains(queue, p) => Contains(queue', p)
    BY <2>3 DEF Contains
  <2>11. LostOnlyWithSession'
    BY <1>1, <2>10 DEF LostOnlyWithSession, PushesDispatched
  <2> QED BY <2>5, <2>6, <2>7, <2>9, <2>11
<1> QED BY <1>2, <1>3

\* The dispatcher hands the oldest queued message on.
LEMMA DispatchStep == ASSUME IInv, Dispatch PROVE IInv'
<1> USE DEF IInv
<1> DEFINE e == [push |-> Head(queue), on |-> session]
           R == [push : Pushes, on : Sessions]
<1>1. /\ receiver /\ queue # <<>> /\ dispatched' = Append(dispatched, e) /\ queue' = Tail(queue)
      /\ UNCHANGED <<session, cancelled, login, ownIdKnown, receiver, socket, reading, reader, pushed,
                     unpushed, acked>>
  BY DEF Dispatch
<1>2. /\ queue' \in Seq(Pushes)
      /\ Head(queue) = queue[1] /\ Head(queue) \in Pushes /\ 1 \in DOMAIN queue
      /\ \A i \in DOMAIN queue' : i + 1 \in DOMAIN queue /\ i \in Nat /\ queue'[i] = queue[i + 1] /\ 1 < i + 1
      /\ \A i \in DOMAIN queue : i = 1 \/ (i - 1 \in DOMAIN queue' /\ queue'[i - 1] = queue[i])
  <2>1. queue \in Seq(Pushes)
    BY DEF TypeOK
  <2> QED BY <1>1, <2>1, TailIs
<1>3. e \in R /\ e.push = queue[1] /\ e.on = session
  BY <1>2 DEF TypeOK
<1> HIDE DEF e, R
<1>4. /\ dispatched' \in Seq(R) /\ Len(dispatched) \in Nat
      /\ DOMAIN dispatched' = DOMAIN dispatched \cup {Len(dispatched) + 1}
      /\ \A i \in DOMAIN dispatched : dispatched'[i] = dispatched[i] /\ i < Len(dispatched) + 1 /\ i \in Nat
      /\ dispatched'[Len(dispatched) + 1] = e
  <2>1. dispatched \in Seq(R)
    BY DEF TypeOK, R
  <2>2. /\ Append(dispatched, e) \in Seq(R) /\ Len(dispatched) \in Nat
        /\ DOMAIN Append(dispatched, e) = DOMAIN dispatched \cup {Len(dispatched) + 1}
        /\ \A i \in DOMAIN dispatched : Append(dispatched, e)[i] = dispatched[i] /\ i < Len(dispatched) + 1
        /\ Append(dispatched, e)[Len(dispatched) + 1] = e
        /\ DOMAIN dispatched \subseteq Nat
    BY <1>3, <2>1, AppendIs
  <2> QED BY <1>1, <2>2
<1>5. TypeOK'
  BY <1>1, <1>2, <1>4 DEF TypeOK, R
<1>6. KnownInv'
  BY <1>1, <1>2, <1>3, <1>4 DEF KnownInv, Newest
<1>7. /\ \A i \in DOMAIN queue' : queue[1] < queue'[i]
      /\ \A i \in DOMAIN dispatched : dispatched[i].push < queue[1]
  BY <1>2 DEF OrderInv
<1>8. HandledInOrder'
  BY <1>3, <1>4, <1>7 DEF OrderInv, HandledInOrder
<1>9. \A i, j \in DOMAIN queue' : i < j => queue'[i] < queue'[j]
  <2> SUFFICES ASSUME NEW i \in DOMAIN queue', NEW j \in DOMAIN queue', i < j PROVE queue'[i] < queue'[j]
    OBVIOUS
  <2>1. i + 1 \in DOMAIN queue /\ j + 1 \in DOMAIN queue /\ i + 1 < j + 1
    BY <1>2
  <2> QED BY <1>2, <2>1 DEF OrderInv
<1>10. \A i \in DOMAIN dispatched' :
          /\ \A j \in DOMAIN queue' : dispatched'[i].push < queue'[j]
          /\ reader # None => dispatched'[i].push < reader
          /\ \A j \in DOMAIN socket : socket[j] # None => dispatched'[i].push < socket[j]
  BY <1>2, <1>3, <1>4, <1>7 DEF OrderInv
<1>11. \A i \in DOMAIN queue' : /\ reader # None => queue'[i] < reader
                                /\ \A j \in DOMAIN socket : socket[j] # None => queue'[i] < socket[j]
  BY <1>2 DEF OrderInv
<1>12. OrderInv'
  BY <1>1, <1>8, <1>9, <1>10, <1>11 DEF OrderInv
<1>13. EchoIsOld'
  BY <1>1, <1>2, <1>3, <1>4 DEF EchoInv, EchoIsOld
<1>14. EchoInv'
  BY <1>1, <1>2, <1>13 DEF EchoInv, Newest
<1>15. \A p : Contains(queue, p) => Contains(queue', p) \/ p = queue[1]
  <2>1. queue \in Seq(Pushes) /\ DOMAIN queue = 1 .. Len(queue) /\ DOMAIN queue' = 1 .. Len(queue')
    BY <1>2 DEF TypeOK
  <2> QED BY <1>2, <2>1 DEF Contains
<1>16. PushesDispatched' = PushesDispatched \cup {queue[1]}
  BY <1>3, <1>4 DEF PushesDispatched
<1>17. LostOnlyWithSession'
  BY <1>1, <1>15, <1>16 DEF LostOnlyWithSession
<1> QED BY <1>5, <1>6, <1>12, <1>14, <1>17

\* An attempt takes its queue with it, and a new one starts with an empty socket.
LEMMA AttemptStep == ASSUME IInv, DropAttempt \/ NextSession PROVE IInv'
<1> USE DEF IInv
<1>1. CASE DropAttempt
  <2>1. /\ queue' = <<>> /\ receiver' = FALSE
        /\ UNCHANGED <<session, cancelled, login, ownIdKnown, socket, reading, reader, pushed, unpushed,
                       acked, dispatched>>
    BY <1>1 DEF DropAttempt
  <2>2. TypeOK'
    <3>1. queue' \in Seq(Pushes)
      BY <2>1
    <3> QED BY <2>1, <3>1 DEF TypeOK
  <2>3. KnownInv'
    BY <2>1 DEF KnownInv, Newest
  <2>4. OrderInv'
    BY <2>1 DEF OrderInv, HandledInOrder
  <2>5. EchoInv' /\ LostOnlyWithSession'
    BY <2>1 DEF EchoInv, EchoIsOld, LostOnlyWithSession, Newest
  <2> QED BY <2>2, <2>3, <2>4, <2>5
<1>2. CASE NextSession
  <2>1. /\ ~receiver /\ session < MaxSessions /\ session' = session + 1 /\ receiver' = TRUE
        /\ reading' = TRUE /\ cancelled' = FALSE
        /\ login' = "asked" /\ ownIdKnown' = FALSE /\ socket' = <<>> /\ reader' = None
        /\ UNCHANGED <<queue, pushed, unpushed, acked, dispatched>>
    BY <1>2 DEF NextSession
  <2>2. queue = <<>>
    BY <2>1 DEF EchoInv
  <2>3. TypeOK'
    <3>1. session' \in Sessions
      BY <2>1, BoundsAssumption DEF TypeOK, Sessions
    <3>2. socket' \in Seq(Pushes \cup {None}) /\ reader' \in Pushes \cup {None}
      BY <2>1
    <3> QED BY <2>1, <3>1, <3>2 DEF TypeOK
  <2>4. KnownInv' /\ OrderInv'
    BY <2>1, <2>2, Places DEF KnownInv, OrderInv, HandledInOrder, Newest, None
  <2>5. \A u \in unpushed : u < session'
    BY <2>1, Places DEF EchoInv
  <2>6. \A p \in 1 .. Newest : pushed[p].on \in Nat /\ pushed[p].sentIn \in Nat
    <3>1. \A x : x \in Sessions \/ x = 0 => x \in Nat
      BY BoundsAssumption DEF Sessions
    <3>2. \A r \in Push : r.on \in Sessions /\ (r.sentIn \in Sessions \/ r.sentIn = 0)
      BY DEF Push, None
    <3> QED BY <3>1, <3>2, Places
  <2>7. \A p \in 1 .. Newest : pushed[p].on < session' /\ pushed[p].sentIn < session'
    BY <2>1, <2>6, Places DEF EchoInv
  <2>8. EchoInv'
    <3>1. \A p \in 1 .. Newest : /\ pushed[p].on <= session' /\ pushed[p].sentIn <= session'
                                 /\ pushed[p].sentIn # session'
      BY <2>1, <2>6, <2>7, Places
    <3>2. session' \notin unpushed /\ \A u \in unpushed : u <= session'
      BY <2>1, <2>5, Places
    <3> QED BY <2>1, <2>2, <3>1, <3>2 DEF EchoInv, EchoIsOld, Newest
  <2>9. LostOnlyWithSession'
    BY <2>1, <2>7, Places DEF LostOnlyWithSession, KnownInv
  <2> QED BY <2>3, <2>4, <2>8, <2>9
<1> QED BY <1>1, <1>2

\* The parts are inductive together.
THEOREM DispatchInvariance == Spec => []IInv
<1>1. IInv /\ [Next]_vars => IInv'
  BY PushStep, QuietStep, AnswerStep, ReadStep, AcknowledgeStep, ForwardStep, DispatchStep, AttemptStep
     DEF Next
<1> QED BY <1>1, InitIInv, PTL DEF Spec

\* Every variable of Dispatch keeps its type.
THEOREM DispatchTypeCorrect == Spec => []TypeOK
BY DispatchInvariance, PTL DEF IInv

\* HandledInOrder: handlers are started in the order of the pushes, once each.
THEOREM MessagesAreHandledInOrder == Spec => []HandledInOrder
BY DispatchInvariance, PTL DEF IInv, OrderInv

\* LostOnlyWithSession: an acknowledged message is only lost with its session.
THEOREM MessagesAreKept == Spec => []LostOnlyWithSession
BY DispatchInvariance, PTL DEF IInv

\* EchoIsOld: no handler is given what this handle sent in the same session.
THEOREM EchoesAreOld == Spec => []EchoIsOld
BY DispatchInvariance, PTL DEF IInv, EchoInv
================================================================================
