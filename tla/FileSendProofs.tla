---------------------------- MODULE FileSendProofs ----------------------------
(***************************************************************************)
(* Proofs about FileSend, for any number of calls, file ids and            *)
(* connections. The invariants of uploads are inductive together: a        *)
(* registration belongs to a live waiter, and a live waiter that was not   *)
(* told has one. Those of message ids rest on ids only going down.         *)
(***************************************************************************)
EXTENDS FileSend, TLAPS

IInv == UploadsTypeOK /\ WaiterIsFound /\ RegistryIsLive /\ SentIsProcessed

\* A drop removes the waiter's own registration, if it still is there, and touches
\* nobody else's: AttachmentWaiter::drop compares identities.
LEMMA DropIsOwn ==
    ASSUME IInv, NEW s \in Sends, DropWaiter(s)
    PROVE  /\ registry' \in [Generations -> [FileIds -> Sends \cup {None}]]
           /\ completion' \in [Sends -> {"empty", "sent", "dropped"}]
           /\ \A r \in Sends \ {s} : completion'[r] = completion[r]
           /\ completion[s] # "empty" => completion'[s] = completion[s]
           /\ \A g \in Generations, f \in FileIds :
                 registry'[g][f] = IF registry[g][f] = s THEN None ELSE registry[g][f]
<1> USE DEF IInv, UploadsTypeOK
<1>1. CASE pc[s] \in Registered /\ Owns(s)
  <2>1. file[s] \in FileIds /\ on[s] \in Generations /\ registry[on[s]][file[s]] = s
    BY <1>1 DEF Owns
  <2>2. /\ registry' = [registry EXCEPT ![on[s]][file[s]] = None]
        /\ completion' = [r \in Sends |->
                             IF registry[on[s]][file[s]] = r /\ completion[r] = "empty"
                             THEN "dropped" ELSE completion[r]]
    BY <1>1 DEF DropWaiter
  <2>3. \A g \in Generations, f \in FileIds :
            registry[g][f] = s => g = on[s] /\ f = file[s]
    BY NoneAssumption DEF RegistryIsLive
  <2>4. \A g \in Generations, f \in FileIds :
            registry'[g][f] = IF registry[g][f] = s THEN None ELSE registry[g][f]
    BY <2>1, <2>2, <2>3
  <2>5. registry' \in [Generations -> [FileIds -> Sends \cup {None}]]
    BY <2>1, <2>2
  <2> QED BY <2>1, <2>2, <2>4, <2>5
<1>2. CASE ~(pc[s] \in Registered /\ Owns(s))
  <2>1. registry' = registry /\ completion' = completion
    BY <1>2 DEF DropWaiter
  <2>2. \A g \in Generations, f \in FileIds : registry[g][f] # s
    BY <1>2, NoneAssumption DEF RegistryIsLive, Owns
  <2> QED BY <2>1, <2>2
<1> QED BY <1>1, <1>2

\* A call that leaves Registered, or stays out of it, by a step that drops its
\* waiter keeps the invariant, wherever it goes from there.
LEMMA LeavingKeepsInv ==
    ASSUME IInv, NEW s \in Sends, DropWaiter(s),
           NEW label \in ({"current", "sending"} \cup Final), pc' = [pc EXCEPT ![s] = label],
           label = "sending" => completion[s] = "sent",
           gen' \in Generations, cancelled' \in SUBSET Generations,
           readers' \in SUBSET Generations, UNCHANGED <<on, file>>
    PROVE  IInv'
<1>1. /\ registry' \in [Generations -> [FileIds -> Sends \cup {None}]]
      /\ completion' \in [Sends -> {"empty", "sent", "dropped"}]
      /\ \A r \in Sends \ {s} : completion'[r] = completion[r]
      /\ completion[s] # "empty" => completion'[s] = completion[s]
      /\ \A g \in Generations, f \in FileIds :
            registry'[g][f] = IF registry[g][f] = s THEN None ELSE registry[g][f]
  BY DropIsOwn
<1> USE DEF IInv
<1>2. /\ pc'[s] = label /\ label \notin Registered
      /\ \A r \in Sends \ {s} : pc'[r] = pc[r]
  BY DEF UploadsTypeOK, Registered, Final
<1>3. UploadsTypeOK'
  BY <1>1, <1>2 DEF UploadsTypeOK, OnConnection, Registered, Final
<1>4. WaiterIsFound'
  <2> SUFFICES ASSUME NEW r \in Sends, pc'[r] \in Registered
               PROVE  \/ completion'[r] = "empty" /\ registry'[on'[r]][file'[r]] = r
                      \/ completion'[r] = "sent" /\ registry'[on'[r]][file'[r]] # r
    BY DEF WaiterIsFound
  <2>1. r # s /\ pc[r] \in Registered /\ completion'[r] = completion[r]
    BY <1>1, <1>2
  <2>2. on[r] \in Generations /\ file[r] \in FileIds
    BY <2>1 DEF UploadsTypeOK
  <2>3. registry'[on[r]][file[r]] = IF registry[on[r]][file[r]] = s THEN None ELSE registry[on[r]][file[r]]
    BY <1>1, <2>2
  <2> QED BY <2>1, <2>3, NoneAssumption DEF WaiterIsFound
<1>5. RegistryIsLive'
  <2> SUFFICES ASSUME NEW g \in Generations, NEW f \in FileIds, registry'[g][f] # None
               PROVE  LET r == registry'[g][f]
                      IN  pc'[r] \in Registered /\ on'[r] = g /\ file'[r] = f
    BY DEF RegistryIsLive
  <2>1. registry'[g][f] = registry[g][f] /\ registry[g][f] # s /\ registry[g][f] \in Sends
    BY <1>1 DEF UploadsTypeOK
  <2> QED BY <2>1, <1>2 DEF RegistryIsLive
<1>6. SentIsProcessed'
  BY <1>1, <1>2 DEF SentIsProcessed
<1> QED BY <1>3, <1>4, <1>5, <1>6

\* Every step keeps the invariant.
LEMMA StepKeepsInv == ASSUME IInv, Next PROVE IInv'
<1> USE DEF IInv
<1>1. ASSUME NEW s \in Sends, Current(s) PROVE IInv'
  <2> USE <1>1 DEF Current, Goto, sessionVars
  <2>1. pc[s] \notin Registered /\ pc'[s] = "asking" /\ \A r \in Sends \ {s} : pc'[r] = pc[r]
    BY DEF UploadsTypeOK, Registered
  <2>2. \A r \in Sends \ {s} : on'[r] = on[r] /\ file'[r] = file[r]
    BY DEF UploadsTypeOK
  <2>3. UploadsTypeOK' BY <2>1, <2>2 DEF UploadsTypeOK, OnConnection, Registered
  <2>4. WaiterIsFound' BY <2>1, <2>2 DEF WaiterIsFound, Registered
  <2>5. RegistryIsLive' BY <2>1, <2>2 DEF RegistryIsLive, UploadsTypeOK
  <2>6. SentIsProcessed' BY <2>1 DEF SentIsProcessed
  <2> QED BY <2>3, <2>4, <2>5, <2>6
<1>2. ASSUME NEW s \in Sends, NEW f \in FileIds, UploadGranted(s, f) PROVE IInv'
  <2> USE <1>2 DEF UploadGranted, Goto, sessionVars, CanRegister
  <2>1. /\ pc[s] = "asking" /\ pc'[s] = "uploading" /\ completion'[s] = "empty" /\ file'[s] = f
        /\ \A r \in Sends \ {s} : /\ pc'[r] = pc[r] /\ file'[r] = file[r]
                                  /\ completion'[r] = completion[r]
    BY DEF UploadsTypeOK
  <2>2. on[s] \in Generations /\ registry'[on[s]][f] = s
    BY DEF UploadsTypeOK
  <2>3. \A h \in Generations, e \in FileIds :
            registry'[h][e] = IF h = on[s] /\ e = f THEN s ELSE registry[h][e]
    BY <2>2 DEF UploadsTypeOK
  <2>4. UploadsTypeOK'
    BY <2>1 DEF UploadsTypeOK, OnConnection, Registered
  <2>5. WaiterIsFound'
    <3> SUFFICES ASSUME NEW r \in Sends, pc'[r] \in Registered
                 PROVE  \/ completion'[r] = "empty" /\ registry'[on'[r]][file'[r]] = r
                        \/ completion'[r] = "sent" /\ registry'[on'[r]][file'[r]] # r
      BY DEF WaiterIsFound
    <3>1. CASE r = s BY <3>1, <2>1, <2>2
    <3>2. CASE r # s
      <4>1. on[r] \in Generations /\ file[r] \in FileIds /\ pc[r] \in Registered
        BY <3>2, <2>1 DEF UploadsTypeOK
      <4> QED BY <3>2, <4>1, <2>1, <2>3, NoneAssumption DEF WaiterIsFound
    <3> QED BY <3>1, <3>2
  <2>6. RegistryIsLive'
    BY <2>1, <2>3 DEF RegistryIsLive, Registered, UploadsTypeOK
  <2>7. SentIsProcessed' BY <2>1 DEF SentIsProcessed
  <2> QED BY <2>4, <2>5, <2>6, <2>7
<1>3. ASSUME NEW s \in Sends, UploadRefused(s) PROVE IInv'
  <2>1. DropWaiter(s) BY <1>3 DEF UploadRefused, DropWaiter, Registered
  <2> QED BY <1>3, <2>1, LeavingKeepsInv DEF UploadRefused, Goto, Final, sessionVars, UploadsTypeOK
<1>4. ASSUME NEW s \in Sends, Uploaded(s) PROVE IInv'
  <2> USE <1>4 DEF Uploaded, Goto, sessionVars
  <2>1. /\ pc[s] = "uploading" /\ pc'[s] = "processing"
        /\ \A r \in Sends \ {s} : pc'[r] = pc[r]
    BY DEF UploadsTypeOK
  <2>2. \A r \in Sends : pc'[r] \in Registered <=> pc[r] \in Registered
    BY <2>1 DEF Registered
  <2>3. UploadsTypeOK' BY <2>2 DEF UploadsTypeOK, OnConnection, Registered
  <2>4. WaiterIsFound' BY <2>2 DEF WaiterIsFound
  <2>5. RegistryIsLive' BY <2>2 DEF RegistryIsLive, UploadsTypeOK
  <2>6. SentIsProcessed' BY <2>1 DEF SentIsProcessed
  <2> QED BY <2>3, <2>4, <2>5, <2>6
<1>5. ASSUME NEW s \in Sends, UploadFails(s) PROVE IInv'
  BY <1>5, LeavingKeepsInv DEF UploadFails, Goto, Final, sessionVars, UploadsTypeOK
<1>6. ASSUME NEW s \in Sends, Processed(s) PROVE IInv'
  <2>1. completion[s] = "sent"
    BY <1>6 DEF Processed, WaiterIsFound, Registered
  <2> QED BY <1>6, <2>1, LeavingKeepsInv DEF Processed, Goto, sessionVars, UploadsTypeOK
<1>7. ASSUME NEW s \in Sends, ProcessingTimesOut(s) PROVE IInv'
  BY <1>7, LeavingKeepsInv DEF ProcessingTimesOut, Goto, Final, sessionVars, UploadsTypeOK
<1>8. ASSUME NEW s \in Sends, MessageAnswered(s) PROVE IInv'
  <2>1. DropWaiter(s) BY <1>8 DEF MessageAnswered, DropWaiter, Registered
  <2> QED BY <1>8, <2>1, LeavingKeepsInv DEF MessageAnswered, Goto, Final, sessionVars, UploadsTypeOK
<1>9. ASSUME NEW s \in Sends, Interrupted(s) PROVE IInv'
  BY <1>9, LeavingKeepsInv DEF Interrupted, Replay, Goto, UploadsTypeOK
<1>10. ASSUME NEW s \in Sends, Abandoned(s) PROVE IInv'
  BY <1>10, LeavingKeepsInv DEF Abandoned, Goto, Final, sessionVars, UploadsTypeOK
<1>11. ASSUME NEW g \in Generations, NEW f \in FileIds, Complete(g, f) PROVE IInv'
  <2> USE <1>11 DEF Complete, sessionVars, callVars
  <2> DEFINE owner == registry[g][f]
  <2>1. owner \in Sends /\ pc[owner] \in Registered /\ on[owner] = g /\ file[owner] = f
    BY DEF UploadsTypeOK, RegistryIsLive
  <2>2. \A h \in Generations, e \in FileIds :
            registry'[h][e] = IF h = g /\ e = f THEN None ELSE registry[h][e]
    BY DEF UploadsTypeOK
  <2>3. completion'[owner] = "sent" /\ \A r \in Sends \ {owner} : completion'[r] = completion[r]
    BY <2>1 DEF UploadsTypeOK
  <2> HIDE DEF owner
  <2>4. UploadsTypeOK' BY DEF UploadsTypeOK
  <2>5. WaiterIsFound'
    <3> SUFFICES ASSUME NEW r \in Sends, pc[r] \in Registered
                 PROVE  \/ completion'[r] = "empty" /\ registry'[on[r]][file[r]] = r
                        \/ completion'[r] = "sent" /\ registry'[on[r]][file[r]] # r
      BY DEF WaiterIsFound
    <3>1. on[r] \in Generations /\ file[r] \in FileIds
      BY DEF UploadsTypeOK
    <3>2. CASE r = owner
      BY <3>1, <3>2, <2>1, <2>2, <2>3, NoneAssumption
    <3>3. CASE r # owner
      BY <3>1, <3>3, <2>2, <2>3, NoneAssumption DEF WaiterIsFound, owner
    <3> QED BY <3>2, <3>3
  <2>6. RegistryIsLive' BY <2>2 DEF RegistryIsLive
  <2>7. SentIsProcessed' BY <2>1, <2>3 DEF SentIsProcessed
  <2> QED BY <2>4, <2>5, <2>6, <2>7
<1>12. ASSUME NEW g \in Generations, Lose(g) PROVE IInv'
  BY <1>12 DEF Lose, callVars, UploadsTypeOK, WaiterIsFound, RegistryIsLive, SentIsProcessed
<1>13. ASSUME Reconnect PROVE IInv'
  <2>1. gen + 1 \in Generations
    BY <1>13, GenerationsAssumption DEF Reconnect, UploadsTypeOK, Generations
  <2> QED BY <1>13, <2>1 DEF Reconnect, callVars, UploadsTypeOK, WaiterIsFound, RegistryIsLive, SentIsProcessed
<1>14. ASSUME NEW s \in Sends, NextCid(s) PROVE IInv'
  <2>1. DropWaiter(s) BY <1>14 DEF NextCid, DropWaiter, Registered
  <2> QED BY <1>14, <2>1, LeavingKeepsInv DEF NextCid, Goto, sessionVars, UploadsTypeOK
<1>15. ASSUME NEW m \in written, Store(m[1], m[2]) PROVE IInv'
  BY <1>15 DEF Store, sessionVars, callVars, UploadsTypeOK, WaiterIsFound, RegistryIsLive, SentIsProcessed
<1> QED
  BY <1>1, <1>2, <1>3, <1>4, <1>5, <1>6, <1>7, <1>8, <1>9, <1>10, <1>11, <1>12, <1>13, <1>14, <1>15
  DEF Next, Proceed, Transfer

\* The invariant of file uploads: registrations and live waiters correspond.
THEOREM FileInvariance == Spec => []IInv
<1>1. ASSUME Init PROVE IInv
  BY <1>1, GenerationsAssumption
  DEF Init, IInv, UploadsTypeOK, WaiterIsFound, RegistryIsLive, SentIsProcessed, Registered,
      OnConnection, Generations
<1>2. ASSUME IInv, UNCHANGED vars PROVE IInv'
  BY <1>2 DEF vars, sessionVars, callVars, IInv, UploadsTypeOK, WaiterIsFound, RegistryIsLive, SentIsProcessed
<1>3. IInv /\ [Next]_vars => IInv'
  BY <1>2, StepKeepsInv
<1> QED BY <1>1, <1>3, PTL DEF Spec

\* A message naming a file is only sent once that very upload was processed.
THEOREM UploadsAreProcessed == Spec => []SentIsProcessed
<1>1. IInv => SentIsProcessed BY DEF IInv
<1> QED BY <1>1, FileInvariance, PTL

\* Nobody loses a registration to somebody else's upload.
THEOREM WaitersAreFound == Spec => []WaiterIsFound
<1>1. IInv => WaiterIsFound BY DEF IInv
<1> QED BY <1>1, FileInvariance, PTL

\* No registration outlives its waiter.
THEOREM RegistrationsAreLive == Spec => []RegistryIsLive
<1>1. IInv => RegistryIsLive BY DEF IInv
<1> QED BY <1>1, FileInvariance, PTL

-----------------------------------------------------------------------------
\* Ids are given in falling order, each to one call, which keeps it; what the server
\* has stored went by the id of the call it came from.
IdsFall ==
    /\ lastCid <= 0
    /\ \A s \in Sends : cid[s] # 0 => lastCid <= cid[s] /\ cid[s] < 0
    /\ \A id \in stored : lastCid <= id /\ id < 0
IdsAreOwn ==
    /\ \A r, s \in Sends : r # s /\ cid[r] # 0 => cid[r] # cid[s]
    /\ \A s \in Sends : pc[s] \notin {"new", "abandoned"} => cid[s] # 0
    /\ \A s \in Sends : pc[s] = "new" => cid[s] = 0
    /\ \A s \in Sends, id \in Int : <<s, id>> \in written => id = cid[s] /\ id # 0
StoredOnce ==
    \A s \in Sends : /\ delivered[s] = IF cid[s] \in stored THEN 1 ELSE 0
                     /\ pc[s] = "ok" => cid[s] \in stored

MInv == MessagesTypeOK /\ IdsFall /\ IdsAreOwn /\ StoredOnce

\* A call that goes on, keeps its id and writes at most its own message.
LEMMA MovingKeepsMInv ==
    ASSUME UploadsTypeOK, MInv, NEW s \in Sends, NEW label, Goto(s, label),
           pc[s] \in {"new", "abandoned"} => label = "abandoned",
           label # "new", label = "ok" => cid[s] \in stored,
           \/ written' = written
           \/ pc[s] \notin {"new", "abandoned"} /\ written' = written \cup {<<s, cid[s]>>},
           lastCid' = lastCid, cid' = cid, stored' = stored, delivered' = delivered
    PROVE  MInv'
<1> USE DEF MInv
<1>1. /\ pc'[s] = label
      /\ \A r \in Sends \ {s} : pc'[r] = pc[r]
  BY DEF UploadsTypeOK, Goto
<1>2. MessagesTypeOK' BY DEF MessagesTypeOK
<1>3. IdsFall' BY DEF IdsFall
<1>4. IdsAreOwn' BY <1>1 DEF IdsAreOwn
<1>5. StoredOnce' BY <1>1 DEF StoredOnce
<1> QED BY <1>2, <1>3, <1>4, <1>5

LEMMA NextCidKeepsMInv ==
    ASSUME UploadsTypeOK, MInv, NEW s \in Sends, NextCid(s) PROVE MInv'
<1> USE DEF MInv
<1>1. PICK millis \in 0 .. MaxMillis : lastCid' = FreshCid(millis)
  BY DEF NextCid
<1>2. lastCid' \in Int /\ lastCid' < lastCid /\ lastCid' < 0
  BY <1>1, MillisAssumption DEF FreshCid, MessagesTypeOK, IdsFall
<1>3. /\ cid[s] = 0 /\ cid'[s] = lastCid' /\ pc[s] = "new" /\ pc'[s] = "current"
      /\ \A r \in Sends \ {s} : cid'[r] = cid[r] /\ pc'[r] = pc[r]
      /\ cid' \in [Sends -> Int]
      /\ written' = written /\ stored' = stored /\ delivered' = delivered
  BY <1>2 DEF NextCid, Goto, serverVars, UploadsTypeOK, MessagesTypeOK, IdsAreOwn
<1>4. MessagesTypeOK' BY <1>2, <1>3 DEF MessagesTypeOK
<1>5. IdsFall' BY <1>2, <1>3 DEF IdsFall, MessagesTypeOK
<1>6. IdsAreOwn'
  <2>1. ASSUME NEW r \in Sends \ {s} PROVE cid'[r] # lastCid'
    BY <1>2, <1>3 DEF IdsFall, MessagesTypeOK
  <2>2. \A q, r \in Sends : q # r /\ cid'[q] # 0 => cid'[q] # cid'[r]
    BY <1>3, <2>1 DEF IdsAreOwn
  <2>3. \A r \in Sends, id \in Int : <<r, id>> \in written' => id = cid'[r] /\ id # 0
    BY <1>3 DEF IdsAreOwn
  <2> QED BY <1>2, <1>3, <2>2, <2>3 DEF IdsAreOwn
<1>7. StoredOnce'
  <2>1. cid'[s] \notin stored /\ cid[s] \notin stored
    BY <1>2, <1>3 DEF IdsFall, MessagesTypeOK
  <2> QED BY <1>3, <2>1 DEF StoredOnce
<1> QED BY <1>4, <1>5, <1>6, <1>7

LEMMA StoreKeepsMInv ==
    ASSUME MInv, NEW m \in written, Store(m[1], m[2]) PROVE MInv'
<1> USE DEF MInv
<1>1. PICK s \in Sends, id \in Int : m = <<s, id>>
  BY DEF MessagesTypeOK
<1>2. /\ <<s, id>> \in written /\ id \notin stored
      /\ stored' = stored \cup {id} /\ delivered' = [delivered EXCEPT ![s] = @ + 1]
      /\ pc' = pc /\ lastCid' = lastCid /\ cid' = cid /\ written' = written
  BY <1>1 DEF Store, callVars, idVars
<1>3. id = cid[s] /\ id # 0 BY <1>2 DEF IdsAreOwn
<1>4. MessagesTypeOK' BY <1>2 DEF MessagesTypeOK
<1>5. IdsFall' BY <1>2, <1>3 DEF IdsFall
<1>6. IdsAreOwn' BY <1>2 DEF IdsAreOwn
<1>7. StoredOnce'
  <2>1. \A r \in Sends \ {s} : cid[r] # id
    BY <1>3 DEF IdsAreOwn
  <2>2. delivered'[s] = delivered[s] + 1 /\ \A r \in Sends \ {s} : delivered'[r] = delivered[r]
    BY <1>2 DEF MessagesTypeOK
  <2> QED BY <1>2, <1>3, <2>1, <2>2 DEF StoredOnce
<1> QED BY <1>4, <1>5, <1>6, <1>7

LEMMA StepKeepsMInv == ASSUME UploadsTypeOK, MInv, Next PROVE MInv'
<1> USE DEF serverVars
<1>1. ASSUME NEW s \in Sends, Proceed(s) \/ Transfer(s) \/ Abandoned(s), ~NextCid(s) PROVE MInv'
  <2>1. ASSUME NEW label, Goto(s, label), label \notin {"new", "ok"},
               pc[s] \notin {"new", "abandoned"} \/ label = "abandoned",
               UNCHANGED <<idVars, serverVars>>
        PROVE MInv'
    BY <2>1, MovingKeepsMInv DEF idVars
  <2>2. CASE Processed(s)
    BY <2>2, MovingKeepsMInv DEF Processed, idVars
  <2>3. CASE MessageAnswered(s)
    BY <2>3, MovingKeepsMInv DEF MessageAnswered, idVars
  <2>4. CASE Current(s) BY <2>1, <2>4 DEF Current
  <2>5. CASE \E f \in FileIds : UploadGranted(s, f) BY <2>1, <2>5 DEF UploadGranted
  <2>6. CASE UploadRefused(s) BY <2>1, <2>6 DEF UploadRefused
  <2>7. CASE Uploaded(s) BY <2>1, <2>7 DEF Uploaded
  <2>8. CASE UploadFails(s) BY <2>1, <2>8 DEF UploadFails
  <2>9. CASE ProcessingTimesOut(s) BY <2>1, <2>9 DEF ProcessingTimesOut
  <2>10. CASE Interrupted(s) BY <2>1, <2>10 DEF Interrupted, Replay, OnConnection, Registered
  <2>11. CASE Abandoned(s) BY <2>1, <2>11 DEF Abandoned
  <2> QED BY <1>1, <2>2, <2>3, <2>4, <2>5, <2>6, <2>7, <2>8, <2>9, <2>10, <2>11
          DEF Proceed, Transfer
<1>2. ASSUME UNCHANGED <<pc, idVars, serverVars>> PROVE MInv'
  BY <1>2 DEF MInv, idVars, MessagesTypeOK, IdsFall, IdsAreOwn, StoredOnce
<1>3. ASSUME NEW g \in Generations, Lose(g) \/ \E f \in FileIds : Complete(g, f) PROVE MInv'
  BY <1>2, <1>3 DEF Lose, Complete, callVars
<1>4. ASSUME Reconnect PROVE MInv'
  BY <1>2, <1>4 DEF Reconnect, callVars
<1> QED BY <1>1, <1>3, <1>4, NextCidKeepsMInv, StoreKeepsMInv DEF Next

\* The invariant of message ids.
THEOREM MessageInvariance == Spec => []MInv
<1>1. Init => MInv
  BY MillisAssumption DEF Init, MInv, MessagesTypeOK, IdsFall, IdsAreOwn, StoredOnce
<1>2. UploadsTypeOK /\ MInv /\ [Next]_vars => MInv'
  <2>1. ASSUME MInv, UNCHANGED vars PROVE MInv'
    BY <2>1 DEF vars, callVars, idVars, serverVars, MInv, MessagesTypeOK, IdsFall, IdsAreOwn, StoredOnce
  <2> QED BY <2>1, StepKeepsMInv
<1>3. IInv => UploadsTypeOK BY DEF IInv
<1> QED BY <1>1, <1>2, <1>3, FileInvariance, PTL DEF Spec

\* A message is stored once, and before its call returns Ok.
THEOREM MessagesAreStoredOnce == Spec => []OkMeansStoredOnce
<1>1. MInv => OkMeansStoredOnce BY DEF MInv, StoredOnce, OkMeansStoredOnce
<1> QED BY <1>1, MessageInvariance, PTL

\* Every variable keeps its type.
THEOREM FileTypeCorrectness == Spec => []TypeOK
<1>1. IInv /\ MInv => TypeOK BY DEF IInv, MInv, TypeOK
<1> QED BY <1>1, FileInvariance, MessageInvariance, PTL
=============================================================================
