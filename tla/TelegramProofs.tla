---------------------------- MODULE TelegramProofs ----------------------------
(***************************************************************************)
(* What holds of Telegram for any page limit, log and number of requests.  *)
(* A page is a run of the log without gaps, from where everything before   *)
(* is either older than the request or known to be noise.                  *)
(***************************************************************************)
EXTENDS Telegram, TLAPS

Last == Len(updates)

\* Everything that is remembered of the log is in it.
LogInv ==
    /\ confirmed <= Last /\ began <= Last /\ since <= Last /\ offset <= Last + 1
    /\ \A k \in DOMAIN page : page[k] <= Last

\* A page has no gaps, and the poll goes on after what was looked at.
PageInv ==
    /\ pc # "scanning" => page = <<>>
    /\ \A k \in DOMAIN page : page[k] = page[1] + k - 1
    /\ pc = "scanning" /\ page # <<>> => page[1] > confirmed

\* Why a code is fresh: the first poll starts after what was there.
FreshInv ==
    /\ pc = "fetching" => /\ backlog = began - confirmed
                          /\ confirmed <= began
    /\ pc \in {"prompting", "polling", "scanning"} =>
          offset > KnownOld \/ confirmed >= KnownOld
    /\ pc = "scanning" => \A k \in DOMAIN page : page[k] > KnownOld
    /\ pc # "idle" => result = "none"
    /\ CodeIsFresh

\* Why no reply is skipped: neither the first fetch nor a page goes past one.
ReplyInv ==
    /\ pc = "prompting" => offset <= since + 1 /\ confirmed <= since
    /\ pc = "fetching" => offset = 0
    /\ RepliesAreNotSkipped
    /\ pc = "scanning" /\ page # <<>> =>
          \A i \in since + 1 .. Last : updates[i] = "code" => i >= page[1]

IInv == TypeOK /\ LogInv /\ PageInv /\ FreshInv /\ ReplyInv

LEMMA MinIs == ASSUME NEW a \in Int, NEW b \in Int PROVE Min({a, b}) = IF a <= b THEN a ELSE b
<1>1. \E x \in {a, b} : \A y \in {a, b} : x <= y
  <2>1. CASE a <= b
    BY <2>1
  <2>2. CASE b <= a
    BY <2>2
  <2> QED BY <2>1, <2>2
<1>2. Min({a, b}) \in {a, b} /\ \A y \in {a, b} : Min({a, b}) <= y
  BY <1>1 DEF Min
<1> QED BY <1>2

LEMMA MaxIs == ASSUME NEW a \in Int, NEW b \in Int PROVE Max({a, b}) = IF a >= b THEN a ELSE b
<1>1. \E x \in {a, b} : \A y \in {a, b} : x >= y
  <2>1. CASE a >= b
    BY <2>1
  <2>2. CASE b >= a
    BY <2>2
  <2> QED BY <2>1, <2>2
<1>2. Max({a, b}) \in {a, b} /\ \A y \in {a, b} : Max({a, b}) >= y
  BY <1>1 DEF Max
<1> QED BY <1>2

\* What the service answers: the next updates, up to the limit.
LEMMA PageIs ==
    ASSUME TypeOK, NEW from \in 0 .. Last
    PROVE  /\ Page(from) \in Seq(1 .. MaxUpdates)
           /\ Len(Page(from)) \in Nat
           /\ DOMAIN Page(from) = 1 .. Len(Page(from))
           /\ Len(Page(from)) = (IF PageLimit <= Last - from THEN PageLimit ELSE Last - from)
           /\ \A k \in DOMAIN Page(from) : Page(from)[k] = from + k
<1> DEFINE n == IF PageLimit <= Last - from THEN PageLimit ELSE Last - from
<1>1. Last \in Nat /\ Last <= MaxUpdates /\ MaxUpdates \in Nat /\ PageLimit \in Nat \ {0}
  BY BoundsAssumption DEF TypeOK, Last
<1>2. n \in Nat /\ from + n <= Last
  BY <1>1
<1>3. Page(from) = [i \in 1 .. n |-> from + i]
  BY <1>1, MinIs DEF Page, Last
<1> HIDE DEF n
<1>4. \A i \in 1 .. n : from + i \in 1 .. MaxUpdates
  BY <1>1, <1>2
<1>5. Page(from) \in Seq(1 .. MaxUpdates) /\ Len(Page(from)) = n
  BY <1>2, <1>3, <1>4
<1> QED BY <1>2, <1>3, <1>5 DEF n

\* Positions in the log are numbers.
LEMMA Numbers ==
    ASSUME TypeOK
    PROVE  /\ MaxUpdates \in Nat /\ PageLimit \in Nat \ {0} /\ Last \in Nat /\ Last <= MaxUpdates
           /\ confirmed \in Nat /\ began \in Nat /\ since \in Nat /\ offset \in Nat
           /\ backlog \in Nat /\ KnownOld \in Int
           /\ Len(page) \in Nat /\ DOMAIN page = 1 .. Len(page)
           /\ \A k \in DOMAIN page : page[k] \in 1 .. MaxUpdates
           /\ page # <<>> => 1 \in DOMAIN page
<1>1. MaxUpdates \in Nat /\ PageLimit \in Nat \ {0} /\ Last \in Nat /\ Last <= MaxUpdates
  BY BoundsAssumption DEF TypeOK, Last
<1>2. page \in Seq(1 .. MaxUpdates)
  BY DEF TypeOK
<1>3. confirmed \in Nat /\ began \in Nat /\ since \in Nat /\ offset \in Nat
  BY <1>1 DEF TypeOK
<1>4. backlog \in Nat /\ KnownOld \in Int
  BY <1>1, <1>3 DEF TypeOK, KnownOld
<1> QED BY <1>1, <1>2, <1>3, <1>4

LEMMA InitIInv == ASSUME Init PROVE IInv
<1> USE DEF Init
<1>1. TypeOK
  <2>1. 0 \in 0 .. MaxUpdates /\ 0 \in 0 .. MaxUpdates + 1 /\ 0 \in 0 .. MaxRequests
    BY BoundsAssumption
  <2>2. updates \in Seq(Kinds) /\ Len(updates) <= MaxUpdates /\ page \in Seq(1 .. MaxUpdates)
    BY BoundsAssumption
  <2> QED BY <2>1, <2>2 DEF TypeOK, Errors
<1>2. LogInv /\ PageInv
  BY DEF LogInv, PageInv, Last
<1>3. FreshInv
  BY DEF FreshInv, CodeIsFresh, KnownOld
<1>4. ReplyInv
  BY DEF ReplyInv, RepliesAreNotSkipped
<1> QED BY <1>1, <1>2, <1>3, <1>4 DEF IInv

LEMMA PostStep == ASSUME IInv, NEW kind \in Kinds, Post(kind) PROVE IInv'
<1> USE DEF IInv
<1>1. /\ updates \in Seq(Kinds) /\ Len(updates) \in Nat /\ updates' = Append(updates, kind)
      /\ Last' = Last + 1 /\ Last \in Nat
      /\ \A i \in 1 .. Last : updates'[i] = updates[i]
      /\ UNCHANGED <<confirmed, request, pc, began, backlog, since, offset, page, overdue, code, result>>
  BY DEF Post, TypeOK, Last
<1>2. TypeOK'
  <2>1. Append(updates, kind) \in Seq(Kinds) /\ Len(Append(updates, kind)) <= MaxUpdates
    <3>1. Len(updates) < MaxUpdates
      BY DEF Post
    <3>2. Append(updates, kind) \in Seq(Kinds) /\ Len(Append(updates, kind)) = Len(updates) + 1
      BY <1>1
    <3> QED BY <1>1, <3>1, <3>2, BoundsAssumption
  <2> QED BY <1>1, <2>1 DEF TypeOK
<1>3. LogInv'
  <2>1. \A k \in DOMAIN page : page[k] \in Nat
    BY Numbers
  <2> QED BY <1>1, <2>1, Numbers DEF LogInv
<1>4. PageInv'
  BY <1>1 DEF PageInv
<1>5. FreshInv'
  BY <1>1 DEF FreshInv, CodeIsFresh, KnownOld
<1>6. \A i \in since + 1 .. Last' : i \in since + 1 .. Last \/ i = Last + 1
  BY <1>1 DEF TypeOK
<1>7. Last + 1 >= offset /\ Last + 1 > confirmed /\ \A k \in DOMAIN page : Last + 1 >= page[k]
  BY <1>1, Numbers DEF LogInv
<1>8. since + 1 >= 1
  BY DEF TypeOK
<1>9. RepliesAreNotSkipped'
  BY <1>1, <1>6, <1>7, <1>8 DEF ReplyInv, RepliesAreNotSkipped, Last, TypeOK
<1>10. pc = "scanning" /\ page # <<>> => \A i \in since + 1 .. Last' : updates'[i] = "code" => i >= page[1]
  <2> SUFFICES ASSUME pc = "scanning", page # <<>>, NEW i \in since + 1 .. Last', updates'[i] = "code"
               PROVE  i >= page[1]
    OBVIOUS
  <2>1. 1 \in DOMAIN page
    BY DEF TypeOK
  <2>2. CASE i \in since + 1 .. Last
    <3>1. i \in 1 .. Last
      BY <2>2, Numbers
    <3>2. updates'[i] = updates[i]
      BY <1>1, <3>1
    <3> QED BY <2>2, <3>2 DEF ReplyInv
  <2>3. CASE i = Last + 1
    BY <1>7, <2>1, <2>3
  <2> QED BY <1>6, <2>2, <2>3
<1>11. ReplyInv'
  BY <1>1, <1>9, <1>10 DEF ReplyInv
<1> QED BY <1>2, <1>3, <1>4, <1>5, <1>11

LEMMA RequestStep == ASSUME IInv, RequestText PROVE IInv'
<1> USE DEF IInv, RequestText
<1>1. TypeOK'
  <2>1. began' \in 0 .. MaxUpdates /\ backlog' \in 0 .. MaxUpdates
    BY Numbers DEF LogInv, Last
  <2>2. request' \in 0 .. MaxRequests
    BY BoundsAssumption DEF TypeOK
  <2>3. offset' \in 0 .. MaxUpdates + 1
    BY Numbers
  <2> QED BY <2>1, <2>2, <2>3 DEF TypeOK
<1>2. LogInv' /\ PageInv'
  BY DEF TypeOK, LogInv, PageInv, Last
<1>3. FreshInv' /\ ReplyInv'
  BY DEF TypeOK, FreshInv, CodeIsFresh, KnownOld, ReplyInv, RepliesAreNotSkipped, LogInv, Last
<1> QED BY <1>1, <1>2, <1>3

LEMMA FirstFetchStep == ASSUME IInv, FirstFetch PROVE IInv'
<1> USE DEF IInv
<1>1. /\ pc = "fetching" /\ pc' = "prompting" /\ since' = Last /\ Last' = Last
      /\ offset' = NextUpdateOffset(Page(confirmed))
      /\ UNCHANGED <<updates, confirmed, request, began, backlog, page, overdue, code, result>>
  BY DEF FirstFetch, Last
<1>2. /\ Last \in Nat /\ confirmed \in Nat /\ confirmed <= Last /\ Last <= MaxUpdates
      /\ began \in Nat /\ began <= Last /\ MaxUpdates \in Nat /\ PageLimit \in Nat \ {0}
  BY BoundsAssumption DEF TypeOK, LogInv, Last
<1> DEFINE n == Len(Page(confirmed))
<1>3. /\ n \in Nat /\ n = (IF PageLimit <= Last - confirmed THEN PageLimit ELSE Last - confirmed)
      /\ Page(confirmed) # <<>> <=> n > 0
      /\ n > 0 => Page(confirmed)[n] = confirmed + n
  BY <1>2, PageIs
<1>4. offset' = IF n = 0 THEN 0 ELSE confirmed + n + 1
  BY <1>1, <1>3 DEF NextUpdateOffset
<1> HIDE DEF n
<1>5. offset' \in 0 .. Last + 1 /\ (n = 0 => confirmed = Last)
  BY <1>2, <1>3, <1>4
<1>6. TypeOK'
  BY <1>1, <1>2, <1>5 DEF TypeOK
<1>7. LogInv' /\ PageInv'
  BY <1>1, <1>2, <1>5 DEF LogInv, PageInv
<1>8. offset' > KnownOld \/ confirmed >= KnownOld
  <2>1. backlog = began - confirmed /\ confirmed <= began
    BY <1>1 DEF FreshInv
  <2>2. KnownOld <= confirmed + n
    BY <1>2, <1>3, <2>1 DEF KnownOld
  <2> QED BY <1>2, <1>3, <1>4, <2>2, Numbers
<1>9. FreshInv'
  BY <1>1, <1>8 DEF FreshInv, CodeIsFresh, KnownOld
<1>10. ReplyInv'
  BY <1>1, <1>2, <1>5 DEF ReplyInv, RepliesAreNotSkipped
<1> QED BY <1>6, <1>7, <1>9, <1>10

LEMMA SendMessageStep == ASSUME IInv, SendMessage PROVE IInv'
<1> USE DEF IInv, SendMessage
<1>1. TypeOK' /\ LogInv' /\ PageInv'
  BY DEF TypeOK, LogInv, PageInv, Last
<1>2. FreshInv'
  BY DEF FreshInv, CodeIsFresh, KnownOld
<1>3. ReplyInv'
  BY DEF ReplyInv, RepliesAreNotSkipped, TypeOK, Last
<1> QED BY <1>1, <1>2, <1>3

LEMMA PollStep == ASSUME IInv, Poll PROVE IInv'
<1> USE DEF IInv
<1> DEFINE from == IF offset = 0 THEN confirmed ELSE Max({confirmed, offset - 1})
<1>1. /\ pc = "polling" /\ pc' = "scanning" /\ confirmed' = from /\ page' = Page(from) /\ Last' = Last
      /\ UNCHANGED <<updates, request, began, backlog, since, offset, overdue, code, result>>
  BY DEF Poll, Last
<1>2. /\ Last \in Nat /\ confirmed \in Nat /\ confirmed <= Last /\ Last <= MaxUpdates
      /\ offset \in Nat /\ offset <= Last + 1 /\ began \in Nat /\ since \in Nat /\ MaxUpdates \in Nat
  BY BoundsAssumption DEF TypeOK, LogInv, Last
<1>3. /\ from \in 0 .. Last /\ from >= confirmed /\ from >= offset - 1
      /\ from = confirmed \/ from = offset - 1
  BY <1>2, MaxIs
<1> HIDE DEF from
<1>4. /\ page' \in Seq(1 .. MaxUpdates) /\ Len(page') \in Nat /\ DOMAIN page' = 1 .. Len(page')
      /\ from + Len(page') <= Last
      /\ \A k \in DOMAIN page' : page'[k] = from + k
  <2>1. from + Len(page') <= Last
    <3>1. /\ Len(Page(from)) = IF PageLimit <= Last - from THEN PageLimit ELSE Last - from
          /\ Len(Page(from)) \in Nat
      BY <1>3, PageIs
    <3> HIDE DEF from
    <3> QED BY <1>1, <1>2, <1>3, <3>1, Numbers
  <2> QED BY <1>1, <1>3, <2>1, PageIs
<1>5. TypeOK'
  BY <1>1, <1>2, <1>3, <1>4 DEF TypeOK
<1>6. \A k \in DOMAIN page' : page'[k] <= Last /\ page'[k] > from /\ page'[k] = page'[1] + k - 1
  <2>1. DOMAIN page' # {} => page'[1] = from + 1
    BY <1>4
  <2> QED BY <1>2, <1>3, <1>4, <2>1
<1>7. LogInv'
  BY <1>1, <1>2, <1>3, <1>6 DEF LogInv
<1>8. page' # <<>> => page'[1] = from + 1 /\ page'[1] > from
  BY <1>3, <1>4
<1>9. PageInv'
  BY <1>1, <1>6, <1>8 DEF PageInv
<1>10. from >= KnownOld
  BY <1>1, <1>2, <1>3, Numbers DEF FreshInv
<1>11. FreshInv'
  <2>1. \A k \in DOMAIN page' : page'[k] > KnownOld
    BY <1>2, <1>3, <1>6, <1>10, <1>4, Numbers
  <2>2. confirmed' >= KnownOld
    BY <1>1, <1>10
  <2> QED BY <1>1, <2>1, <2>2 DEF FreshInv, CodeIsFresh, KnownOld
<1>12. \A i \in since + 1 .. Last : updates[i] = "code" => i >= offset /\ i > from
  BY <1>1, <1>2, <1>3 DEF ReplyInv, RepliesAreNotSkipped, Last
<1>13. RepliesAreNotSkipped'
  BY <1>1, <1>12 DEF RepliesAreNotSkipped, Last
<1>14. page' # <<>> => \A i \in since + 1 .. Last : updates[i] = "code" => i >= page'[1]
  BY <1>2, <1>3, <1>8, <1>12
<1>15. ReplyInv'
  BY <1>1, <1>13, <1>14 DEF ReplyInv
<1> QED BY <1>5, <1>7, <1>9, <1>11, <1>15

\* Looking at an update leaves the rest of its page, without gaps.
LEMMA ScanStep == ASSUME IInv, ScanUpdate PROVE IInv'
<1> USE DEF IInv
<1>1. /\ pc = "scanning" /\ page # <<>> /\ offset' = page[1] + 1 /\ Last' = Last
      /\ UNCHANGED <<updates, confirmed, request, began, backlog, since, overdue>>
  BY DEF ScanUpdate, Last
<1>2. /\ 1 \in DOMAIN page /\ page[1] \in 1 .. MaxUpdates /\ page[1] <= Last /\ page[1] > confirmed
  BY <1>1, Numbers DEF LogInv, PageInv
<1>3. offset' \in 0 .. MaxUpdates + 1 /\ offset' <= Last + 1
  BY <1>1, <1>2, Numbers
<1>4. \A i \in since + 1 .. Last : updates[i] = "code" => i >= page[1] /\ i >= offset /\ i > confirmed
  BY <1>1 DEF ReplyInv, RepliesAreNotSkipped, Last
<1>5. CASE updates[page[1]] = "code"
  <2>1. /\ code' = page[1] /\ result' = "code" /\ pc' = "idle" /\ page' = <<>>
    BY <1>1, <1>5 DEF ScanUpdate
  <2>2. TypeOK'
    <3>1. code' \in 0 .. MaxUpdates /\ page' \in Seq(1 .. MaxUpdates)
      BY <1>2, <2>1, Numbers
    <3> QED BY <1>1, <1>3, <2>1, <3>1 DEF TypeOK
  <2>3. LogInv' /\ PageInv'
    BY <1>1, <1>3, <2>1 DEF LogInv, PageInv
  <2>4. FreshInv'
    BY <1>1, <1>2, <2>1 DEF FreshInv, CodeIsFresh, KnownOld
  <2>5. ReplyInv'
    BY <2>1 DEF ReplyInv, RepliesAreNotSkipped
  <2> QED BY <2>2, <2>3, <2>4, <2>5
<1>6. CASE updates[page[1]] # "code"
  <2>1. page' = Tail(page) /\ UNCHANGED <<code, result, pc>>
    BY <1>1, <1>6 DEF ScanUpdate
  <2>2. /\ page' \in Seq(1 .. MaxUpdates) /\ Len(page') = Len(page) - 1
        /\ DOMAIN page' = 1 .. Len(page) - 1
        /\ \A k \in 1 .. Len(page) - 1 : page'[k] = page[k + 1]
        /\ page' # <<>> => 1 \in DOMAIN page'
    <3>1. page \in Seq(1 .. MaxUpdates)
      BY DEF TypeOK
    <3>2. page' \in Seq(1 .. MaxUpdates) /\ Len(page') = Len(page) - 1
      BY <1>1, <2>1, <3>1
    <3>3. DOMAIN page' = 1 .. Len(page) - 1 /\ \A k \in 1 .. Len(page) - 1 : page'[k] = page[k + 1]
      BY <1>1, <2>1, <3>1
    <3>4. page' # <<>> => 1 \in DOMAIN page'
      BY <3>2
    <3> QED BY <3>2, <3>3, <3>4
  <2>3. \A k \in DOMAIN page' : k + 1 \in DOMAIN page /\ page'[k] = page[k + 1] /\ k \in Nat
    <3>1. Len(page) \in Nat /\ DOMAIN page = 1 .. Len(page)
      BY Numbers
    <3>2. DOMAIN page' = 1 .. Len(page) - 1 /\ \A k \in 1 .. Len(page) - 1 : page'[k] = page[k + 1]
      BY <2>2
    <3>3. ASSUME NEW k \in DOMAIN page' PROVE k + 1 \in DOMAIN page /\ k \in Nat /\ page'[k] = page[k + 1]
      <4>1. k \in 1 .. Len(page) - 1
        BY <3>2, <3>3
      <4> QED BY <3>1, <3>2, <4>1
    <3> QED BY <3>3
  <2>4. \A k \in DOMAIN page' : page'[k] = page[1] + k /\ page'[k] <= Last
    BY <1>2, <2>3, Numbers DEF PageInv, LogInv
  <2>5. page' # <<>> => 1 \in DOMAIN page' /\ page'[1] = page[1] + 1
    BY <2>2, <2>4
  <2>6. TypeOK'
    BY <1>1, <1>3, <2>1, <2>2 DEF TypeOK
  <2>7. LogInv'
    BY <1>1, <1>3, <2>4 DEF LogInv
  <2>8. PageInv'
    <3>1. \A k \in DOMAIN page' : page'[k] = page'[1] + k - 1
      <4> SUFFICES ASSUME NEW k \in DOMAIN page' PROVE page'[k] = page'[1] + k - 1
        OBVIOUS
      <4>1. 1 \in DOMAIN page' /\ k \in Nat
        BY <2>2, <2>3
      <4> QED BY <1>2, <2>4, <4>1
    <3> QED BY <1>1, <1>2, <2>1, <2>5, <3>1, Numbers DEF PageInv
  <2>9. FreshInv'
    <3>1. \A k \in DOMAIN page' : page'[k] > KnownOld
      BY <1>1, <2>3 DEF FreshInv
    <3>2. offset' > KnownOld
      BY <1>1, <1>2, Numbers DEF FreshInv
    <3> QED BY <1>1, <2>1, <3>1, <3>2 DEF FreshInv, CodeIsFresh, KnownOld
  <2>10. \A i \in since + 1 .. Last : updates[i] = "code" => i >= page[1] + 1
    BY <1>2, <1>4, <1>6, Numbers
  <2>11. RepliesAreNotSkipped'
    BY <1>1, <1>4, <2>1, <2>10 DEF RepliesAreNotSkipped, Last
  <2>12. ReplyInv'
    BY <1>1, <2>1, <2>5, <2>10, <2>11 DEF ReplyInv
  <2> QED BY <2>6, <2>7, <2>8, <2>9, <2>12
<1> QED BY <1>5, <1>6

\* A request that is over keeps only what the service has confirmed.
LEMMA EndStep ==
    ASSUME IInv, NEW error \in Errors, End(error), pc # "idle",
           confirmed' = confirmed \/ (pc = "polling" /\ offset > confirmed /\ confirmed' = offset - 1)
    PROVE  IInv'
<1> USE DEF IInv, End
<1>1. confirmed' \in 0 .. MaxUpdates /\ confirmed' <= Last
  BY Numbers DEF LogInv
<1>2. TypeOK'
  BY <1>1 DEF TypeOK
<1>3. LogInv' /\ PageInv'
  BY <1>1 DEF LogInv, PageInv, Last
<1>4. FreshInv' /\ ReplyInv'
  BY DEF FreshInv, CodeIsFresh, KnownOld, ReplyInv, RepliesAreNotSkipped, Errors
<1> QED BY <1>2, <1>3, <1>4

LEMMA PageDoneStep == ASSUME IInv, PageDone PROVE IInv'
<1> USE DEF IInv, PageDone
<1>1. TypeOK' /\ LogInv' /\ PageInv'
  BY DEF TypeOK, LogInv, PageInv, Last
<1>2. FreshInv'
  BY DEF FreshInv, CodeIsFresh, KnownOld
<1>3. ReplyInv'
  BY DEF ReplyInv, RepliesAreNotSkipped, Last
<1> QED BY <1>1, <1>2, <1>3

LEMMA ClockStep == ASSUME IInv, DeadlinePasses \/ UNCHANGED vars PROVE IInv'
<1> USE DEF IInv
<1>1. /\ UNCHANGED <<updates, confirmed, request, pc, began, backlog, since, offset, page, code, result>>
      /\ overdue' \in BOOLEAN
  BY DEF DeadlinePasses, TypeOK, vars
<1>2. TypeOK' /\ LogInv' /\ PageInv'
  BY <1>1 DEF TypeOK, LogInv, PageInv, Last
<1>3. FreshInv' /\ ReplyInv'
  BY <1>1 DEF FreshInv, CodeIsFresh, KnownOld, ReplyInv, RepliesAreNotSkipped, Last
<1> QED BY <1>2, <1>3

\* The parts are inductive together.
THEOREM TelegramInvariance == Spec => []IInv
<1>1. ASSUME IInv, [Next]_vars PROVE IInv'
  <2>1. ASSUME NEW error \in Errors, Fail(error) PROVE IInv'
    BY <1>1, <2>1, EndStep DEF Fail
  <2>2. CASE TimeOut
    BY <1>1, <2>2, EndStep DEF TimeOut, Errors
  <2> QED BY <1>1, <2>1, <2>2, PostStep, RequestStep, FirstFetchStep, SendMessageStep, PollStep,
             ScanStep, PageDoneStep, ClockStep
          DEF Next, Client
<1> QED BY <1>1, InitIInv, PTL DEF Spec

\* Every variable of Telegram keeps its type.
THEOREM TelegramTypeCorrect == Spec => []TypeOK
BY TelegramInvariance, PTL DEF IInv

\* CodeIsFresh: no reply to an earlier prompt that was on the page read to find
\* the end of the updates is taken for the code, however long the backlog.
THEOREM CodesAreFresh == Spec => []CodeIsFresh
BY TelegramInvariance, PTL DEF IInv, FreshInv

\* RepliesAreNotSkipped: whatever was confirmed or looked at, no reply was among it.
THEOREM RepliesAreKept == Spec => []RepliesAreNotSkipped
BY TelegramInvariance, PTL DEF IInv, ReplyInv
================================================================================
