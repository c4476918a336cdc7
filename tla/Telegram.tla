-------------------------------- MODULE Telegram --------------------------------
(***************************************************************************)
(* request_sms_code over Telegram: find where the updates end, post the    *)
(* prompt, poll for the operator's reply. Every login attempt that needs a *)
(* code makes a request of its own, over the same bot and chat, whose      *)
(* replies to earlier prompts may be there already or come late.           *)
(***************************************************************************)
EXTENDS Integers, Sequences, FiniteSetsExt

CONSTANTS
    PageLimit,    \* updates the service returns at a time (100)
    MaxUpdates,   \* bound: updates in the chat
    MaxRequests   \* bound: requests for a code

ASSUME BoundsAssumption ==
    /\ PageLimit \in Nat \ {0}
    /\ MaxUpdates \in Nat /\ MaxRequests \in Nat \ {0}

VARIABLES
    updates,    \* the service's log: a text that may be a code, or noise
    confirmed,  \* updates the service was told to forget: those up to here
    request,    \* requests begun
    pc,         \* how far the newest one is
    began,      \* length of the log when it began
    backlog,    \* how many of these updates were not confirmed then
    since,      \* length of the log at its first fetch
    offset,     \* the update its next poll starts from, 0 for none
    page,       \* updates it received and has not looked at
    overdue,    \* its poll timeout is over
    code,       \* the update it took for the operator's reply
    result      \* how it ended

vars == <<updates, confirmed, request, pc, began, backlog, since, offset, page, overdue,
          code, result>>

Kinds == {"code", "noise"}
Errors == {"unavailable", "refused", "dropped"}

TypeOK ==
    /\ updates \in Seq(Kinds) /\ Len(updates) <= MaxUpdates
    /\ confirmed \in 0 .. MaxUpdates
    /\ request \in 0 .. MaxRequests
    /\ pc \in {"idle", "fetching", "prompting", "polling", "scanning"}
    /\ {began, backlog, since} \subseteq 0 .. MaxUpdates
    /\ offset \in 0 .. MaxUpdates + 1
    /\ page \in Seq(1 .. MaxUpdates)
    /\ overdue \in BOOLEAN
    /\ code \in 0 .. MaxUpdates
    /\ result \in Errors \cup {"none", "code"}

Init ==
    /\ updates = <<>>
    /\ confirmed = 0 /\ request = 0 /\ began = 0
    /\ backlog = 0 /\ since = 0 /\ offset = 0
    /\ pc = "idle"
    /\ page = <<>>
    /\ overdue = FALSE
    /\ code = 0 /\ result = "none"

-------------------------------------------------------------------------------
(* The service: getUpdates with an offset confirms all before it, and      *)
(* answers with the first PageLimit updates that are not confirmed.        *)

Post(kind) ==
    /\ Len(updates) < MaxUpdates
    /\ updates' = Append(updates, kind)
    /\ UNCHANGED <<confirmed, request, pc, began, backlog, since, offset,
                   page, overdue, code, result>>

Page(from) ==
    [i \in 1 .. Min({PageLimit, Len(updates) - from}) |-> from + i]

-------------------------------------------------------------------------------
(* A refusal ends run(); any other error lets another attempt ask. *)
RequestText ==
    /\ pc = "idle" /\ request < MaxRequests /\ result # "refused"
    /\ request' = request + 1
    /\ pc' = "fetching"
    /\ began' = Len(updates) /\ backlog' = began' - confirmed
    /\ offset' = 0 /\ overdue' = FALSE /\ result' = "none"
    /\ UNCHANGED <<updates, confirmed, since, page, code>>

NextUpdateOffset(ids) == IF ids = <<>> THEN 0 ELSE ids[Len(ids)] + 1

(* Mutant: polling starts without an offset. *)
FirstFetchMutant ==
    /\ pc = "fetching"
    /\ since' = Len(updates)
    /\ pc' = "prompting"
    /\ UNCHANGED <<updates, confirmed, request, began, backlog, offset, page,
                   overdue, code, result>>

(* Without an offset the service confirms nothing. *)
FirstFetch ==
    /\ pc = "fetching"
    /\ offset' = NextUpdateOffset(Page(confirmed))
    /\ since' = Len(updates)
    /\ pc' = "prompting"
    /\ UNCHANGED <<updates, confirmed, request, began, backlog, page, overdue,
                   code, result>>

(* One to three times, since a failed try may have reached the chat; what  *)
(* the bot says is not in its own updates.                                 *)
SendMessage ==
    /\ pc = "prompting"
    /\ pc' = "polling"
    /\ UNCHANGED <<updates, confirmed, request, began, backlog, since, offset,
                   page, overdue, code, result>>

Poll ==
    /\ pc = "polling" /\ ~overdue
    /\ LET from == IF offset = 0 THEN confirmed ELSE Max({confirmed, offset - 1}) IN
       /\ confirmed' = from
       /\ page' = Page(from)
    /\ pc' = "scanning"
    /\ UNCHANGED <<updates, request, began, backlog, since, offset, overdue,
                   code, result>>

(* Mutant: only the first update of a page is looked at. *)
ScanUpdateMutant ==
    /\ pc = "scanning" /\ page # <<>>
    /\ offset' = page[Len(page)] + 1
    /\ IF updates[Head(page)] = "code"
       THEN /\ code' = Head(page) /\ result' = "code"
            /\ pc' = "idle"
            /\ page' = <<>>
       ELSE /\ page' = <<>>
            /\ UNCHANGED <<code, result, pc>>
    /\ UNCHANGED <<updates, confirmed, request, began, backlog, since,
                   overdue>>

(* One update of the page; the first text of the chat that is not the      *)
(* bot's own ends the request.                                             *)
ScanUpdate ==
    /\ pc = "scanning" /\ page # <<>>
    /\ offset' = Head(page) + 1
    /\ IF updates[Head(page)] = "code"
       THEN /\ code' = Head(page) /\ result' = "code"
            /\ pc' = "idle"
            /\ page' = <<>>
       ELSE /\ page' = Tail(page)
            /\ UNCHANGED <<code, result, pc>>
    /\ UNCHANGED <<updates, confirmed, request, began, backlog, since,
                   overdue>>

PageDone ==
    /\ pc = "scanning" /\ page = <<>>
    /\ pc' = "polling"
    /\ UNCHANGED <<updates, confirmed, request, began, backlog, since, offset,
                   page, overdue, code, result>>

DeadlinePasses ==
    /\ pc \in {"polling", "scanning"} /\ ~overdue
    /\ overdue' = TRUE
    /\ UNCHANGED <<updates, confirmed, request, pc, began, backlog, since,
                   offset, page, code, result>>

End(error) ==
    /\ result' = error
    /\ pc' = "idle"
    /\ page' = <<>>
    /\ UNCHANGED <<updates, request, began, backlog, since, offset, overdue, code>>

(* The deadline is looked at between two polls, never during one. *)
TimeOut ==
    /\ pc = "polling" /\ overdue
    /\ End("unavailable")
    /\ UNCHANGED confirmed

(* An HTTP error: 408, 429 and 5xx are transient, the rest are refusals;   *)
(* or the attempt is dropped while it waits. The service may have acted    *)
(* on the request all the same.                                            *)
Fail(error) ==
    /\ pc \in {"fetching", "prompting", "polling"}
    /\ End(error)
    /\ \/ UNCHANGED confirmed
       \/ /\ pc = "polling" /\ offset > confirmed
          /\ confirmed' = offset - 1

Client ==
    \/ FirstFetch \/ SendMessage \/ Poll \/ ScanUpdate \/ PageDone
    \/ TimeOut \/ \E error \in Errors : Fail(error)

Next ==
    \/ RequestText \/ Client \/ DeadlinePasses
    \/ \E kind \in Kinds : Post(kind)

Spec == Init /\ [][Next]_vars

-------------------------------------------------------------------------------
(* The newest update a request is sure to have been told of before it      *)
(* polls: the last of those there when it began, or the last that fitted   *)
(* on the one page which is read to find their end.                        *)
KnownOld ==
    IF backlog <= PageLimit THEN began ELSE began - backlog + PageLimit

(* The text taken for the code is newer than these: never the reply to an  *)
(* earlier prompt that was there already, and of a backlog longer than a   *)
(* page nothing that is on its first page.                                 *)
CodeIsFresh ==
    result = "code" => code > KnownOld

(* No reply is passed over: every code that came after the first fetch is  *)
(* still to be had from the service, or is on the page being looked at.    *)
RepliesAreNotSkipped ==
    pc \in {"polling", "scanning"} =>
        \A i \in since + 1 .. Len(updates) :
            updates[i] = "code" => i >= offset /\ i > confirmed
===============================================================================
