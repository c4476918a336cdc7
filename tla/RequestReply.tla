---------------------------- MODULE RequestReply ----------------------------
(***************************************************************************)
(* What invoke promises its callers, whatever locks, sequence numbers and  *)
(* tables it is made of: a call asks the server at most once, and either   *)
(* fails or returns after the server answered that very call.              *)
(***************************************************************************)
CONSTANT Calls

VARIABLES
    status,    \* each call: "new", "open", "answered" or "failed"
    asked,     \* calls whose request was written
    answered   \* calls the server answered

vars == <<status, asked, answered>>

Init ==
    /\ status = [c \in Calls |-> "new"]
    /\ asked = {}
    /\ answered = {}

Begin(c) ==
    /\ status[c] = "new"
    /\ status' = [status EXCEPT ![c] = "open"]
    /\ UNCHANGED <<asked, answered>>

Ask(c) ==
    /\ status[c] = "open"
    /\ c \notin asked
    /\ asked' = asked \cup {c}
    /\ UNCHANGED <<status, answered>>

\* The caller may be gone by the time the server answers.
Answer(c) ==
    /\ c \in asked \ answered
    /\ answered' = answered \cup {c}
    /\ UNCHANGED <<status, asked>>

Return(c) ==
    /\ status[c] = "open"
    /\ c \in answered
    /\ status' = [status EXCEPT ![c] = "answered"]
    /\ UNCHANGED <<asked, answered>>

\* Also when the request was written, or even answered.
Fail(c) ==
    /\ status[c] = "open"
    /\ status' = [status EXCEPT ![c] = "failed"]
    /\ UNCHANGED <<asked, answered>>

Next == \E c \in Calls : Begin(c) \/ Ask(c) \/ Answer(c) \/ Return(c) \/ Fail(c)

Spec == Init /\ [][Next]_vars
=============================================================================
