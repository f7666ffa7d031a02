---------------------------- MODULE ToolService ----------------------------
(***************************************************************************)
(* What the tool execution service promises, without saying how it keeps   *)
(* the promise: every request_id has at most one answer, an answer never   *)
(* changes, a call that is answered is answered with the answer of its     *)
(* request, and the session hears of each answer at most once.  No agent,  *)
(* no table of pending executions, no future and no channel appear here.   *)
(* ToolExecution.tla is shown to implement this specification.             *)
(***************************************************************************)
CONSTANTS Calls,      \* invocations of execute_tool
          Requests,   \* request_ids
          Answers,    \* the results a request may be answered with
          None        \* no value

VARIABLES state,      \* where each call stands
          asked,      \* the request of each call
          reply,      \* what an answered call returned
          answer,     \* the answer of each request, or None
          announced   \* the answers the session has been told, per request

vars == <<state, asked, reply, answer, announced>>

Init ==
    /\ state = [c \in Calls |-> "idle"]
    /\ asked = [c \in Calls |-> None]
    /\ reply = [c \in Calls |-> None]
    /\ answer = [r \in Requests |-> None]
    /\ announced = [r \in Requests |-> <<>>]

(* A caller asks for a request and from then on waits. *)
Ask(c, r) ==
    /\ state[c] = "idle"
    /\ state' = [state EXCEPT ![c] = "open"]
    /\ asked' = [asked EXCEPT ![c] = r]
    /\ UNCHANGED <<reply, answer, announced>>

(* A request that was answered before is answered again at once, the same. *)
AskAgain(c, r) ==
    /\ state[c] = "idle"
    /\ answer[r] # None
    /\ state' = [state EXCEPT ![c] = "answered"]
    /\ asked' = [asked EXCEPT ![c] = r]
    /\ reply' = [reply EXCEPT ![c] = answer[r]]
    /\ UNCHANGED <<answer, announced>>

(* The service may refuse a call it never opened. *)
Refuse(c, r) ==
    /\ state[c] = "idle"
    /\ state' = [state EXCEPT ![c] = "failed"]
    /\ asked' = [asked EXCEPT ![c] = r]
    /\ UNCHANGED <<reply, answer, announced>>

(* The first answer of a request is the only one. *)
Answer(r, v) ==
    /\ answer[r] = None
    /\ answer' = [answer EXCEPT ![r] = v]
    /\ UNCHANGED <<state, asked, reply, announced>>

Return(c) ==
    /\ state[c] = "open"
    /\ answer[asked[c]] # None
    /\ state' = [state EXCEPT ![c] = "answered"]
    /\ reply' = [reply EXCEPT ![c] = answer[asked[c]]]
    /\ UNCHANGED <<asked, answer, announced>>

(* Open calls may fail, several at once when they shared one wait. *)
Fail(S) ==
    /\ S # {}
    /\ \A c \in S : state[c] = "open"
    /\ state' = [c \in Calls |-> IF c \in S THEN "failed" ELSE state[c]]
    /\ UNCHANGED <<asked, reply, answer, announced>>

Announce(r) ==
    /\ answer[r] # None
    /\ announced[r] = <<>>
    /\ announced' = [announced EXCEPT ![r] = <<answer[r]>>]
    /\ UNCHANGED <<state, asked, reply, answer>>

Next ==
    \/ \E c \in Calls, r \in Requests : Ask(c, r) \/ AskAgain(c, r) \/ Refuse(c, r)
    \/ \E r \in Requests, v \in Answers : Answer(r, v)
    \/ \E c \in Calls : Return(c)
    \/ \E S \in SUBSET Calls : Fail(S)
    \/ \E r \in Requests : Announce(r)

Spec == Init /\ [][Next]_vars
=============================================================================
