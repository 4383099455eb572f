---------------------------- MODULE HttpAdapter ----------------------------
(***************************************************************************)
(* What kii_cloud.c relies on when it calls kii_http_execute: a call that  *)
(* returns KII_TRUE gives the caller the whole answer the server gave to   *)
(* this very request; a call that returns KII_FALSE did not get the whole  *)
(* answer, though the server may have carried out the request.             *)
(***************************************************************************)

CONSTANTS
    Thread,   \* the threads that call the adapter
    Answer,   \* what the server may answer
    NoAnswer  \* stands for no answer

VARIABLES
    state,   \* of each thread's exchange
    answer,  \* the answer that arrived for it
    given    \* what the caller was given

vars == <<state, answer, given>>

Init ==
    /\ state = [t \in Thread |-> "idle"]
    /\ answer = [t \in Thread |-> NoAnswer]
    /\ given = [t \in Thread |-> NoAnswer]

Ask(t) ==
    /\ state[t] \in {"idle", "succeeded", "failed"}
    /\ state' = [state EXCEPT ![t] = "asked"]
    /\ answer' = [answer EXCEPT ![t] = NoAnswer]
    /\ given' = [given EXCEPT ![t] = NoAnswer]

Arrive(t) ==
    /\ state[t] = "asked"
    /\ state' = [state EXCEPT ![t] = "answered"]
    /\ \E a \in Answer : answer' = [answer EXCEPT ![t] = a]
    /\ UNCHANGED given

Succeed(t) ==
    /\ state[t] = "answered"
    /\ state' = [state EXCEPT ![t] = "succeeded"]
    /\ given' = [given EXCEPT ![t] = answer[t]]
    /\ UNCHANGED answer

Fail(t) ==
    /\ state[t] = "asked"
    /\ state' = [state EXCEPT ![t] = "failed"]
    /\ UNCHANGED <<answer, given>>

Next == \E t \in Thread : Ask(t) \/ Arrive(t) \/ Succeed(t) \/ Fail(t)

Spec == Init /\ [][Next]_vars
=============================================================================
