---------------------------- MODULE SharedObject ----------------------------
(***************************************************************************)
(* What the calls of kii_cloud.h on one object of a bucket promise to      *)
(* programs that share it.  A call takes effect at most once, at one       *)
(* moment, on a version of the object its caller agreed to.  A call that   *)
(* returns "ok" has taken effect before it returned, one that is "refused" *)
(* never will; of the others the caller knows nothing: they may take       *)
(* effect even after they have returned.                                   *)
(***************************************************************************)
EXTENDS Naturals, Sequences

CONSTANTS
    Thread,   \* the threads, of one thing or of several, that share the object
    Request,  \* calls: their number, what they do and what they agree to change
    NoRequest \* stands for no call

VARIABLES
    history,  \* the versions of the object, the first one first
    open,     \* calls that may still take effect
    calls,    \* how many calls have been made
    asked,    \* each thread's call
    result    \* what each thread knows of it

vars == <<history, open, calls, asked, result>>

Version == Len(history)
Exists == Version > 0 /\ history[Version].exists

\* Does the object stand as the caller of q agreed to find it.
Agreed(q) ==
    CASE q.agrees = "anything" -> TRUE
      [] q.agrees = "absent"   -> ~Exists
      [] q.agrees = "present"  -> Exists
      [] q.agrees = "version"  -> Exists /\ q.etag = Version

\* The version a call makes.
Made(q) ==
    [by       |-> q.id,
     exists   |-> q.does # "delete",
     contents |-> CASE q.does = "put"    -> q.contents
                    [] q.does = "patch"  -> q.contents \cup
                                            IF Exists THEN history[Version].contents ELSE {}
                    [] q.does = "delete" -> {}]

Init ==
    /\ history = <<>> /\ open = {} /\ calls = 0
    /\ asked = [t \in Thread |-> NoRequest]
    /\ result = [t \in Thread |-> "none"]

\* Has q changed the object.
Changed(q) == \E i \in DOMAIN history : history[i].by = q.id

\* Calls are numbered in the order they are made; one that finds no memory is
\* never open.  (Of all requests, only the one asked' holds can be q.)
Ask(t) ==
    /\ result[t] # "waiting"
    /\ \E q \in {asked'[t]} \cap Request :
          /\ q.id = calls + 1
          /\ asked' = [asked EXCEPT ![t] = q]
          /\ \/ /\ open' = open \cup {q}
                /\ result' = [result EXCEPT ![t] = "waiting"]
             \/ /\ result' = [result EXCEPT ![t] = "unknown"]
                /\ UNCHANGED open
    /\ calls' = calls + 1
    /\ UNCHANGED history

TakeEffect(q) ==
    /\ q \in open /\ q.does # "get" /\ Agreed(q)
    /\ open' = open \ {q}
    /\ history' = Append(history, Made(q))
    /\ UNCHANGED <<calls, asked, result>>

\* The call will not change the object: it is refused, or has read it.
Close(q) ==
    /\ q \in open
    /\ open' = open \ {q}
    /\ UNCHANGED <<history, calls, asked, result>>

Return(t) ==
    /\ result[t] = "waiting"
    /\ \E r \in {"ok", "refused", "unknown"} :
          /\ r = "ok" => asked[t] \notin open /\ (asked[t].does = "get" \/ Changed(asked[t]))
          /\ r = "refused" => asked[t] \notin open /\ ~Changed(asked[t])
          /\ result' = [result EXCEPT ![t] = r]
    /\ UNCHANGED <<history, open, calls, asked>>

Next ==
    \/ \E t \in Thread : Ask(t) \/ Return(t)
    \/ \E q \in open : TakeEffect(q) \/ Close(q)

Spec == Init /\ [][Next]_vars
=============================================================================
