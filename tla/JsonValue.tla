----------------------------- MODULE JsonValue -----------------------------
(***************************************************************************)
(* jansson's value.c: values shared by counting the references to them.  A *)
(* value is a node of the heap; true stands for the three values that are  *)
(* never counted, a scalar for a string or a number.  One thread makes one *)
(* call after the other; a call that releases, updates or copies takes a   *)
(* step per value.                                                         *)
(*                                                                         *)
(* An object is the map of KeyMap, with fewer keys than its table has      *)
(* buckets at first, so that it is never rehashed.  Every value a call is  *)
(* given is one the program holds a reference to.                          *)
(***************************************************************************)
EXTENDS Integers, SequencesExt

CONSTANTS
    Node,        \* the values that can be allocated
    true,        \* json_true(), json_false() and json_null()
    Key, BadKey, \* keys, and one that is not UTF-8
    Text,        \* what scalars hold
    None,        \* no text, no call
    FirstSize,   \* the entries a new array has room for, 8 in the code
    MaxWeight,   \* bound on the values and members the program adds to
    MaxOwned     \* bound on the references the program takes to one value

ASSUME JsonValueAssumption ==
    /\ true \notin Node /\ BadKey \notin Key
    /\ IsFiniteSet(Node) /\ IsFiniteSet(Key) /\ Cardinality(Key) < 8
    /\ FirstSize \in Nat \ {0} /\ MaxWeight \in Nat /\ MaxOwned \in Nat \ {0}

VARIABLES
    heap,      \* the nodes
    owned,     \* the references the program, or a call for it, holds
    lost,      \* those a call neither kept nor gave back
    todo,      \* the values json_decref is called for next
    loop,      \* the iteration of an update or a shallow copy
    frames,    \* the nested calls of json_deep_copy
    whole,     \* has every member been copied so far
    copied     \* the deep copy that has just returned

calls == <<loop, frames, whole, copied>>
vars == <<heap, owned, lost, todo, calls>>

Value == Node \cup {true}
NewNode(kind, text) ==
    [kind |-> kind, content |-> <<>>, text |-> text, refcount |-> 1,
     size |-> IF kind = "array" THEN FirstSize ELSE 0]
FreeNode == [NewNode("free", None) EXCEPT !.refcount = 0]

KindOf(v) == IF v = true THEN "true" ELSE heap[v].kind
Content(n) == heap[n].content
Members(n) == {Content(n)[i] : i \in DOMAIN Content(n)}
Free == {n \in Node : KindOf(n) = "free"}
Live == Node \ Free
Containers == {n \in Node : KindOf(n) \in {"object", "array"}}
Held == {v \in Value : v = true \/ owned[v] > 0}
\* The values allocated and the members they have.
Weight ==
    Cardinality(Live) + MapThenSumSet(LAMBDA n : Cardinality(DOMAIN Content(n)), Node)

TypeOK ==
    /\ \A n \in Node :
          /\ KindOf(n) \in {"free", "object", "array", "scalar"}
          /\ Members(n) \subseteq Value
          /\ CASE KindOf(n) = "object" -> DOMAIN Content(n) \subseteq Key
               [] KindOf(n) = "array"  -> Content(n) \in Seq(Value)
               [] OTHER                -> Content(n) = <<>>
          /\ heap[n].text \in IF KindOf(n) = "scalar" THEN Text ELSE {None}
          /\ {heap[n].refcount, heap[n].size, owned[n], lost[n]} \subseteq Nat
    /\ todo \in Seq(Value)
    /\ loop # None => /\ loop.op \in {"update", "existing", "missing", "copy"}
                      /\ loop.rest \subseteq DOMAIN Content(loop.from)
    /\ \A i \in DOMAIN frames :
          /\ frames[i].to \in Live
          /\ frames[i].rest \subseteq DOMAIN Content(frames[i].from)
    /\ whole \in BOOLEAN

Init ==
    /\ heap = [n \in Node |-> FreeNode]
    /\ owned = [n \in Node |-> 0] /\ lost = [n \in Node |-> 0]
    /\ todo = <<>>
    /\ loop = None /\ frames = <<>> /\ whole = TRUE /\ copied = None

-----------------------------------------------------------------------------
(* References.                                                              *)

\* Between two calls of the program.
Idle == todo = <<>> /\ loop = None /\ frames = <<>>
NoCall == copied' = None /\ UNCHANGED <<loop, frames, whole>>

\* A heap in which v has d references more; the program's count likewise.
Ref(h, v, d) == IF v = true THEN h ELSE [h EXCEPT ![v].refcount = @ + d]
Own(v, d) == IF v = true THEN owned ELSE [owned EXCEPT ![v] = @ + d]
RefAll(h, s) ==
    [n \in Node |-> [h[n] EXCEPT !.refcount = @ + Cardinality({i \in DOMAIN s : s[i] = n})]]

\* The members of n, in some order.
MembersSeq(n) ==
    LET s == SetToSeq(DOMAIN Content(n)) IN [i \in DOMAIN s |-> Content(n)[s[i]]]

\* json_decref, and json_delete for the last reference.
Decref ==
    /\ todo # <<>>
    /\ LET v == Head(todo)
       IN  \/ /\ v = true
              /\ todo' = Tail(todo) /\ UNCHANGED heap
           \/ /\ v # true /\ heap[v].refcount > 1
              /\ heap' = Ref(heap, v, -1)
              /\ todo' = Tail(todo)
           \/ /\ v # true /\ heap[v].refcount <= 1
              /\ heap' = [heap EXCEPT ![v] = FreeNode]
              /\ todo' = MembersSeq(v) \o Tail(todo)
    /\ UNCHANGED <<owned, lost, calls>>

\* The program gives back a reference, takes one to a member it has looked up,
\* or has a value created.
Drop(n) ==
    /\ owned[n] > 0
    /\ owned' = Own(n, -1) /\ todo' = <<n>>
    /\ NoCall /\ UNCHANGED <<heap, lost>>

Take(c, i) ==
    /\ owned[c] > 0 /\ i \in DOMAIN Content(c)
    /\ LET v == Content(c)[i]
       IN  /\ v # true => owned[v] < MaxOwned
           /\ heap' = Ref(heap, v, 1) /\ owned' = Own(v, 1)
    /\ NoCall /\ UNCHANGED <<lost, todo>>

New(n, kind, t) ==
    /\ Weight < MaxWeight
    /\ heap' = [heap EXCEPT ![n] = NewNode(kind, t)]
    /\ owned' = Own(n, 1)
    /\ NoCall /\ UNCHANGED <<lost, todo>>

\* json_string_set and json_integer_set; the new string may not be allocated.
ScalarSet(n, t) ==
    /\ owned[n] > 0 /\ KindOf(n) = "scalar"
    /\ heap' = [heap EXCEPT ![n].text = t]
    /\ NoCall /\ UNCHANGED <<owned, lost, todo>>

-----------------------------------------------------------------------------
(* One member.                                                              *)

Fits(a, amount) == Len(Content(a)) + amount <= heap[a].size

\* json_array_grow.
Grown(h, a, amount) ==
    IF Fits(a, amount) THEN h
    ELSE [h EXCEPT ![a].size = Max({@ + amount, 2 * @})]

\* v as the member k of an object, and at the end of an array.
ObjectPut(h, o, k, v) ==
    [h EXCEPT ![o].content = [j \in DOMAIN @ \cup {k} |-> IF j = k THEN v ELSE @[j]]]
ArrayPut(h, a, v) == [Grown(h, a, 1) EXCEPT ![a].content = Append(@, v)]
Put(h, c, i, v) == IF KindOf(c) = "array" THEN ArrayPut(h, c, v) ELSE ObjectPut(h, c, i, v)
PutMayFail(c, i) ==
    IF KindOf(c) = "array" THEN ~Fits(c, 1) ELSE i \notin DOMAIN Content(c)
\* The value that i replaces.
Replaced(c, i) ==
    IF KindOf(c) = "object" /\ i \in DOMAIN Content(c) THEN <<Content(c)[i]>> ELSE <<>>

\* The program passes a value with the reference it has (taken), or has the
\* call take another one.
Passed(v, taken) == IF taken THEN heap ELSE Ref(heap, v, 1)
Passing(c, v, taken) ==
    /\ owned[c] > 0 /\ v \in Held
    /\ owned' = IF taken THEN Own(v, -1) ELSE owned
    /\ NoCall
GivenBack(h, v) == heap' = h /\ todo' = <<v>>

\* Mutant: a value whose pair is not allocated is not given back.
SetNewKeeping(c, i, v, h) ==
    \/ PutMayFail(c, i) /\ heap' = h /\ UNCHANGED todo
    \/ /\ Replaced(c, i) = <<>> => Weight < MaxWeight
       /\ heap' = Put(h, c, i, v) /\ todo' = Replaced(c, i)

\* A new or another member, once the arguments are accepted.
SetNew(c, i, v, h) ==
    \/ PutMayFail(c, i) /\ GivenBack(h, v)
    \/ /\ Replaced(c, i) = <<>> => Weight < MaxWeight
       /\ heap' = Put(h, c, i, v) /\ todo' = Replaced(c, i)

ObjectSetNew(o, k, v, taken) ==
    /\ Passing(o, v, taken)
    /\ IF KindOf(o) = "object" /\ o # v /\ k # BadKey
       THEN SetNew(o, k, v, Passed(v, taken))
       ELSE GivenBack(Passed(v, taken), v)
    /\ UNCHANGED lost

ArrayAppendNew(a, v, taken) ==
    /\ Passing(a, v, taken)
    /\ IF KindOf(a) = "array" /\ a # v
       THEN SetNew(a, Len(Content(a)) + 1, v, Passed(v, taken))
       ELSE GivenBack(Passed(v, taken), v)
    /\ UNCHANGED lost

ArraySetNew(a, i, v, taken) ==
    /\ Passing(a, v, taken)
    /\ IF KindOf(a) = "array" /\ a # v /\ i \in DOMAIN Content(a)
       THEN /\ heap' = [Passed(v, taken) EXCEPT ![a].content[i] = v]
            /\ todo' = <<Content(a)[i]>>
       ELSE GivenBack(Passed(v, taken), v)
    /\ UNCHANGED lost

\* Before the i-th member, or at the end.
ArrayInsertNew(a, i, v, taken) ==
    /\ Passing(a, v, taken)
    /\ IF KindOf(a) = "array" /\ a # v /\ i \in 1 .. Len(Content(a)) + 1
       THEN \/ /\ Weight < MaxWeight
               /\ heap' = [Grown(Passed(v, taken), a, 1) EXCEPT ![a].content = InsertAt(@, i, v)]
               /\ UNCHANGED todo
            \/ ~Fits(a, 1) /\ GivenBack(Passed(v, taken), v)
       ELSE GivenBack(Passed(v, taken), v)
    /\ UNCHANGED lost

\* json_object_iter_set_new: a call without an iterator neither keeps the value
\* nor gives it back, and no call checks that the object is not its own member.
IterSetNew(o, k, v, taken) ==
    /\ Passing(o, v, taken)
    /\ IF KindOf(o) = "object" /\ k \in DOMAIN Content(o)
       THEN /\ heap' = Put(Passed(v, taken), o, k, v) /\ todo' = Replaced(o, k)
            /\ UNCHANGED lost
       ELSE /\ v # true /\ \A n \in Node : lost[n] = 0
            /\ heap' = Passed(v, taken) /\ lost' = [lost EXCEPT ![v] = 1]
            /\ UNCHANGED todo

\* json_object_del and json_array_remove.
RemoveMember(c, i) ==
    /\ owned[c] > 0 /\ i \in DOMAIN Content(c)
    /\ heap' = [heap EXCEPT ![c].content =
                   IF KindOf(c) = "array" THEN RemoveAt(@, i)
                   ELSE [k \in DOMAIN @ \ {i} |-> @[k]]]
    /\ todo' = <<Content(c)[i]>>
    /\ NoCall /\ UNCHANGED <<owned, lost>>

\* json_object_clear and json_array_clear.
Clear(c) ==
    /\ owned[c] > 0 /\ c \in Containers
    /\ heap' = [heap EXCEPT ![c].content = <<>>]
    /\ todo' = MembersSeq(c)
    /\ NoCall /\ UNCHANGED <<owned, lost>>

-----------------------------------------------------------------------------
(* All members of a container.                                              *)

\* The members all added at once are held against the bound.
Roomy(c) == Weight + Cardinality(DOMAIN Content(c)) <= MaxWeight

\* A table that cannot be grown stays as it is.
ArrayExtend(a, b) ==
    /\ owned[a] > 0 /\ owned[b] > 0
    /\ KindOf(a) = "array" /\ KindOf(b) = "array" /\ Roomy(b)
    /\ heap' = [Grown(RefAll(heap, Content(b)), a, Len(Content(b)))
                   EXCEPT ![a].content = @ \o Content(b)]
    /\ NoCall /\ UNCHANGED <<owned, lost, todo>>

\* json_object_update, json_object_update_existing, json_object_update_missing.
BeginUpdate(op, to, from) ==
    /\ owned[to] > 0 /\ owned[from] > 0
    /\ KindOf(to) = "object" /\ KindOf(from) = "object"
    /\ loop' = [op |-> op, to |-> to, from |-> from, rest |-> DOMAIN Content(from)]
    /\ copied' = None /\ UNCHANGED <<heap, owned, lost, todo, frames, whole>>

\* json_copy of an object or an array; of a scalar, which json_deep_copy shares.
BeginCopy(from, n) ==
    /\ owned[from] > 0 /\ Roomy(from)
    /\ heap' = [heap EXCEPT ![n] = NewNode(KindOf(from), heap[from].text)]
    /\ owned' = Own(n, 1)
    /\ loop' = [op |-> "copy", to |-> n, from |-> from, rest |-> DOMAIN Content(from)]
    /\ copied' = None /\ UNCHANGED <<lost, todo, frames, whole>>

\* A member of an array has its turn after those before it.
IsNext(i, rest, c) == i \in rest /\ (KindOf(c) = "array" => \A j \in rest : i <= j)

\* The loop passes over i, or ends with it.
Continue(i) == loop' = [loop EXCEPT !.rest = @ \ {i}]
Stop(i) == IF loop.op = "update" THEN loop' = None ELSE Continue(i)

\* A member the loop sets; only json_object_update minds when it fails.
LoopStep ==
    /\ todo = <<>> /\ loop # None
    /\ \E i \in loop.rest :
          LET v == Content(loop.from)[i]
              skipped == \/ loop.op = "existing" /\ i \notin DOMAIN Content(loop.to)
                         \/ loop.op = "missing" /\ i \in DOMAIN Content(loop.to)
          IN  /\ IsNext(i, loop.rest, loop.from)
              /\ \/ /\ skipped
                    /\ Continue(i) /\ UNCHANGED <<heap, todo>>
                 \/ /\ ~skipped
                    /\ loop.to = v \/ PutMayFail(loop.to, i)
                    /\ Stop(i) /\ UNCHANGED <<heap, todo>>
                 \/ /\ ~skipped /\ loop.to # v
                    /\ heap' = Put(Ref(heap, v, 1), loop.to, i, v)
                    /\ todo' = Replaced(loop.to, i)
                    /\ Continue(i)
    /\ UNCHANGED <<owned, lost, frames, whole, copied>>

LoopEnd ==
    /\ todo = <<>> /\ loop # None /\ loop.rest = {}
    /\ loop' = None
    /\ UNCHANGED <<heap, owned, lost, todo, frames, whole, copied>>

-----------------------------------------------------------------------------
(* json_deep_copy.                                                          *)

\* Mutant: the loop begins with the second member.
FrameFromSecond(from, to, at) ==
    [from |-> from, to |-> to, at |-> at, rest |-> DOMAIN Content(from) \ {1}]

Frame(from, to, at) ==
    [from |-> from, to |-> to, at |-> at, rest |-> DOMAIN Content(from)]

BeginDeepCopy(from, n) ==
    /\ owned[from] > 0 /\ from \in Containers
    /\ heap' = [heap EXCEPT ![n] = NewNode(KindOf(from), None)]
    /\ owned' = Own(n, 1)
    /\ frames' = <<Frame(from, n, None)>> /\ whole' = TRUE
    /\ copied' = None /\ UNCHANGED <<lost, todo, loop>>

\* The next member of the innermost container.  A failure is passed over: a
\* null copy is refused by the call that is to set it.
DeepCopyMember ==
    /\ todo = <<>> /\ frames # <<>>
    /\ LET f == Last(frames)
       IN  \E i \in f.rest :
              LET v == Content(f.from)[i]
                  rest == Append(Front(frames), [f EXCEPT !.rest = @ \ {i}])
              IN  /\ IsNext(i, f.rest, f.from)
                  /\ \/ /\ v # true \/ PutMayFail(f.to, i)
                        /\ frames' = rest /\ whole' = FALSE
                        /\ UNCHANGED <<heap, owned>>
                     \/ /\ v = true
                        /\ heap' = Put(heap, f.to, i, true)
                        /\ frames' = rest /\ UNCHANGED <<owned, whole>>
                     \/ \E n \in Free :
                          /\ KindOf(v) = "scalar"
                          /\ heap' = Put([heap EXCEPT ![n] = NewNode("scalar", heap[v].text)],
                                         f.to, i, n)
                          /\ frames' = rest /\ UNCHANGED <<owned, whole>>
                     \/ \E n \in Free :
                          /\ v \in Containers
                          /\ heap' = [heap EXCEPT ![n] = NewNode(KindOf(v), None)]
                          /\ owned' = Own(n, 1)
                          /\ frames' = Append(rest, Frame(v, n, i))
                          /\ UNCHANGED whole
    /\ UNCHANGED <<lost, todo, loop, copied>>

\* The innermost call returns, and what it has copied is set.
DeepCopyReturn ==
    /\ todo = <<>> /\ frames # <<>>
    /\ LET f == Last(frames)
           outer == Front(frames)
           c == Last(outer).to
       IN  /\ f.rest = {}
           /\ frames' = outer
           /\ \/ /\ outer = <<>>
                 /\ copied' = [from |-> f.from, to |-> f.to]
                 /\ UNCHANGED <<heap, owned, todo, whole>>
              \/ /\ outer # <<>>
                 /\ owned' = Own(f.to, -1)
                 /\ heap' = Put(heap, c, f.at, f.to)
                 /\ UNCHANGED <<todo, whole, copied>>
              \/ /\ outer # <<>> /\ PutMayFail(c, f.at)
                 /\ owned' = Own(f.to, -1)
                 /\ todo' = <<f.to>> /\ whole' = FALSE
                 /\ UNCHANGED <<heap, copied>>
    /\ UNCHANGED <<lost, loop>>

\* A call that may add to the heap.
Call ==
    /\ Idle /\ Weight <= MaxWeight
    /\ \/ \E n \in Free, kind \in {"object", "array"} : New(n, kind, None)
       \/ \E n \in Free, t \in Text : New(n, "scalar", t)
       \/ \E n \in Node, t \in Text : ScalarSet(n, t)
       \/ \E c \in Node, v \in Held, taken \in BOOLEAN :
             \/ \E k \in Key \cup {BadKey} : ObjectSetNew(c, k, v, taken)
             \/ \E k \in Key : IterSetNew(c, k, v, taken)
             \/ ArrayAppendNew(c, v, taken)
             \/ \E i \in 1 .. Cardinality(DOMAIN Content(c)) + 1 :
                   ArraySetNew(c, i, v, taken) \/ ArrayInsertNew(c, i, v, taken)
       \/ \E c \in Node : \E i \in DOMAIN Content(c) : Take(c, i)
       \/ \E a, b \in Node :
             \/ ArrayExtend(a, b)
             \/ \E op \in {"update", "existing", "missing"} : BeginUpdate(op, a, b)
       \/ \E a \in Node, b \in Free : BeginCopy(a, b) \/ BeginDeepCopy(a, b)

Next ==
    \/ Decref
    \/ LoopStep \/ LoopEnd
    \/ DeepCopyMember \/ DeepCopyReturn
    \/ Call
    \/ /\ Idle
       /\ \/ \E n \in Node : Drop(n) \/ Clear(n)
          \/ \E c \in Node : \E i \in DOMAIN Content(c) : RemoveMember(c, i)

Spec == Init /\ [][Next]_vars

-----------------------------------------------------------------------------
(* What the counts promise.                                                 *)

\* The places of s, and of all members of the values of h, that refer to n.
In(s, n) == {i \in DOMAIN s : s[i] = n}
Places(h, n) == UNION {{c} \X In(h[c].content, n) : c \in Node}

References(n) ==
    owned[n] + lost[n] + Cardinality(In(todo, n)) + Cardinality(Places(heap, n))

\* At every step of every call, a failed one, a refused one and one that is
\* given the same value twice included, a value's count is the number of the
\* references to it, and the value is freed with the last of them and not
\* before: no container and no caller is left with a freed value.
CountsAreExact ==
    \A n \in Node :
        /\ heap[n].refcount = References(n)
        /\ n \in Free <=> heap[n].refcount = 0

\* The values that can be reached from those in S: the members of every set
\* that holds S and, with a value, the members of it.
Closed(C) == \A n \in C \ {true} : Members(n) \subseteq C
Reachable(S) ==
    LET closed == {C \in SUBSET Value : S \subseteq C /\ Closed(C)}
    IN  {v \in Value : \A C \in closed : v \in C}

\* Between calls a value nobody can reach any more takes up memory only when
\* it is in a cycle of containers, which counting cannot release, or hangs on
\* one, or when json_object_iter_set had no iterator and dropped a reference.
OnlyCyclesLeak ==
    Idle => LET cyclic == {n \in Live : n \in Reachable(Members(n))}
            IN  Live \subseteq Reachable({n \in Node : owned[n] + lost[n] > 0} \cup cyclic)

-----------------------------------------------------------------------------
(* What a deep copy promises.                                               *)

\* json_equal.
Equal(v, w) ==
    LET Alike[d \in 0 .. Cardinality(Node)] ==
            LET Deeper == Alike[d - 1]
            IN  {p \in Value \X Value :
                    \/ p[1] = p[2]
                    \/ /\ true \notin {p[1], p[2]} /\ KindOf(p[1]) = KindOf(p[2])
                       /\ heap[p[1]].text = heap[p[2]].text
                       /\ DOMAIN Content(p[1]) = DOMAIN Content(p[2])
                       /\ d > 0 => \A i \in DOMAIN Content(p[1]) :
                                      <<Content(p[1])[i], Content(p[2])[i]>> \in Deeper}
    IN  <<v, w>> \in Alike[Cardinality(Node)]

\* A deep copy that found memory for every member equals its original; in any
\* case the two share nothing that a call could change in both, and the copy
\* is the program's alone.
DeepCopiesAreEqualAndApart ==
    copied # None =>
        /\ whole => Equal(copied.from, copied.to)
        /\ Reachable({copied.from}) \cap Reachable({copied.to}) \subseteq {true}
        /\ \A n \in Reachable({copied.to}) \ {true} : heap[n].refcount = 1
=============================================================================
