----------------------------- MODULE Hashtable -----------------------------
(***************************************************************************)
(* jansson/hashtable.c, the table of a JSON object.  All pairs are in one  *)
(* list; a bucket is the part of it from the bucket's first pair to its    *)
(* last.  The table doubles its buckets before a pair is set when it holds *)
(* as many pairs as buckets, and puts all pairs into a new list then.      *)
(*                                                                         *)
(* A pair is known by its key.  The doubly linked list is a sequence; its  *)
(* head, which stands for the end of the list and for "no pair", is NoKey. *)
(* One thread uses a table, so that a call may be taken in several steps.  *)
(***************************************************************************)
EXTENDS Integers, SequencesExt

CONSTANTS
    Key,           \* keys
    NoKey,         \* &hashtable->list
    Value,         \* values
    Null,          \* no value
    Hash,          \* hash_str under the seed of the process
    InitialOrder   \* the logarithm of the first number of buckets

ASSUME HashtableAssumption ==
    /\ NoKey \notin Key /\ Null \notin Value
    /\ Hash \in [Key -> Nat]
    /\ InitialOrder \in Nat

VARIABLES
    list,          \* the keys of the pairs, in the order of the list
    value,         \* the value of each pair
    size, order,   \* the members of the same names
    buckets,       \* first and last of each bucket, <<>> when they are freed
    pc,            \* "idle", or where hashtable_set is
    arg,           \* its arguments
    rest,          \* the pairs hashtable_do_rehash has still to insert
    answer,        \* what the last call returned
    iter,          \* the caller's iterator; of the keys that stayed in the
    given,         \* table since it began, those it has given, those it
    pending,       \* has not, and has it given one of them
    again          \* again

table == <<list, value, size, order, buckets>>
call == <<pc, arg, rest>>
iteration == <<iter, given, pending, again>>
vars == <<table, call, answer, iteration>>

\* hashsize; the index of the bucket of a key.
HashSize(n) == 2 ^ n
Index(k) == Hash[k] % HashSize(order)
NoPair == [first |-> NoKey, last |-> NoKey]

EmptyBuckets(n) == [i \in 0 .. HashSize(n) - 1 |-> NoPair]
NoArg == [key |-> NoKey, value |-> Null]

TypeOK ==
    /\ list \in Seq(Key) /\ rest \in Seq(Key)
    /\ value \in [Key -> Value \cup {Null}]
    /\ size \in Nat /\ order \in Nat
    /\ buckets \in {<<>>} \cup [0 .. HashSize(order) - 1 ->
                               [first : Key \cup {NoKey}, last : Key \cup {NoKey}]]
    /\ pc \in {"idle", "rehash", "set"}
    /\ arg \in [key : Key, value : Value] \cup {NoArg}
    /\ answer \in Value \cup {Null, "ok", "fail"}
    /\ iter \in Key \cup {NoKey}
    /\ given \subseteq Key /\ pending \subseteq Key /\ again \in BOOLEAN

Init ==
    /\ list = <<>> /\ rest = <<>>
    /\ value = [k \in Key |-> Null]
    /\ size = 0 /\ order = InitialOrder
    /\ buckets = EmptyBuckets(InitialOrder)
    /\ pc = "idle" /\ arg = NoArg
    /\ answer = "ok"
    /\ iter = NoKey /\ given = {} /\ pending = {} /\ again = FALSE

-----------------------------------------------------------------------------
(* Pairs, buckets and the list.                                             *)

At(k) == CHOOSE i \in DOMAIN list : list[i] = k
NextOf(k) == IF At(k) = Len(list) THEN NoKey ELSE list[At(k) + 1]
PrevOf(k) == IF At(k) = 1 THEN NoKey ELSE list[At(k) - 1]

BucketIsEmpty(b) == b = NoPair

\* Mutant: the last pair of the bucket is not compared.
ChainButLast(b) ==
    IF BucketIsEmpty(b) THEN {} ELSE {list[i] : i \in At(b.first) .. At(b.last) - 1}

\* The keys hashtable_find_pair compares in bucket b.
Chain(b) ==
    IF BucketIsEmpty(b) THEN {} ELSE {list[i] : i \in At(b.first) .. At(b.last)}
FindPair(k) == k \in Chain(buckets[Index(k)])

\* Mutant: the pair always goes to the end of the list.
InsertToBucketAtEnd(k) ==
    LET b == buckets[Index(k)]
    IN  /\ list' = Append(list, k)
        /\ buckets' = [buckets EXCEPT ![Index(k)] =
                          [first |-> IF BucketIsEmpty(b) THEN k ELSE b.first, last |-> k]]

\* insert_to_bucket: at the end of the list, or before the bucket's first pair.
InsertToBucket(k) ==
    LET b == buckets[Index(k)]
    IN  IF BucketIsEmpty(b)
        THEN /\ list' = Append(list, k)
             /\ buckets' = [buckets EXCEPT ![Index(k)] = [first |-> k, last |-> k]]
        ELSE /\ list' = InsertAt(list, At(b.first), k)
             /\ buckets' = [buckets EXCEPT ![Index(k)].first = k]

-----------------------------------------------------------------------------
(* hashtable_set.                                                           *)

Usable == pc = "idle" /\ buckets # <<>>

\* hashtable_do_rehash frees the buckets, counts them up and only then looks
\* for memory; it takes the pairs off the list one by one.  Nothing is known
\* of an iteration that goes on after it.
BeginSet(k, v) ==
    /\ Usable
    /\ \/ /\ size < HashSize(order)
          /\ pc' = "set" /\ arg' = [key |-> k, value |-> v]
          /\ UNCHANGED <<list, order, buckets, rest, answer, iteration>>
       \/ /\ size >= HashSize(order)
          /\ order' = order + 1
          /\ buckets' = EmptyBuckets(order + 1)
          /\ rest' = list /\ list' = <<>>
          /\ pc' = "rehash" /\ arg' = [key |-> k, value |-> v]
          /\ given' = {} /\ pending' = {}
          /\ UNCHANGED <<answer, iter, again>>
       \/ /\ size >= HashSize(order)
          /\ order' = order + 1
          /\ buckets' = <<>>
          /\ answer' = "fail"
          /\ UNCHANGED <<list, rest, pc, arg, iteration>>
    /\ UNCHANGED <<value, size>>

Rehash ==
    /\ pc = "rehash"
    /\ IF rest = <<>>
       THEN pc' = "set" /\ UNCHANGED <<list, buckets, rest>>
       ELSE InsertToBucket(Head(rest)) /\ rest' = Tail(rest) /\ UNCHANGED pc
    /\ UNCHANGED <<value, size, order, arg, answer, iteration>>

\* The value of the pair is replaced, or a pair is allocated and inserted.
Set ==
    /\ pc = "set" /\ pc' = "idle"
    /\ \/ /\ FindPair(arg.key)
          /\ value' = [value EXCEPT ![arg.key] = arg.value]
          /\ answer' = "ok"
          /\ UNCHANGED <<list, buckets, size>>
       \/ /\ ~FindPair(arg.key)
          /\ InsertToBucket(arg.key)
          /\ value' = [value EXCEPT ![arg.key] = arg.value]
          /\ size' = size + 1
          /\ answer' = "ok"
       \/ /\ ~FindPair(arg.key)
          /\ answer' = "fail"
          /\ UNCHANGED <<list, buckets, value, size>>
    /\ arg' = NoArg
    /\ UNCHANGED <<order, rest, iteration>>

-----------------------------------------------------------------------------
(* The other calls.                                                         *)

Get(k) ==
    /\ Usable
    /\ answer' = IF FindPair(k) THEN value[k] ELSE Null
    /\ UNCHANGED <<table, call, iteration>>

\* What hashtable_do_del makes of the bucket of k.
BucketWithout(k) ==
    LET b == buckets[Index(k)]
    IN  CASE b.first = k /\ b.last = k -> NoPair
          [] b.first = k /\ b.last # k -> [b EXCEPT !.first = NextOf(k)]
          [] b.first # k /\ b.last = k -> [b EXCEPT !.last = PrevOf(k)]
          [] OTHER                     -> b

NoIteration == iter' = NoKey /\ given' = {} /\ pending' = {} /\ again' = FALSE

\* A caller that deletes the pair it is at has to give up the iteration.
Del(k) ==
    /\ Usable
    /\ IF FindPair(k)
       THEN /\ buckets' = [buckets EXCEPT ![Index(k)] = BucketWithout(k)]
            /\ list' = RemoveAt(list, At(k))
            /\ value' = [value EXCEPT ![k] = Null]
            /\ size' = size - 1
            /\ answer' = "ok"
            /\ IF iter = k THEN NoIteration
               ELSE /\ given' = given \ {k} /\ pending' = pending \ {k}
                    /\ UNCHANGED <<iter, again>>
       ELSE /\ answer' = "fail"
            /\ UNCHANGED <<list, buckets, value, size, iteration>>
    /\ UNCHANGED <<order, call>>

\* hashtable_clear: the number of buckets stays.
Clear ==
    /\ Usable
    /\ list' = <<>>
    /\ value' = [k \in Key |-> Null]
    /\ size' = 0
    /\ buckets' = EmptyBuckets(order)
    /\ answer' = "ok"
    /\ NoIteration
    /\ UNCHANGED <<order, call>>

\* hashtable_close, the only call a table without buckets survives, and the
\* hashtable_init of the next object.
CloseAndInit ==
    /\ pc = "idle"
    /\ list' = <<>>
    /\ value' = [k \in Key |-> Null]
    /\ size' = 0
    /\ order' = InitialOrder /\ buckets' = EmptyBuckets(InitialOrder)
    /\ answer' = "ok"
    /\ NoIteration
    /\ UNCHANGED call

-----------------------------------------------------------------------------
(* Iteration.                                                               *)

Iter ==
    /\ pc = "idle"
    /\ iter' = IF list = <<>> THEN NoKey ELSE Head(list)
    /\ given' = {iter'} \ {NoKey}
    /\ pending' = ToSet(list) \ given'
    /\ again' = FALSE
    /\ UNCHANGED <<table, call, answer>>

IterAt(k) ==
    /\ Usable
    /\ iter' = IF FindPair(k) THEN k ELSE NoKey
    /\ given' = {} /\ pending' = {} /\ again' = FALSE
    /\ UNCHANGED <<table, call, answer>>

\* Mutant: the iterator comes to the end one pair early.
IterNextStopping ==
    /\ pc = "idle" /\ iter # NoKey
    /\ iter' = IF At(iter) >= Len(list) - 1 THEN NoKey ELSE NextOf(iter)
    /\ given' = IF iter' = NoKey THEN {} ELSE given \cup (pending \cap {iter'})
    /\ pending' = pending \ {iter'}
    /\ again' = (iter' \in given)
    /\ UNCHANGED <<table, call, answer>>

IterNext ==
    /\ pc = "idle" /\ iter # NoKey
    /\ iter' = NextOf(iter)
    /\ given' = IF iter' = NoKey THEN {} ELSE given \cup (pending \cap {iter'})
    /\ pending' = pending \ {iter'}
    /\ again' = (iter' \in given)
    /\ UNCHANGED <<table, call, answer>>

IterSet(v) ==
    /\ pc = "idle" /\ iter # NoKey
    /\ value' = [value EXCEPT ![iter] = v]
    /\ UNCHANGED <<list, size, order, buckets, call, answer, iteration>>

Next ==
    \/ \E k \in Key, v \in Value : BeginSet(k, v)
    \/ Rehash
    \/ Set
    \/ \E k \in Key : Get(k) \/ Del(k) \/ IterAt(k)
    \/ Clear
    \/ CloseAndInit
    \/ Iter
    \/ IterNext
    \/ \E v \in Value : IterSet(v)

Spec == Init /\ [][Next]_vars

-----------------------------------------------------------------------------
\* Between calls every pair is in the list once and, unless a rehash failed, in
\* the chain of its own bucket and of no other, whatever was inserted at the
\* front of a bucket, deleted at its ends or moved to larger tables; the size
\* the next rehash is decided by is the number of pairs.
BucketsPartitionTheList ==
    pc = "idle" =>
        /\ IsInjective(list) /\ size = Len(list)
        /\ buckets # <<>> =>
              \A i \in DOMAIN buckets :
                  Chain(buckets[i]) = {k \in ToSet(list) : Index(k) = i}

\* A caller that iterates while it sets, replaces and deletes other pairs is
\* given every pair that stayed in the table, and none of them twice -- unless
\* setting a pair, be it one that is there already, has made the table grow.
IterationIsComplete ==
    /\ iter = NoKey => pending = {}
    /\ ~again

-----------------------------------------------------------------------------
(* The table is a map.                                                      *)

Pairs == ToSet(list) \cup ToSet(rest)

Map == INSTANCE KeyMap WITH
    map    <- [k \in Pairs |-> value[k]],
    usable <- buckets # <<>>

ImplementsKeyMap == Map!Spec
=============================================================================
