------------------------------ MODULE JsonSeed ------------------------------
(***************************************************************************)
(* The seed of jansson's hash tables: one process-wide word, zero until    *)
(* the first JSON object is made, which every thread that calls the SDK    *)
(* makes (its header object is one).  A key is stored under the hash that  *)
(* the seed of that moment gives it, and looked for under the hash that    *)
(* the seed of the later moment gives it.                                  *)
(*                                                                         *)
(* hashtable_seed.c holds four ways to set the seed and the build chooses  *)
(* one.  The objects themselves are never shared: each thread has its own. *)
(***************************************************************************)
EXTENDS Naturals

CONSTANTS
    Thread,  \* the threads of the program
    Key,     \* the keys the objects are given
    Seed,    \* what generate_seed may return
    Variants \* the variants of json_object_seed a build may choose

ASSUME SeedAssumption ==
    /\ Seed \subseteq Nat \ {0}
    /\ Variants \subseteq {"atomic", "windows", "sync", "fallback"}

VARIABLES
    variant,           \* the variant this build has chosen
    hashtable_seed,    \* the seed, 0 before it is set
    seed_initialized,  \* has a thread claimed the seeding
    pc,                \* where each thread is in json_object
    new_seed,          \* the local "new_seed"
    object             \* the pairs of each thread's object: key and seed hashed with

seedVars == <<variant, hashtable_seed, seed_initialized, pc, new_seed, object>>

\* "atomic" and "windows" let one thread claim the seeding before it generates
\* a seed (__atomic_test_and_set, InterlockedIncrement).
Claims == variant \in {"atomic", "windows"}

Pair == [key : Key, seed : Seed \cup {0}]

SeedTypeOK ==
    /\ variant \in Variants
    /\ hashtable_seed \in Seed \cup {0}
    /\ seed_initialized \in BOOLEAN
    /\ pc \in [Thread -> {"idle", "enter", "claim", "generate", "store", "wait",
                          "init", "ready"}]
    /\ new_seed \in [Thread -> Seed \cup {0}]
    /\ object \in [Thread -> SUBSET Pair]

SeedInit ==
    /\ variant \in Variants
    /\ hashtable_seed = 0
    /\ seed_initialized = FALSE
    /\ pc = [t \in Thread |-> "idle"]
    /\ new_seed = [t \in Thread |-> 0]
    /\ object = [t \in Thread |-> {}]

Moves(t, step) == pc' = [pc EXCEPT ![t] = step]

-----------------------------------------------------------------------------
(* json_object and json_object_seed(0).                                     *)

\* json_object: allocate the object, read the seed.
JsonObject(t) ==
    /\ pc[t] = "idle"
    /\ Moves(t, IF hashtable_seed = 0 THEN "enter" ELSE "init")
    /\ UNCHANGED <<hashtable_seed, seed_initialized, new_seed, object>>

\* json_object_seed reads the seed again.
Enter(t) ==
    /\ pc[t] = "enter"
    /\ Moves(t, CASE hashtable_seed # 0              -> "init"
                 [] hashtable_seed = 0 /\ Claims    -> "claim"
                 [] hashtable_seed = 0 /\ ~Claims   -> "generate")
    /\ UNCHANGED <<hashtable_seed, seed_initialized, new_seed, object>>

ClaimUntaken(t) ==          \* mutant: the claim is tested and not made
    /\ pc[t] = "claim"
    /\ Moves(t, IF seed_initialized THEN "wait" ELSE "generate")
    /\ UNCHANGED <<hashtable_seed, seed_initialized, new_seed, object>>

\* Test and set: the first thread generates, the others wait for it.
Claim(t) ==
    /\ pc[t] = "claim"
    /\ seed_initialized' = TRUE
    /\ Moves(t, IF seed_initialized THEN "wait" ELSE "generate")
    /\ UNCHANGED <<hashtable_seed, new_seed, object>>

GenerateUnchecked(t) ==     \* mutant: a seed of zero is let through
    /\ pc[t] = "generate"
    /\ \E s \in Seed \cup {0} : new_seed' = [new_seed EXCEPT ![t] = s]
    /\ Moves(t, "store")
    /\ UNCHANGED <<hashtable_seed, seed_initialized, object>>

\* generate_seed never returns zero.
Generate(t) ==
    /\ pc[t] = "generate"
    /\ \E s \in Seed : new_seed' = [new_seed EXCEPT ![t] = s]
    /\ Moves(t, "store")
    /\ UNCHANGED <<hashtable_seed, seed_initialized, object>>

StoreUncompared(t) ==       \* mutant: the swap does not compare
    /\ pc[t] = "store"
    /\ hashtable_seed' = new_seed[t]
    /\ Moves(t, "init")
    /\ UNCHANGED <<seed_initialized, new_seed, object>>

\* __sync_bool_compare_and_swap stores where the seed is still zero; the other
\* variants store without looking.
Store(t) ==
    /\ pc[t] = "store"
    /\ \/ /\ variant = "sync" => hashtable_seed = 0
          /\ hashtable_seed' = new_seed[t]
          /\ Moves(t, "init")
       \/ /\ variant = "sync" /\ hashtable_seed # 0
          /\ Moves(t, "wait")
          /\ UNCHANGED hashtable_seed
    /\ UNCHANGED <<seed_initialized, new_seed, object>>

WaitOnce(t) ==              \* mutant: one yield is taken to be enough
    /\ pc[t] = "wait"
    /\ Moves(t, "init")
    /\ UNCHANGED <<hashtable_seed, seed_initialized, new_seed, object>>

\* Yield until the seed is set; "sync" would try its swap again.
Wait(t) ==
    /\ pc[t] = "wait"
    /\ Moves(t, CASE hashtable_seed # 0                      -> "init"
                 [] hashtable_seed = 0 /\ variant = "sync"  -> "store"
                 [] hashtable_seed = 0 /\ variant # "sync"  -> "wait")
    /\ UNCHANGED <<hashtable_seed, seed_initialized, new_seed, object>>

\* hashtable_init, which may lack the memory for its buckets: json_object then
\* returns NULL.
InitTable(t) ==
    /\ pc[t] = "init"
    /\ \/ Moves(t, "ready")
       \/ Moves(t, "idle")
    /\ UNCHANGED <<hashtable_seed, seed_initialized, new_seed, object>>

-----------------------------------------------------------------------------
(* The operations on an object.                                             *)

\* hashtable_find_pair: the pair of this key hashed with the seed of now.  Two
\* seeds are taken to give a key two hashes.
FindPair(t, k) == [key |-> k, seed |-> hashtable_seed]
HashtableGet(t, k) == FindPair(t, k) \in object[t]

\* hashtable_set: the value of the pair found is replaced, or a pair is made.
HashtableSet(t) ==
    /\ pc[t] = "ready"
    /\ \E k \in Key : object' = [object EXCEPT ![t] = @ \cup {FindPair(t, k)}]
    /\ UNCHANGED <<hashtable_seed, seed_initialized, pc, new_seed>>

\* hashtable_del: the pair found is removed, none where none is found.
HashtableDel(t) ==
    /\ pc[t] = "ready"
    /\ \E k \in Key : object' = [object EXCEPT ![t] = @ \ {FindPair(t, k)}]
    /\ UNCHANGED <<hashtable_seed, seed_initialized, pc, new_seed>>

\* json_decref of the last reference.
JsonDelete(t) ==
    /\ pc[t] = "ready"
    /\ object' = [object EXCEPT ![t] = {}]
    /\ Moves(t, "idle")
    /\ UNCHANGED <<hashtable_seed, seed_initialized, new_seed>>

SeedStep(t) ==
    \/ Enter(t)
    \/ Claim(t)
    \/ Generate(t)
    \/ Store(t)
    \/ Wait(t)

SeedNext ==
    /\ UNCHANGED variant
    /\ \E t \in Thread :
        \/ JsonObject(t)
        \/ SeedStep(t)
        \/ InitTable(t)
        \/ HashtableSet(t)
        \/ HashtableDel(t)
        \/ JsonDelete(t)

\* Every thread inside json_object_seed is scheduled again and again.
Fairness == \A t \in Thread : WF_seedVars(SeedStep(t) /\ UNCHANGED variant)

SeedSpec == SeedInit /\ [][SeedNext]_seedVars /\ Fairness

-----------------------------------------------------------------------------
\* Whatever the threads' first objects race for, an object holds a key at most
\* once and finds every key it holds: no pair is left under the hash of a seed
\* that was overwritten since.
KeysAreFound ==
    \A t \in Thread : \A p, q \in object[t] :
        /\ HashtableGet(t, p.key)
        /\ p.key = q.key => p = q

\* No object is usable before the seed is set: the seed its keys are hashed
\* with is one another thread cannot still choose.
SeededBeforeUse ==
    \A t \in Thread : pc[t] \in {"init", "ready"} => hashtable_seed # 0

\* A thread that waits, retries or seeds leaves json_object_seed: the one that
\* claimed the seeding always sets a seed the others see.
SeedingEnds ==
    \A t \in Thread : pc[t] = "enter" ~> pc[t] = "init"

\* The seed is set once.
SeedIsFinal == [][hashtable_seed # 0 => hashtable_seed' = hashtable_seed]_seedVars

\* README.md:10-16 of the SDK, on making a thread safe program, asks no more
\* than to call kii_global_init alone and not to share instances.  The objects
\* here are not shared, and kii_global_init sets no seed.
DocUnsharedObjectsAreSafe == KeysAreFound

=============================================================================
