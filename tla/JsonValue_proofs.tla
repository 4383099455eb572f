-------------------------- MODULE JsonValue_proofs --------------------------
(***************************************************************************)
(* The reference counts of the values are proved exact, and nothing but a  *)
(* cycle or a reference that was lost keeps a value that the program can   *)
(* no longer reach: CountsAreExact and OnlyCyclesLeak, for any values, any *)
(* keys and any sequence of calls.                                         *)
(*                                                                         *)
(* A count is compared with the places that refer to the value: handles of *)
(* the program, references lost, references about to be given back and     *)
(* members of containers.  The first part says what each change of a       *)
(* sequence or of an object does to such a count, the second carries that  *)
(* over to the places of the heap, and then every action turns out to move *)
(* references without making or losing one (Balances, HandedCounts).  For  *)
(* that the actions must meet what they expect: that what a loop or a deep *)
(* copy writes to is allocated, and for the copies that nobody but the     *)
(* call refers to them (LoopInv, FramesInv).                               *)
(*                                                                         *)
(* For leaks, let X be the allocated values that neither the program nor a *)
(* cycle nor a lost reference leads to.  As its count is not 0, a value of *)
(* X is a member of another (HasParent), which is in X too and reaches more*)
(* than its member does, for a value that reaches itself is on a cycle.  Of*)
(* finitely many values one reaches the most (Maximal), so X is empty.     *)
(*                                                                         *)
(* A deep copy is equal to what it copied and apart from it                *)
(* (DeepCopiesAreEqualAndApart) because, until it is returned, the values  *)
(* it made refer to each other only, each is referred to once and none of  *)
(* them is its original (Made); and, while no call has failed, each of     *)
(* them mirrors the original it was made of, but for the members that the  *)
(* calls under way have still to fill in (Mirrors, InTurn).  What the last *)
(* call returns mirrors its original throughout, and values that mirror    *)
(* each other are equal to any depth (MirrorsAreEqual).                    *)
(***************************************************************************)
EXTENDS JsonValue, FunctionTheorems, FiniteSetTheorems, SequenceTheorems,
        WellFoundedInduction, TLAPS

-----------------------------------------------------------------------------
(* Counting the places of a function that hold a value.                    *)

Count(s, n) == Cardinality(In(s, n))
One(v, n) == IF v = n THEN 1 ELSE 0

\* A finite function has finitely many places.
LEMMA CountType ==
    ASSUME NEW s, NEW n, IsFiniteSet(DOMAIN s)
    PROVE  IsFiniteSet(In(s, n)) /\ Count(s, n) \in Nat
  <1>1. In(s, n) \in SUBSET DOMAIN s
    BY DEF In
  <1>2. IsFiniteSet(In(s, n))
    BY <1>1, FS_Subset
  <1>3. QED BY <1>2, FS_CardinalityType DEF Count

\* m moves the domain of f to the places D of g, which hold the same values.
Embeds(m, f, g, D) ==
    /\ m \in [DOMAIN f -> D]
    /\ \A x, y \in DOMAIN f : m[x] = m[y] => x = y
    /\ \A y \in D : \E x \in DOMAIN f : m[x] = y
    /\ \A x \in DOMAIN f : g[m[x]] = f[x]

\* A function whose domain is that of f, moved, but for one place i more.
LEMMA CountOneMore ==
    ASSUME NEW f, NEW g, NEW n, NEW i \in DOMAIN g, IsFiniteSet(DOMAIN f),
           NEW m, Embeds(m, f, g, DOMAIN g \ {i})
    PROVE  Count(g, n) = Count(f, n) + One(g[i], n)
  <1> DEFINE b == [x \in In(f, n) |-> m[x]]
             T == In(g, n) \ {i}
  <1>1. b \in [In(f, n) -> T]
    BY DEF In, Embeds
  <1>2. \A x, y \in In(f, n) : b[x] = b[y] => x = y
    BY DEF In, Embeds
  <1>3. \A y \in T : \E x \in In(f, n) : b[x] = y
    BY DEF In, Embeds
  <1> HIDE DEF b
  <1>4. ExistsBijection(In(f, n), T)
    BY <1>1, <1>2, <1>3, Fun_IsBij, Fun_ExistsBij
  <1>5. IsFiniteSet(In(f, n)) /\ Count(f, n) \in Nat
    BY CountType
  <1>6. IsFiniteSet(T) /\ Cardinality(T) = Count(f, n)
    BY <1>4, <1>5, FS_Bijection DEF Count
  <1>7. CASE g[i] = n
    <2>1. In(g, n) = T \cup {i} /\ i \notin T
      BY <1>7 DEF In
    <2>2. Cardinality(In(g, n)) = Cardinality(T) + 1
      BY <1>6, <2>1, FS_AddElement
    <2>3. QED BY <1>6, <1>7, <2>2 DEF Count, One
  <1>8. CASE g[i] # n
    <2>1. In(g, n) = T
      BY <1>8 DEF In
    <2>2. Count(g, n) = Count(f, n)
      BY <1>6, <2>1, Zenon DEF Count
    <2>3. One(g[i], n) = 0
      BY <1>8 DEF One
    <2>4. QED BY <1>5, <2>2, <2>3
  <1>9. QED BY <1>7, <1>8

\* A function whose domain is that of f, moved.
LEMMA CountMoved ==
    ASSUME NEW f, NEW g, NEW n, IsFiniteSet(DOMAIN f),
           NEW m, Embeds(m, f, g, DOMAIN g)
    PROVE  Count(g, n) = Count(f, n)
  <1> DEFINE b == [x \in In(f, n) |-> m[x]]
  <1>1. b \in [In(f, n) -> In(g, n)]
    BY DEF In, Embeds
  <1>2. \A x, y \in In(f, n) : b[x] = b[y] => x = y
    BY DEF In, Embeds
  <1>3. \A y \in In(g, n) : \E x \in In(f, n) : b[x] = y
    BY DEF In, Embeds
  <1> HIDE DEF b
  <1>4. ExistsBijection(In(f, n), In(g, n))
    BY <1>1, <1>2, <1>3, Fun_IsBij, Fun_ExistsBij
  <1>5. QED BY <1>4, CountType, FS_Bijection DEF Count

\* The domain of a sequence is finite.
LEMMA SeqFinite ==
    ASSUME NEW S, NEW s \in Seq(S)
    PROVE  IsFiniteSet(DOMAIN s) /\ DOMAIN s = 1 .. Len(s)
  BY LenProperties, FS_Interval

\* The empty sequence holds nothing.
LEMMA CountEmpty == \A n : Count(<<>>, n) = 0
  <1>1. \A n : In(<<>>, n) = {}
    BY DEF In
  <1>2. QED BY <1>1, FS_EmptySet DEF Count

\* A sequence of one element holds that one.
LEMMA CountSingle == \A v, n : Count(<<v>>, n) = One(v, n)
  <1> TAKE v, n
  <1>1. CASE v = n
    <2>1. In(<<v>>, n) = {1}
      BY <1>1 DEF In
    <2>2. QED BY <1>1, <2>1, FS_Singleton DEF Count, One
  <1>2. CASE v # n
    <2>1. In(<<v>>, n) = {}
      BY <1>2 DEF In
    <2>2. QED BY <1>2, <2>1, FS_EmptySet DEF Count, One
  <1>3. QED BY <1>1, <1>2

\* The first element of a sequence counts apart from the others.
LEMMA CountTail ==
    ASSUME NEW S, NEW s \in Seq(S), s # <<>>, NEW n
    PROVE  Count(s, n) = Count(Tail(s), n) + One(Head(s), n)
  <1>1. PICK k \in Nat : Len(s) = k + 1 /\ DOMAIN s = 1 .. k + 1
    <2>1. Len(s) \in Nat /\ Len(s) # 0
      BY EmptySeq, LenProperties
    <2>2. Len(s) - 1 \in Nat /\ Len(s) = (Len(s) - 1) + 1
      BY <2>1
    <2>3. QED BY <2>2, SeqFinite
  <1>2. DOMAIN Tail(s) = 1 .. k /\ \A i \in 1 .. k : Tail(s)[i] = s[i + 1]
    BY <1>1, HeadTailProperties, LenProperties
  <1>3. Head(s) = s[1]
    OBVIOUS
  <1>4. PICK g : g = s
    OBVIOUS
  <1>5. PICK f : f = Tail(s)
    OBVIOUS
  <1>6. PICK m : m = [x \in 1 .. k |-> x + 1]
    OBVIOUS
  <1>0. PICK j : j = 1
    OBVIOUS
  <1>7. j \in DOMAIN g /\ DOMAIN f = 1 .. k /\ IsFiniteSet(DOMAIN f)
    BY <1>0, <1>1, <1>2, <1>4, <1>5, FS_Interval
  <1>8. /\ m \in [DOMAIN f -> DOMAIN g \ {j}]
        /\ \A x, y \in DOMAIN f : m[x] = m[y] => x = y
        /\ \A x \in DOMAIN f : g[m[x]] = f[x]
    BY <1>1, <1>2, <1>4, <1>5, <1>6, <1>7, <1>0
  <1>9. \A y \in DOMAIN g \ {j} : \E x \in DOMAIN f : m[x] = y
    <2>1. ASSUME NEW y \in DOMAIN g \ {j} PROVE y - 1 \in DOMAIN f /\ m[y - 1] = y
      BY <1>0, <1>1, <1>4, <1>6, <1>7
    <2>2. QED BY <2>1
  <1>e. Embeds(m, f, g, DOMAIN g \ {j})
    BY <1>8, <1>9 DEF Embeds
  <1>10. Count(g, n) = Count(f, n) + One(g[j], n)
    BY <1>7, <1>e, CountOneMore
  <1>11. QED BY <1>0, <1>3, <1>4, <1>5, <1>10

\* An element that is appended counts once more.
LEMMA CountAppend ==
    ASSUME NEW S, NEW s \in Seq(S), NEW v \in S, NEW n
    PROVE  Count(Append(s, v), n) = Count(s, n) + One(v, n)
  <1>1. PICK k \in Nat : Len(s) = k
    BY LenProperties
  <1>2. PICK g : g = Append(s, v)
    OBVIOUS
  <1>3. DOMAIN s = 1 .. k /\ IsFiniteSet(DOMAIN s)
    BY <1>1, SeqFinite
  <1>4. /\ DOMAIN g = 1 .. k + 1
        /\ \A i \in 1 .. k : g[i] = s[i]
        /\ g[k + 1] = v
    BY <1>1, <1>2
  <1>5. PICK j : j = k + 1
    OBVIOUS
  <1>6. PICK m : m = [x \in 1 .. k |-> x]
    OBVIOUS
  <1>7. /\ j \in DOMAIN g
        /\ m \in [DOMAIN s -> DOMAIN g \ {j}]
        /\ \A x, y \in DOMAIN s : m[x] = m[y] => x = y
        /\ \A y \in DOMAIN g \ {j} : \E x \in DOMAIN s : m[x] = y
        /\ \A x \in DOMAIN s : g[m[x]] = s[x]
    BY <1>3, <1>4, <1>5, <1>6
  <1>e. Embeds(m, s, g, DOMAIN g \ {j})
    BY <1>7 DEF Embeds
  <1>8. Count(g, n) = Count(s, n) + One(g[j], n)
    BY <1>3, <1>7, <1>e, CountOneMore
  <1>9. QED BY <1>2, <1>4, <1>5, <1>8

\* The counts of two sequences add up when they are joined.
LEMMA CountConcat ==
    ASSUME NEW S, NEW s \in Seq(S), NEW t \in Seq(S), NEW n
    PROVE  Count(s \o t, n) = Count(s, n) + Count(t, n)
  <1>1. PICK k \in Nat : Len(s) = k /\ DOMAIN s = 1 .. k
    BY LenProperties
  <1>2. PICK l \in Nat : Len(t) = l /\ DOMAIN t = 1 .. l
    BY LenProperties
  <1>3. PICK g : g = s \o t
    OBVIOUS
  <1>4. /\ DOMAIN g = 1 .. k + l
        /\ \A i \in 1 .. k : g[i] = s[i]
        /\ \A i \in 1 .. l : g[k + i] = t[i]
    <2>1. Len(g) = k + l /\ g \in Seq(S)
      BY <1>1, <1>2, <1>3, ConcatProperties
    <2>2. \A i \in 1 .. k + l : g[i] = IF i <= k THEN s[i] ELSE t[i - k]
      BY <1>1, <1>2, <1>3, ConcatProperties
    <2>3. ASSUME NEW i \in 1 .. l PROVE g[k + i] = t[i]
      <3>1. k + i \in 1 .. k + l /\ ~(k + i <= k) /\ (k + i) - k = i
        OBVIOUS
      <3>2. QED BY <2>2, <3>1
    <2>4. QED BY <2>1, <2>2, <2>3, LenProperties
  <1> DEFINE A == In(s, n)
             B == {k + i : i \in In(t, n)}
             b == [i \in In(t, n) |-> k + i]
  <1>5. In(g, n) = A \cup B
    <2>1. ASSUME NEW x \in In(g, n) PROVE x \in A \cup B
      <3>1. x \in 1 .. k + l /\ g[x] = n
        BY <1>4 DEF In
      <3>2. CASE x \in 1 .. k
        BY <1>1, <1>4, <3>1, <3>2 DEF In
      <3>3. CASE x \notin 1 .. k
        <4>1. PICK i \in 1 .. l : x = k + i
          <5>1. x - k \in 1 .. l /\ x = k + (x - k)
            BY <3>1, <3>3
          <5>2. QED BY <5>1
        <4>2. i \in In(t, n)
          BY <1>2, <1>4, <3>1, <4>1 DEF In
        <4>3. QED BY <4>1, <4>2
      <3>4. QED BY <3>2, <3>3
    <2>2. ASSUME NEW x \in A PROVE x \in In(g, n)
      BY <1>1, <1>4 DEF In
    <2>3. ASSUME NEW x \in B PROVE x \in In(g, n)
      BY <1>2, <1>4 DEF In
    <2>4. QED BY <2>1, <2>2, <2>3
  <1>6. A \cap B = {}
    BY <1>1, <1>2 DEF In
  <1>7. b \in [In(t, n) -> B] /\ \A y \in B : \E x \in In(t, n) : b[x] = y
    OBVIOUS
  <1>8. \A x, y \in In(t, n) : b[x] = b[y] => x = y
    BY <1>2 DEF In
  <1>9. ExistsBijection(In(t, n), B)
    <2> HIDE DEF b, B
    <2>1. QED BY <1>7, <1>8, Fun_IsBij, Fun_ExistsBij
  <1>10. IsFiniteSet(A) /\ IsFiniteSet(In(t, n)) /\ Cardinality(A) \in Nat
    BY SeqFinite, CountType DEF Count
  <1>11. IsFiniteSet(B) /\ Cardinality(B) = Count(t, n)
    BY <1>9, <1>10, FS_Bijection DEF Count
  <1>12. Cardinality(B) \in Nat
    BY <1>11, FS_CardinalityType
  <1> HIDE DEF A, B
  <1>13. Cardinality(A \cup B) = Cardinality(A) + Cardinality(B)
    <2>1. Cardinality(A \cup B) = Cardinality(A) + Cardinality(B) - Cardinality(A \cap B)
      BY <1>10, <1>11, FS_Union
    <2>2. Cardinality(A \cap B) = 0
      BY <1>6, FS_EmptySet
    <2>3. QED BY <1>10, <1>12, <2>1, <2>2
  <1>14. Cardinality(A) = Count(s, n)
    BY DEF A, Count
  <1>15. Count(g, n) = Cardinality(A \cup B)
    BY <1>5 DEF Count
  <1>16. QED BY <1>3, <1>11, <1>13, <1>14, <1>15

\* g is s with v before its i-th place, or at the end.
IsInserted(s, i, v, g) ==
    /\ Len(g) = Len(s) + 1
    /\ \A j \in 1 .. i - 1 : g[j] = s[j]
    /\ g[i] = v
    /\ \A j \in i + 1 .. Len(s) + 1 : g[j] = s[j - 1]

\* InsertAt moves what follows by one, as array_copy does before an insertion.
LEMMA InsertType ==
    ASSUME NEW S, NEW s \in Seq(S), NEW v \in S, NEW i \in 1 .. Len(s) + 1
    PROVE  InsertAt(s, i, v) \in Seq(S) /\ IsInserted(s, i, v, InsertAt(s, i, v))
  <1>1. PICK k \in Nat : Len(s) = k /\ \A j \in 1 .. k : s[j] \in S
    BY LenProperties
  <1>2. PICK u : u = SubSeq(s, 1, i - 1)
    OBVIOUS
  <1>3. PICK w : w = SubSeq(s, i, k)
    OBVIOUS
  <1>4. /\ u \in Seq(S) /\ Len(u) = i - 1
        /\ \A j \in 1 .. i - 1 : u[j] = s[j]
    BY <1>1, <1>2, SubSeqProperties
  <1>5. /\ w \in Seq(S) /\ Len(w) = k - i + 1
        /\ \A j \in 1 .. k - i + 1 : w[j] = s[i + j - 1]
    BY <1>1, <1>3, SubSeqProperties
  <1>6. PICK x : x = u \o <<v>>
    OBVIOUS
  <1>7. /\ x \in Seq(S) /\ Len(x) = i
        /\ \A j \in 1 .. i - 1 : x[j] = s[j]
        /\ x[i] = v
    BY <1>1, <1>4, <1>6
  <1>8. PICK y : y = x \o w
    OBVIOUS
  <1>9. /\ y \in Seq(S) /\ Len(y) = k + 1
        /\ \A j \in 1 .. k + 1 : y[j] = IF j <= i THEN x[j] ELSE w[j - i]
    <2>1. i + (k - i + 1) = k + 1
      BY <1>1
    <2>2. /\ y \in Seq(S) /\ Len(y) = Len(x) + Len(w)
          /\ \A j \in 1 .. Len(x) + Len(w) : y[j] = IF j <= Len(x) THEN x[j] ELSE w[j - Len(x)]
      BY <1>5, <1>7, <1>8, ConcatProperties
    <2>3. Len(x) = i /\ Len(x) + Len(w) = k + 1
      BY <1>5, <1>7, <2>1
    <2>4. QED BY <2>2, <2>3
  <1>10. ASSUME NEW j \in 1 .. k + 1
         PROVE  y[j] = CASE j < i -> s[j] [] j = i -> v [] j > i -> s[j - 1]
    <2>1. CASE j < i
      BY <1>1, <1>7, <1>9, <2>1
    <2>2. CASE j = i
      BY <1>1, <1>7, <1>9, <2>2
    <2>3. CASE j > i
      <3>1. j - i \in 1 .. k - i + 1 /\ i + (j - i) - 1 = j - 1
        BY <1>1, <2>3
      <3>2. w[j - i] = s[j - 1]
        BY <1>5, <3>1
      <3>3. QED BY <1>1, <1>9, <2>3, <3>2
    <2>4. QED BY <1>1, <2>1, <2>2, <2>3
  <1>11. y = InsertAt(s, i, v)
    BY <1>1, <1>2, <1>3, <1>6, <1>8 DEF InsertAt
  <1>12. /\ \A j \in 1 .. i - 1 : y[j] = s[j]
         /\ y[i] = v
         /\ \A j \in i + 1 .. k + 1 : y[j] = s[j - 1]
    BY <1>1, <1>10
  <1>13. IsInserted(s, i, v, y)
    BY <1>1, <1>9, <1>12 DEF IsInserted
  <1>14. QED BY <1>9, <1>11, <1>13

\* An element that is inserted counts once more.
LEMMA CountInsert ==
    ASSUME NEW S, NEW s \in Seq(S), NEW v \in S, NEW i \in 1 .. Len(s) + 1, NEW n
    PROVE  Count(InsertAt(s, i, v), n) = Count(s, n) + One(v, n)
  <1>1. PICK k \in Nat : Len(s) = k /\ DOMAIN s = 1 .. k /\ IsFiniteSet(DOMAIN s)
    BY LenProperties, SeqFinite
  <1>2. PICK g : g = InsertAt(s, i, v)
    OBVIOUS
  <1>3. /\ DOMAIN g = 1 .. k + 1
        /\ \A j \in 1 .. i - 1 : g[j] = s[j]
        /\ g[i] = v
        /\ \A j \in i + 1 .. k + 1 : g[j] = s[j - 1]
    <2>1. g \in Seq(S) /\ IsInserted(s, i, v, g)
      BY <1>2, InsertType
    <2>2. QED BY <1>1, <2>1, LenProperties DEF IsInserted
  <1>4. PICK m : m = [x \in 1 .. k |-> IF x < i THEN x ELSE x + 1]
    OBVIOUS
  <1>5. i \in DOMAIN g /\ g[i] = v
    BY <1>1, <1>3
  <1>6. m \in [DOMAIN s -> DOMAIN g \ {i}]
    BY <1>1, <1>3, <1>4
  <1>7. \A x, y \in DOMAIN s : m[x] = m[y] => x = y
    BY <1>1, <1>4
  <1>8. \A x \in DOMAIN s : g[m[x]] = s[x]
    <2>1. ASSUME NEW x \in 1 .. k, x < i PROVE g[m[x]] = s[x]
      BY <1>1, <1>3, <1>4, <2>1
    <2>2. ASSUME NEW x \in 1 .. k, ~(x < i) PROVE g[m[x]] = s[x]
      <3>1. m[x] = x + 1 /\ x + 1 > i /\ x + 1 \in 1 .. k + 1 /\ (x + 1) - 1 = x
        BY <1>1, <1>4, <2>2
      <3>2. QED BY <1>3, <3>1
    <2>3. QED BY <1>1, <2>1, <2>2
  <1>9. \A y \in DOMAIN g \ {i} : \E x \in DOMAIN s : m[x] = y
    <2>1. ASSUME NEW y \in DOMAIN g \ {i}, y < i PROVE y \in DOMAIN s /\ m[y] = y
      BY <1>1, <1>3, <1>4, <2>1
    <2>2. ASSUME NEW y \in DOMAIN g \ {i}, ~(y < i)
          PROVE  y - 1 \in DOMAIN s /\ m[y - 1] = y
      BY <1>1, <1>3, <1>4, <2>2
    <2>3. QED BY <2>1, <2>2
  <1>e. Embeds(m, s, g, DOMAIN g \ {i})
    BY <1>6, <1>7, <1>8, <1>9 DEF Embeds
  <1>10. Count(g, n) = Count(s, n) + One(g[i], n)
    BY <1>1, <1>5, <1>e, CountOneMore
  <1>11. QED BY <1>2, <1>5, <1>10

\* RemoveAt moves what follows back by one, as json_array_remove does.
LEMMA RemoveType ==
    ASSUME NEW S, NEW s \in Seq(S), NEW i \in 1 .. Len(s)
    PROVE  /\ RemoveAt(s, i) \in Seq(S)
           /\ Len(RemoveAt(s, i)) = Len(s) - 1
           /\ \A j \in 1 .. Len(s) - 1 :
                RemoveAt(s, i)[j] = IF j < i THEN s[j] ELSE s[j + 1]
  <1>1. PICK k \in Nat : Len(s) = k /\ \A j \in 1 .. k : s[j] \in S
    BY LenProperties
  <1>2. PICK u : u = SubSeq(s, 1, i - 1)
    OBVIOUS
  <1>3. PICK w : w = SubSeq(s, i + 1, k)
    OBVIOUS
  <1>4. /\ u \in Seq(S) /\ Len(u) = i - 1
        /\ \A j \in 1 .. i - 1 : u[j] = s[j]
    BY <1>1, <1>2, SubSeqProperties
  <1>5. /\ w \in Seq(S) /\ Len(w) = k - i
        /\ \A j \in 1 .. k - i : w[j] = s[i + j]
    <2>1. \A j \in i + 1 .. k : s[j] \in S
      BY <1>1
    <2>2. PICK m \in Int : m = i + 1
      OBVIOUS
    <2>3. /\ SubSeq(s, m, k) \in Seq(S)
          /\ Len(SubSeq(s, m, k)) = IF m <= k THEN k - m + 1 ELSE 0
          /\ \A j \in 1 .. k - m + 1 : SubSeq(s, m, k)[j] = s[m + j - 1]
      BY <1>1, <2>1, <2>2, SubSeqProperties, SMTT(30)
    <2>4. k - m + 1 = k - i /\ \A j \in Int : m + j - 1 = i + j
      BY <1>1, <2>2
    <2>5. w = SubSeq(s, m, k)
      BY <1>3, <2>2
    <2>6. Len(w) = k - i
      BY <1>1, <2>2, <2>3, <2>5
    <2>7. ASSUME NEW j \in 1 .. k - i PROVE w[j] = s[i + j]
      <3>1. j \in 1 .. k - m + 1 /\ m + j - 1 = i + j
        BY <1>1, <2>2
      <3>2. QED BY <2>3, <2>5, <3>1
    <2>8. QED BY <2>3, <2>5, <2>6, <2>7
  <1>6. PICK y : y = u \o w
    OBVIOUS
  <1>7. /\ y \in Seq(S) /\ Len(y) = k - 1
        /\ \A j \in 1 .. k - 1 : y[j] = IF j <= i - 1 THEN u[j] ELSE w[j - (i - 1)]
    <2>1. (i - 1) + (k - i) = k - 1
      BY <1>1
    <2>2. /\ y \in Seq(S) /\ Len(y) = Len(u) + Len(w)
          /\ \A j \in 1 .. Len(u) + Len(w) : y[j] = IF j <= Len(u) THEN u[j] ELSE w[j - Len(u)]
      BY <1>4, <1>5, <1>6, ConcatProperties
    <2>3. Len(u) = i - 1 /\ Len(u) + Len(w) = k - 1
      BY <1>4, <1>5, <2>1
    <2>4. QED BY <2>2, <2>3
  <1>8. ASSUME NEW j \in 1 .. k - 1 PROVE y[j] = IF j < i THEN s[j] ELSE s[j + 1]
    <2>1. CASE j < i
      BY <1>1, <1>4, <1>7, <2>1
    <2>2. CASE ~(j < i)
      <3>1. j - (i - 1) \in 1 .. k - i /\ i + (j - (i - 1)) = j + 1 /\ ~(j <= i - 1)
        BY <1>1, <2>2
      <3>2. QED BY <1>5, <1>7, <2>2, <3>1
    <2>3. QED BY <2>1, <2>2
  <1>9. y = RemoveAt(s, i)
    BY <1>1, <1>2, <1>3, <1>6 DEF RemoveAt
  <1>10. QED BY <1>1, <1>7, <1>8, <1>9

\* An element that is removed counts once less.
LEMMA CountRemove ==
    ASSUME NEW S, NEW s \in Seq(S), NEW i \in 1 .. Len(s), NEW n
    PROVE  Count(s, n) = Count(RemoveAt(s, i), n) + One(s[i], n)
  <1>1. PICK k \in Nat : Len(s) = k /\ DOMAIN s = 1 .. k
    BY LenProperties
  <1>2. PICK f : f = RemoveAt(s, i)
    OBVIOUS
  <1>3. /\ f \in Seq(S) /\ DOMAIN f = 1 .. k - 1
        /\ \A j \in 1 .. k - 1 : f[j] = IF j < i THEN s[j] ELSE s[j + 1]
    BY <1>1, <1>2, RemoveType, LenProperties, ZenonT(60)
  <1>4. PICK m : m = [x \in 1 .. k - 1 |-> IF x < i THEN x ELSE x + 1]
    OBVIOUS
  <1>5. i \in DOMAIN s /\ IsFiniteSet(DOMAIN f)
    BY <1>1, <1>3, SeqFinite
  <1>6. m \in [DOMAIN f -> DOMAIN s \ {i}]
    BY <1>1, <1>3, <1>4
  <1>7. \A x, y \in DOMAIN f : m[x] = m[y] => x = y
    BY <1>1, <1>3, <1>4
  <1>8. \A x \in DOMAIN f : s[m[x]] = f[x]
    BY <1>1, <1>3, <1>4
  <1>9. \A y \in DOMAIN s \ {i} : \E x \in DOMAIN f : m[x] = y
    <2>1. ASSUME NEW y \in DOMAIN s \ {i}, y < i PROVE y \in DOMAIN f /\ m[y] = y
      BY <1>1, <1>3, <1>4, <2>1
    <2>2. ASSUME NEW y \in DOMAIN s \ {i}, ~(y < i)
          PROVE  y - 1 \in DOMAIN f /\ m[y - 1] = y
      BY <1>1, <1>3, <1>4, <2>2
    <2>3. QED BY <2>1, <2>2
  <1>e. Embeds(m, f, s, DOMAIN s \ {i})
    BY <1>6, <1>7, <1>8, <1>9 DEF Embeds
  <1>10. Count(s, n) = Count(f, n) + One(s[i], n)
    BY <1>5, <1>e, CountOneMore
  <1>11. QED BY <1>2, <1>10

\* A function without the place k, and with v at it.
Without(f, k) == [j \in DOMAIN f \ {k} |-> f[j]]
With(f, k, v) == [j \in DOMAIN f \cup {k} |-> IF j = k THEN v ELSE f[j]]

\* A member that is deleted counts once less.
LEMMA CountWithout ==
    ASSUME NEW f, NEW k \in DOMAIN f, NEW n, IsFiniteSet(DOMAIN f)
    PROVE  Count(f, n) = Count(Without(f, k), n) + One(f[k], n)
  <1>1. PICK e : e = Without(f, k)
    OBVIOUS
  <1>2. DOMAIN e = DOMAIN f \ {k} /\ \A x \in DOMAIN e : e[x] = f[x]
    BY <1>1 DEF Without
  <1>3. IsFiniteSet(DOMAIN e)
    BY <1>2, FS_RemoveElement
  <1>4. PICK m : m = [x \in DOMAIN e |-> x]
    OBVIOUS
  <1>5. /\ m \in [DOMAIN e -> DOMAIN f \ {k}]
        /\ \A x, y \in DOMAIN e : m[x] = m[y] => x = y
        /\ \A y \in DOMAIN f \ {k} : \E x \in DOMAIN e : m[x] = y
        /\ \A x \in DOMAIN e : f[m[x]] = e[x]
    BY <1>2, <1>4
  <1>d. Embeds(m, e, f, DOMAIN f \ {k})
    BY <1>5 DEF Embeds
  <1>6. Count(f, n) = Count(e, n) + One(f[k], n)
    BY <1>3, <1>d, CountOneMore
  <1>7. QED BY <1>1, <1>6

\* A member that is set counts once more, and the one it replaces once less.
LEMMA CountWith ==
    ASSUME NEW f, NEW k, NEW v, NEW n, IsFiniteSet(DOMAIN f)
    PROVE  /\ k \notin DOMAIN f => Count(With(f, k, v), n) = Count(f, n) + One(v, n)
           /\ k \in DOMAIN f =>
                Count(With(f, k, v), n) = Count(f, n) - One(f[k], n) + One(v, n)
  <1>1. PICK g : g = With(f, k, v)
    OBVIOUS
  <1>2. /\ DOMAIN g = DOMAIN f \cup {k} /\ k \in DOMAIN g
        /\ g[k] = v /\ \A x \in DOMAIN f \ {k} : g[x] = f[x]
    BY <1>1 DEF With
  <1>3. IsFiniteSet(DOMAIN g)
    BY <1>2, FS_AddElement
  <1>4. Count(g, n) = Count(Without(g, k), n) + One(v, n)
    BY <1>2, <1>3, CountWithout
  <1>5. CASE k \notin DOMAIN f
    <2>1. PICK m : m = [x \in DOMAIN f |-> x]
      OBVIOUS
    <2>2. /\ m \in [DOMAIN f -> DOMAIN g \ {k}]
          /\ \A x, y \in DOMAIN f : m[x] = m[y] => x = y
          /\ \A y \in DOMAIN g \ {k} : \E x \in DOMAIN f : m[x] = y
          /\ \A x \in DOMAIN f : g[m[x]] = f[x]
      BY <1>2, <1>5, <2>1
    <2>e. Embeds(m, f, g, DOMAIN g \ {k})
      BY <2>2 DEF Embeds
    <2>3. Count(g, n) = Count(f, n) + One(g[k], n)
      BY <1>2, <2>e, CountOneMore
    <2>4. QED BY <1>1, <1>2, <1>5, <2>3
  <1>6. CASE k \in DOMAIN f
    <2>1. Without(g, k) = Without(f, k)
      BY <1>2, <1>6 DEF Without
    <2>2. Count(f, n) = Count(Without(f, k), n) + One(f[k], n)
      BY <1>6, CountWithout
    <2>3. Count(Without(f, k), n) \in Nat
      <3>1. DOMAIN Without(f, k) = DOMAIN f \ {k}
        BY DEF Without
      <3>2. QED BY <3>1, FS_RemoveElement, CountType
    <2>4. One(f[k], n) \in Int /\ One(v, n) \in Int
      BY DEF One
    <2>5. QED BY <1>1, <1>4, <1>6, <2>1, <2>2, <2>3, <2>4
  <1>7. QED BY <1>5, <1>6

\* SetToSeq lists the members of a finite set once each.
LEMMA SetToSeqBijection ==
    ASSUME NEW S, IsFiniteSet(S)
    PROVE  /\ SetToSeq(S) \in [1 .. Cardinality(S) -> S]
           /\ \A x, y \in 1 .. Cardinality(S) : SetToSeq(S)[x] = SetToSeq(S)[y] => x = y
           /\ \A v \in S : \E x \in 1 .. Cardinality(S) : SetToSeq(S)[x] = v
  <1>1. PICK f \in Bijection(1 .. Cardinality(S), S) : TRUE
    BY FS_CardinalityType DEF ExistsBijection
  <1>2. f \in [1 .. Cardinality(S) -> S] /\ IsInjective(f)
    BY <1>1 DEF Bijection, Injection, IsInjective
  <1>3. SetToSeq(S) \in [1 .. Cardinality(S) -> S] /\ IsInjective(SetToSeq(S))
    BY <1>2, Zenon DEF SetToSeq
  <1>4. PICK q : q = SetToSeq(S)
    OBVIOUS
  <1>5. PICK k \in Nat : k = Cardinality(S)
    BY FS_CardinalityType
  <1>6. q \in [1 .. k -> S] /\ \A x, y \in 1 .. k : q[x] = q[y] => x = y
    BY <1>3, <1>4, <1>5 DEF IsInjective
  <1>7. q \in Injection(1 .. k, S)
    BY <1>6 DEF Injection, IsInjective
  <1>8. Cardinality(1 .. k) = Cardinality(S)
    BY <1>5, FS_Interval
  <1>9. q \in Surjection(1 .. k, S)
    BY <1>7, <1>8, FS_Injection
  <1>10. \A v \in S : \E x \in 1 .. k : q[x] = v
    BY <1>9 DEF Surjection
  <1>11. QED BY <1>4, <1>5, <1>6, <1>10

\* The members in some order hold each value as often as the container does.
LEMMA CountMembersSeq ==
    ASSUME NEW c, NEW S, IsFiniteSet(DOMAIN Content(c)),
           \A i \in DOMAIN Content(c) : Content(c)[i] \in S
    PROVE  /\ MembersSeq(c) \in Seq(S)
           /\ \A n : Count(MembersSeq(c), n) = Count(Content(c), n)
  <1>1. PICK f : f = Content(c)
    OBVIOUS
  <1>2. PICK q : q = SetToSeq(DOMAIN f)
    OBVIOUS
  <1>3. PICK k \in Nat : k = Cardinality(DOMAIN f)
    BY <1>1, FS_CardinalityType
  <1>4. /\ q \in [1 .. k -> DOMAIN f]
        /\ \A x, y \in 1 .. k : q[x] = q[y] => x = y
        /\ \A v \in DOMAIN f : \E x \in 1 .. k : q[x] = v
    BY <1>1, <1>2, <1>3, SetToSeqBijection
  <1>5. PICK g : g = MembersSeq(c)
    OBVIOUS
  <1>6. g = [i \in 1 .. k |-> f[q[i]]]
    BY <1>1, <1>2, <1>4, <1>5 DEF MembersSeq
  <1>7. g \in Seq(S)
    BY <1>1, <1>4, <1>6
  <1>8. DOMAIN g = 1 .. k /\ IsFiniteSet(DOMAIN g)
    BY <1>6, FS_Interval
  <1>9. Embeds(q, g, f, DOMAIN f)
    BY <1>4, <1>6, <1>8 DEF Embeds
  <1>10. ASSUME NEW n PROVE Count(f, n) = Count(g, n)
    BY <1>8, <1>9, CountMoved
  <1>11. QED BY <1>1, <1>5, <1>7, <1>10

-----------------------------------------------------------------------------
(* The places of a heap that refer to a value.                              *)

\* All that is needed of the contents of a heap to count its places.
Countable(h) == \A c \in Node : IsFiniteSet(DOMAIN h[c].content)

\* The places of a heap of finite containers are pairs, and finitely many.
LEMMA PlacesType ==
    ASSUME NEW h, Countable(h), NEW n
    PROVE  /\ IsFiniteSet(Places(h, n))
           /\ Cardinality(Places(h, n)) \in Nat
           /\ \A c, i : <<c, i>> \in Places(h, n) <=>
                          c \in Node /\ i \in DOMAIN h[c].content /\ h[c].content[i] = n
           /\ \A p \in Places(h, n) : p = <<p[1], p[2]>>
  <1> DEFINE P(c) == {c} \X In(h[c].content, n)
             All == {P(c) : c \in Node}
  <1>1. IsFiniteSet(All)
    <2>1. PICK f : f = [c \in Node |-> P(c)]
      OBVIOUS
    <2>2. f \in [Node -> All] /\ \A y \in All : \E c \in Node : f[c] = y
      BY <2>1
    <2>3. f \in Surjection(Node, All)
      BY <2>2 DEF Surjection
    <2>4. QED BY <2>3, JsonValueAssumption, FS_Surjection
  <1>2. ASSUME NEW c \in Node PROVE IsFiniteSet(P(c))
    <2>1. IsFiniteSet(In(h[c].content, n))
      BY CountType DEF Countable
    <2>2. IsFiniteSet({c})
      BY FS_Singleton
    <2>3. QED BY <2>1, <2>2, FS_Product
  <1>3. IsFiniteSet(UNION All)
    BY <1>1, <1>2, FS_UNION
  <1>4. Places(h, n) = UNION All
    BY DEF Places
  <1>5. \A c, i : <<c, i>> \in Places(h, n) <=>
                    c \in Node /\ i \in DOMAIN h[c].content /\ h[c].content[i] = n
    BY DEF Places, In
  <1>6. \A p \in Places(h, n) : p = <<p[1], p[2]>>
    BY DEF Places
  <1>7. QED BY <1>3, <1>4, <1>5, <1>6, FS_CardinalityType

\* The places of one container.
LEMMA PlacesOfOne ==
    ASSUME NEW h, Countable(h), NEW n, NEW c \in Node
    PROVE  /\ IsFiniteSet({p \in Places(h, n) : p[1] # c})
           /\ Cardinality({p \in Places(h, n) : p[1] # c}) \in Nat
           /\ Count(h[c].content, n) \in Nat
           /\ Cardinality(Places(h, n)) =
                Cardinality({p \in Places(h, n) : p[1] # c}) + Count(h[c].content, n)
  <1> DEFINE A == {p \in Places(h, n) : p[1] # c}
             B == {c} \X In(h[c].content, n)
             b == [i \in In(h[c].content, n) |-> <<c, i>>]
  <1>1. Places(h, n) = A \cup B
    BY PlacesType DEF In, Places
  <1>2. A \cap B = {}
    OBVIOUS
  <1>3. b \in [In(h[c].content, n) -> B] /\ \A y \in B : \E x \in In(h[c].content, n) : b[x] = y
    OBVIOUS
  <1>4. \A x, y \in In(h[c].content, n) : b[x] = b[y] => x = y
    OBVIOUS
  <1>5. ExistsBijection(In(h[c].content, n), B)
    <2> HIDE DEF b, B
    <2>1. QED BY <1>3, <1>4, Fun_IsBij, Fun_ExistsBij
  <1>6. IsFiniteSet(In(h[c].content, n)) /\ Count(h[c].content, n) \in Nat
    BY CountType DEF Countable
  <1>7. IsFiniteSet(B) /\ Cardinality(B) = Count(h[c].content, n)
    BY <1>5, <1>6, FS_Bijection DEF Count
  <1>8. IsFiniteSet(A) /\ Cardinality(A) \in Nat
    <2>1. A \in SUBSET Places(h, n)
      OBVIOUS
    <2>2. IsFiniteSet(A)
      BY <2>1, PlacesType, FS_Subset
    <2>3. QED BY <2>2, FS_CardinalityType
  <1> HIDE DEF A, B
  <1>9. Cardinality(A \cup B) = Cardinality(A) + Cardinality(B) - Cardinality(A \cap B)
    BY <1>7, <1>8, FS_Union
  <1>10. Cardinality(A \cap B) = 0
    BY <1>2, FS_EmptySet
  <1>11. Cardinality(Places(h, n)) = Cardinality(A) + Count(h[c].content, n)
    BY <1>1, <1>6, <1>7, <1>8, <1>9, <1>10
  <1>12. QED BY <1>6, <1>8, <1>11 DEF A

\* When one container changes, the places change by its places.
LEMMA PlacesChange ==
    ASSUME NEW h, NEW g, Countable(h), Countable(g), NEW n, NEW c \in Node,
           \A d \in Node \ {c} : g[d].content = h[d].content
    PROVE  /\ Cardinality(Places(g, n)) \in Nat /\ Cardinality(Places(h, n)) \in Nat
           /\ Count(h[c].content, n) \in Nat /\ Count(g[c].content, n) \in Nat
           /\ Count(h[c].content, n) <= Cardinality(Places(h, n))
           /\ Cardinality(Places(g, n)) =
                Cardinality(Places(h, n)) - Count(h[c].content, n) + Count(g[c].content, n)
  <1>1. {p \in Places(g, n) : p[1] # c} = {p \in Places(h, n) : p[1] # c}
    <2>1. ASSUME NEW p \in Places(g, n), p[1] # c PROVE p \in Places(h, n)
      <3>1. p = <<p[1], p[2]>> /\ p[1] \in Node /\ p[2] \in DOMAIN g[p[1]].content
            /\ g[p[1]].content[p[2]] = n
        BY PlacesType
      <3>2. g[p[1]].content = h[p[1]].content
        BY <2>1, <3>1
      <3>3. <<p[1], p[2]>> \in Places(h, n)
        BY <3>1, <3>2, PlacesType
      <3>4. QED BY <3>1, <3>3
    <2>2. ASSUME NEW p \in Places(h, n), p[1] # c PROVE p \in Places(g, n)
      <3>1. p = <<p[1], p[2]>> /\ p[1] \in Node /\ p[2] \in DOMAIN h[p[1]].content
            /\ h[p[1]].content[p[2]] = n
        BY PlacesType
      <3>2. g[p[1]].content = h[p[1]].content
        BY <2>2, <3>1
      <3>3. <<p[1], p[2]>> \in Places(g, n)
        BY <3>1, <3>2, PlacesType
      <3>4. QED BY <3>1, <3>3
    <2>3. QED BY <2>1, <2>2
  <1>2. PICK A : A = {p \in Places(h, n) : p[1] # c}
    OBVIOUS
  <1>3. /\ Cardinality(A) \in Nat /\ Count(h[c].content, n) \in Nat
        /\ Cardinality(Places(h, n)) = Cardinality(A) + Count(h[c].content, n)
    BY <1>2, PlacesOfOne
  <1>4. /\ Count(g[c].content, n) \in Nat
        /\ Cardinality(Places(g, n)) = Cardinality(A) + Count(g[c].content, n)
    BY <1>1, <1>2, PlacesOfOne
  <1>5. QED BY <1>3, <1>4

-----------------------------------------------------------------------------
(* Heaps, and what the operations on them change.                           *)

Kind == {"free", "object", "array", "scalar"}
Dict == UNION {[S -> Value] : S \in SUBSET Key}
NodeRecord ==
    [kind : Kind, content : Seq(Value) \cup Dict, text : Text \cup {None},
     refcount : Int, size : Nat]

\* What the kind of a value says of the rest of it.
Shaped(r) ==
    /\ r.kind = "object" => r.content \in Dict
    /\ r.kind = "array" => r.content \in Seq(Value)
    /\ r.kind \notin {"object", "array"} => r.content = <<>>
    /\ r.text \in IF r.kind = "scalar" THEN Text ELSE {None}

Heaps == {h \in [Node -> NodeRecord] : \A n \in Node : Shaped(h[n])}

\* The content of a new container is an empty array and an empty object.
LEMMA EmptyContent == <<>> \in Seq(Value) /\ <<>> \in Dict /\ DOMAIN <<>> = {}
  <1>1. <<>> \in [{} -> Value]
    OBVIOUS
  <1>2. QED BY <1>1 DEF Dict

\* The members of an object are finitely many values, as its keys are.
LEMMA DictType ==
    ASSUME NEW f \in Dict
    PROVE  /\ f \in [DOMAIN f -> Value] /\ DOMAIN f \subseteq Key
           /\ IsFiniteSet(DOMAIN f)
  <1>1. PICK S \in SUBSET Key : f \in [S -> Value]
    BY DEF Dict
  <1>2. DOMAIN f = S
    BY <1>1
  <1>3. QED BY <1>1, <1>2, JsonValueAssumption, FS_Subset

\* The content of a container is a finite function to values.
LEMMA ContentType ==
    ASSUME NEW f \in Seq(Value) \cup Dict
    PROVE  /\ IsFiniteSet(DOMAIN f)
           /\ f \in [DOMAIN f -> Value]
           /\ \A i \in DOMAIN f : f[i] \in Value
  <1>1. CASE f \in Seq(Value)
    BY <1>1, SeqFinite, LenProperties
  <1>2. CASE f \in Dict
    BY <1>2, DictType
  <1>3. QED BY <1>1, <1>2

\* Every value of a heap has a content that can be counted.
LEMMA HeapCountable ==
    ASSUME NEW h \in Heaps
    PROVE  /\ Countable(h)
           /\ \A c \in Node : \A i \in DOMAIN h[c].content : h[c].content[i] \in Value
           /\ \A c \in Node : h[c].content \in Seq(Value) \cup Dict
  <1>1. ASSUME NEW c \in Node PROVE h[c].content \in Seq(Value) \cup Dict
    BY DEF Heaps, NodeRecord
  <1>2. ASSUME NEW c \in Node PROVE IsFiniteSet(DOMAIN h[c].content)
    BY <1>1, ContentType
  <1>3. ASSUME NEW c \in Node
        PROVE  \A i \in DOMAIN h[c].content : h[c].content[i] \in Value
    BY <1>1, ContentType
  <1>4. QED BY <1>1, <1>2, <1>3 DEF Countable

\* g is h but for the contents of c.
SameButContent(h, g, c, f) ==
    /\ g \in Heaps
    /\ \A n \in Node : /\ g[n].kind = h[n].kind /\ g[n].refcount = h[n].refcount
                       /\ g[n].text = h[n].text
    /\ g[c].content = f
    /\ \A n \in Node \ {c} : g[n].content = h[n].content

\* g is h but for d references more to v.
SameButRefs(h, g, v, d) ==
    /\ g \in Heaps
    /\ \A n \in Node :
         /\ g[n].kind = h[n].kind /\ g[n].content = h[n].content /\ g[n].text = h[n].text
         /\ g[n].refcount = IF n = v THEN h[n].refcount + d ELSE h[n].refcount

\* json_incref and the decrement of json_decref change one count and no content.
LEMMA RefEffect ==
    ASSUME NEW h \in Heaps, NEW v \in Value, NEW d \in Int
    PROVE  SameButRefs(h, Ref(h, v, d), v, d)
  <1>1. CASE v = true
    BY <1>1, JsonValueAssumption DEF Ref, SameButRefs
  <1>2. CASE v # true
    <2>1. v \in Node
      BY <1>2 DEF Value
    <2>2. PICK r : r = [h[v] EXCEPT !.refcount = h[v].refcount + d]
      OBVIOUS
    <2>3. h \in [Node -> NodeRecord] /\ \A n \in Node : Shaped(h[n])
      BY DEF Heaps
    <2>4. /\ r \in NodeRecord /\ Shaped(r)
          /\ r.kind = h[v].kind /\ r.content = h[v].content /\ r.text = h[v].text
          /\ r.refcount = h[v].refcount + d
      <3>1. h[v] \in NodeRecord /\ Shaped(h[v])
        BY <2>1, <2>3
      <3>2. /\ r \in NodeRecord
            /\ r.kind = h[v].kind /\ r.content = h[v].content /\ r.text = h[v].text
            /\ r.refcount = h[v].refcount + d
        BY <2>2, <3>1 DEF NodeRecord
      <3>3. QED BY <3>1, <3>2 DEF Shaped
    <2>5. PICK g : g = [h EXCEPT ![v] = r]
      OBVIOUS
    <2>6. g = Ref(h, v, d)
      BY <1>2, <2>2, <2>5 DEF Ref
    <2>7. g \in Heaps
      BY <2>1, <2>3, <2>4, <2>5 DEF Heaps
    <2>8. g[v] = r /\ \A n \in Node \ {v} : g[n] = h[n]
      BY <2>1, <2>3, <2>5
    <2>9. QED BY <2>4, <2>6, <2>7, <2>8 DEF SameButRefs
  <1>3. QED BY <1>1, <1>2

\* json_array_grow changes nothing the counts depend on.
LEMMA GrownEffect ==
    ASSUME NEW h \in Heaps, NEW a \in Node, NEW k \in Nat
    PROVE  /\ Grown(h, a, k) \in Heaps
           /\ \A n \in Node :
                /\ Grown(h, a, k)[n].kind = h[n].kind
                /\ Grown(h, a, k)[n].content = h[n].content
                /\ Grown(h, a, k)[n].text = h[n].text
                /\ Grown(h, a, k)[n].refcount = h[n].refcount
  <1>1. CASE Fits(a, k)
    BY <1>1 DEF Grown
  <1>2. CASE ~Fits(a, k)
    <2>1. h \in [Node -> NodeRecord] /\ \A n \in Node : Shaped(h[n])
      BY DEF Heaps
    <2>2. h[a] \in NodeRecord /\ Shaped(h[a]) /\ h[a].size \in Nat
      BY <2>1 DEF NodeRecord
    <2>3. PICK m \in Nat : m = Max({h[a].size + k, 2 * h[a].size})
      <3>1. PICK x \in Nat : x = h[a].size + k
        BY <2>2
      <3>2. PICK y \in Nat : y = 2 * h[a].size
        BY <2>2
      <3>3. Max({x, y}) \in {x, y}
        <4>1. CASE x >= y
          BY <4>1 DEF Max
        <4>2. CASE ~(x >= y)
          BY <4>2 DEF Max
        <4>3. QED BY <4>1, <4>2
      <3>4. QED BY <3>1, <3>2, <3>3
    <2>4. PICK r : r = [h[a] EXCEPT !.size = m]
      OBVIOUS
    <2>5. /\ r \in NodeRecord /\ Shaped(r)
          /\ r.kind = h[a].kind /\ r.content = h[a].content /\ r.text = h[a].text
          /\ r.refcount = h[a].refcount
      <3>1. /\ r \in NodeRecord
            /\ r.kind = h[a].kind /\ r.content = h[a].content /\ r.text = h[a].text
            /\ r.refcount = h[a].refcount
        BY <2>2, <2>4 DEF NodeRecord
      <3>2. QED BY <2>2, <3>1 DEF Shaped
    <2>6. PICK g : g = [h EXCEPT ![a] = r]
      OBVIOUS
    <2>7. g = Grown(h, a, k)
      BY <1>2, <2>3, <2>4, <2>6 DEF Grown
    <2>8. g \in Heaps
      BY <2>1, <2>5, <2>6 DEF Heaps
    <2>9. g[a] = r /\ \A n \in Node \ {a} : g[n] = h[n]
      BY <2>1, <2>6
    <2>10. QED BY <2>5, <2>7, <2>8, <2>9
  <1>3. QED BY <1>1, <1>2

\* Contents that fit the kind of a container.
IsContent(kind, f) ==
    \/ kind = "object" /\ f \in Dict
    \/ kind = "array" /\ f \in Seq(Value)

\* Setting the content of a container changes nothing else.
LEMMA SetContentEffect ==
    ASSUME NEW h \in Heaps, NEW c \in Node, NEW f, IsContent(h[c].kind, f)
    PROVE  SameButContent(h, [h EXCEPT ![c].content = f], c, f)
  <1>1. h \in [Node -> NodeRecord] /\ \A n \in Node : Shaped(h[n])
    BY DEF Heaps
  <1>2. h[c] \in NodeRecord /\ Shaped(h[c])
    BY <1>1
  <1>3. PICK r : r = [h[c] EXCEPT !.content = f]
    OBVIOUS
  <1>4. f \in Seq(Value) \cup Dict
    BY DEF IsContent
  <1>5. /\ r \in NodeRecord
        /\ r.kind = h[c].kind /\ r.content = f /\ r.text = h[c].text
        /\ r.refcount = h[c].refcount
    BY <1>2, <1>3, <1>4 DEF NodeRecord
  <1>6. Shaped(r)
    BY <1>2, <1>5 DEF Shaped, IsContent
  <1>7. PICK g : g = [h EXCEPT ![c] = r]
    OBVIOUS
  <1>8. g = [h EXCEPT ![c].content = f]
    BY <1>3, <1>7
  <1>9. g \in Heaps
    BY <1>1, <1>5, <1>6, <1>7 DEF Heaps
  <1>10. g[c] = r /\ \A n \in Node \ {c} : g[n] = h[n]
    BY <1>1, <1>7
  <1>11. QED BY <1>5, <1>8, <1>9, <1>10 DEF SameButContent

\* What json_object, json_array and the constructors of scalars make.
LEMMA NewNodeType ==
    ASSUME NEW kind \in {"object", "array", "scalar"}, NEW t,
           t \in IF kind = "scalar" THEN Text ELSE {None}
    PROVE  /\ NewNode(kind, t) \in NodeRecord /\ Shaped(NewNode(kind, t))
           /\ NewNode(kind, t).kind = kind /\ NewNode(kind, t).content = <<>>
           /\ NewNode(kind, t).text = t /\ NewNode(kind, t).refcount = 1
  <1>1. PICK k \in Nat : k = IF kind = "array" THEN FirstSize ELSE 0
    BY JsonValueAssumption
  <1>2. PICK e : e = <<>>
    OBVIOUS
  <1>3. e \in Seq(Value) \cup Dict /\ e \in Seq(Value) /\ e \in Dict
    BY <1>2, EmptyContent
  <1>4. PICK r : r = [kind |-> kind, content |-> e, text |-> t, refcount |-> 1, size |-> k]
    OBVIOUS
  <1>5. r = NewNode(kind, t)
    BY <1>1, <1>2, <1>4 DEF NewNode
  <1>6. /\ r.kind = kind /\ r.content = e /\ r.text = t /\ r.refcount = 1
    BY <1>4
  <1>7. r \in NodeRecord
    BY <1>1, <1>3, <1>4 DEF NodeRecord, Kind
  <1>8. Shaped(r)
    BY <1>2, <1>3, <1>6 DEF Shaped
  <1>9. QED BY <1>2, <1>5, <1>6, <1>7, <1>8

\* What is left of a value that json_delete released.
LEMMA FreeNodeType ==
    /\ FreeNode \in NodeRecord /\ Shaped(FreeNode)
    /\ FreeNode.kind = "free" /\ FreeNode.content = <<>> /\ FreeNode.refcount = 0
  <1>1. PICK e : e = <<>>
    OBVIOUS
  <1>2. e \in Seq(Value) \cup Dict
    BY <1>1, EmptyContent
  <1>3. FreeNode = [kind |-> "free", content |-> e, text |-> None, refcount |-> 0, size |-> 0]
    BY <1>1 DEF FreeNode, NewNode
  <1>4. /\ FreeNode.kind = "free" /\ FreeNode.content = e /\ FreeNode.refcount = 0
        /\ FreeNode.text = None
    BY <1>3
  <1>5. FreeNode \in NodeRecord
    BY <1>2, <1>3 DEF NodeRecord, Kind
  <1>6. Shaped(FreeNode)
    BY <1>1, <1>4 DEF Shaped
  <1>7. QED BY <1>1, <1>4, <1>5, <1>6

-----------------------------------------------------------------------------
(* The inductive invariant.                                                 *)

\* CountsAreExact, of any heap h, references o of the program, lost ones l and
\* values t to be released.
Refs(h, o, l, t, n) == o[n] + l[n] + Count(t, n) + Cardinality(Places(h, n))
Exact(h, o, l, t) ==
    \A n \in Node : /\ h[n].refcount = Refs(h, o, l, t, n)
                    /\ h[n].kind = "free" <=> h[n].refcount = 0

Counter == [Node -> Nat]
Counts(h, o, l, t) ==
    /\ h \in Heaps /\ o \in Counter /\ l \in Counter /\ t \in Seq(Value)
    /\ Exact(h, o, l, t)

Index == Key \cup Nat
Loop == [op : {"update", "existing", "missing", "copy"}, to : Node, from : Node,
         rest : SUBSET Index]

\* A loop is over a container of the program's into one of the same kind, and no
\* member it has yet to set is taken away.
LoopInv ==
    loop # None =>
        /\ frames = <<>>
        /\ loop \in Loop
        /\ owned[loop.to] > 0 /\ owned[loop.from] > 0
        /\ heap[loop.to].kind = heap[loop.from].kind
        /\ loop.rest \subseteq DOMAIN heap[loop.from].content

FrameType == [from : Node, to : Node, at : Index \cup {None}, rest : SUBSET Index]

\* A nested call of json_deep_copy holds the only reference to the copy it makes,
\* which has no member yet for those it has still to copy.
FrameOK(f) ==
    /\ owned[f.to] = 1 /\ heap[f.to].refcount = 1
    /\ heap[f.to].kind = heap[f.from].kind /\ heap[f.to].kind \in {"object", "array"}
    /\ f.rest \subseteq DOMAIN heap[f.from].content
    /\ heap[f.to].kind = "object" => f.rest \cap DOMAIN heap[f.to].content = {}

\* The call g was made for a member of the container that f copies.
Nested(f, g) ==
    /\ g.at \in DOMAIN heap[f.from].content /\ g.at \notin f.rest
    /\ heap[f.from].content[g.at] = g.from
    /\ heap[f.to].kind = "object" => g.at \notin DOMAIN heap[f.to].content

FramesInv ==
    /\ frames \in Seq(FrameType)
    /\ \A j \in DOMAIN frames : FrameOK(frames[j])
    /\ \A j, k \in DOMAIN frames : frames[j].to = frames[k].to => j = k
    /\ frames # <<>> => owned[frames[1].from] > 0
    /\ \A j \in DOMAIN frames : frames[j].to # frames[1].from
    /\ \A j, k \in DOMAIN frames : k = j + 1 => Nested(frames[j], frames[k])

Counted == Counts(heap, owned, lost, todo)
IInv == Counted /\ LoopInv /\ FramesInv /\ whole \in BOOLEAN

-----------------------------------------------------------------------------
(* What exact counts say of a state.                                        *)

\* The singletons are no values that are allocated.
LEMMA NodeIsNotTrue == \A n \in Node : n \in Value /\ n # true
  BY JsonValueAssumption DEF Value

\* A value that is somewhere in a function counts there.
LEMMA CountPositive ==
    ASSUME NEW s, NEW i \in DOMAIN s, IsFiniteSet(DOMAIN s)
    PROVE  Count(s, s[i]) >= 1
  <1>1. IsFiniteSet(In(s, s[i])) /\ Count(s, s[i]) \in Nat
    BY CountType
  <1>2. In(s, s[i]) # {}
    BY DEF In
  <1>3. Count(s, s[i]) # 0
    BY <1>1, <1>2, FS_EmptySet DEF Count
  <1>4. QED BY <1>1, <1>3

\* Every part of a count is a natural number.
LEMMA PartsType ==
    ASSUME NEW h, NEW o, NEW l, NEW t, Counts(h, o, l, t), NEW n \in Node
    PROVE  /\ o[n] \in Nat /\ l[n] \in Nat /\ Count(t, n) \in Nat
           /\ Cardinality(Places(h, n)) \in Nat
           /\ h[n].refcount = o[n] + l[n] + Count(t, n) + Cardinality(Places(h, n))
           /\ h[n].refcount \in Nat
           /\ h[n].kind = "free" <=> h[n].refcount = 0
  <1>1. o[n] \in Nat /\ l[n] \in Nat
    BY DEF Counts, Counter
  <1>2. Count(t, n) \in Nat
    BY SeqFinite, CountType DEF Counts
  <1>3. Cardinality(Places(h, n)) \in Nat
    BY HeapCountable, PlacesType DEF Counts
  <1>4. /\ h[n].refcount = o[n] + l[n] + Count(t, n) + Cardinality(Places(h, n))
        /\ h[n].kind = "free" <=> h[n].refcount = 0
    BY DEF Counts, Exact, Refs
  <1>5. QED BY <1>1, <1>2, <1>3, <1>4

\* Whatever the program holds, or is a member of a container, or is to be
\* released, is not free.
LEMMA OwnedIsLive ==
    ASSUME Counted, NEW n \in Node, owned[n] > 0
    PROVE  heap[n].kind # "free" /\ heap[n].refcount > 0
  BY PartsType DEF Counted

\* A member of a container has a place in the heap.
LEMMA MemberIsPlaced ==
    ASSUME NEW h \in Heaps, NEW c \in Node, NEW i \in DOMAIN h[c].content
    PROVE  /\ h[c].content[i] \in Value
           /\ Cardinality(Places(h, h[c].content[i])) >= 1
  <1>1. Countable(h) /\ h[c].content[i] \in Value
    BY HeapCountable
  <1>2. PICK n : n = h[c].content[i]
    OBVIOUS
  <1>3. <<c, i>> \in Places(h, n) /\ IsFiniteSet(Places(h, n))
        /\ Cardinality(Places(h, n)) \in Nat
    BY <1>1, <1>2, PlacesType
  <1>4. Cardinality(Places(h, n)) # 0
    BY <1>3, FS_EmptySet
  <1>5. QED BY <1>1, <1>2, <1>3, <1>4

\* A member has not been released, and its container's reference comes on top
\* of those that the program owns.
LEMMA MemberIsLive ==
    ASSUME Counted, NEW c \in Node, NEW i \in DOMAIN heap[c].content, NEW v,
           v = heap[c].content[i], v # true
    PROVE  v \in Node /\ heap[v].kind # "free" /\ heap[v].refcount >= owned[v] + 1
  <1>1. v \in Node /\ Cardinality(Places(heap, v)) >= 1
    BY MemberIsPlaced DEF Counted, Counts, Value
  <1>2. QED BY <1>1, PartsType DEF Counted

\* A value whose reference is to be given back has not been released, and is
\* referred to by nothing else when its count is 1.
LEMMA TodoIsLive ==
    ASSUME Counted, todo # <<>>, NEW v, v = Head(todo), v # true
    PROVE  /\ v \in Node /\ heap[v].kind # "free"
           /\ heap[v].refcount >= owned[v] + lost[v] + 1
           /\ heap[v].refcount = 1 =>
                Cardinality(Places(heap, v)) = 0 /\ Count(Tail(todo), v) = 0
  <1>1. todo \in Seq(Value)
    BY DEF Counted, Counts
  <1>2. v \in Node /\ Tail(todo) \in Seq(Value)
    BY <1>1 DEF Value
  <1>3. Count(todo, v) = Count(Tail(todo), v) + 1
    BY <1>1, CountTail DEF One
  <1>4. Count(Tail(todo), v) \in Nat
    BY <1>2, SeqFinite, CountType
  <1>5. /\ owned[v] \in Nat /\ lost[v] \in Nat
        /\ Cardinality(Places(heap, v)) \in Nat
        /\ heap[v].refcount =
             owned[v] + lost[v] + Count(todo, v) + Cardinality(Places(heap, v))
        /\ heap[v].kind = "free" <=> heap[v].refcount = 0
    BY <1>2, PartsType DEF Counted
  <1>6. /\ heap[v].refcount >= owned[v] + lost[v] + 1
        /\ heap[v].refcount # 0
        /\ heap[v].refcount = 1 =>
             Cardinality(Places(heap, v)) = 0 /\ Count(Tail(todo), v) = 0
    BY <1>3, <1>4, <1>5
  <1>7. QED BY <1>2, <1>5, <1>6

\* The counts stay exact when each changes by what its parts change by, the
\* places of one container c among them, and none rises from or falls to zero but
\* with the allocation.
LEMMA Balanced ==
    ASSUME NEW h0, NEW o0, NEW l0, NEW t0, Counts(h0, o0, l0, t0),
           NEW h \in Heaps, NEW o \in Counter, NEW l \in Counter, NEW t \in Seq(Value),
           NEW c \in Node, \A n \in Node \ {c} : h[n].content = h0[n].content,
           \A n \in Node :
              /\ h[n].refcount - h0[n].refcount =
                   (o[n] - o0[n]) + (l[n] - l0[n]) + (Count(t, n) - Count(t0, n))
                   + (Count(h[c].content, n) - Count(h0[c].content, n))
              /\ h[n].kind = "free" <=> h[n].refcount = 0
    PROVE  Counts(h, o, l, t)
  <1> SUFFICES ASSUME NEW n \in Node PROVE h[n].refcount = Refs(h, o, l, t, n)
    BY DEF Exact, Counts
  <1>1. Countable(h) /\ Countable(h0)
    BY HeapCountable DEF Counts
  <1>2. /\ Cardinality(Places(h, n)) \in Nat /\ Cardinality(Places(h0, n)) \in Nat
        /\ Count(h0[c].content, n) \in Nat /\ Count(h[c].content, n) \in Nat
        /\ Cardinality(Places(h, n)) = Cardinality(Places(h0, n))
             - Count(h0[c].content, n) + Count(h[c].content, n)
    BY <1>1, PlacesChange
  <1>3. o[n] \in Nat /\ l[n] \in Nat /\ Count(t, n) \in Nat
    BY SeqFinite, CountType DEF Counter
  <1>4. h[n].refcount \in Int
    BY DEF Heaps, NodeRecord
  <1>5. /\ o0[n] \in Nat /\ l0[n] \in Nat /\ Count(t0, n) \in Nat
        /\ h0[n].refcount =
             o0[n] + l0[n] + Count(t0, n) + Cardinality(Places(h0, n))
    BY PartsType
  <1>6. h[n].refcount - h0[n].refcount =
           (o[n] - o0[n]) + (l[n] - l0[n]) + (Count(t, n) - Count(t0, n))
           + (Count(h[c].content, n) - Count(h0[c].content, n))
    OBVIOUS
  <1>7. h[n].refcount = o[n] + l[n] + Count(t, n) + Cardinality(Places(h, n))
    <2>1. PICK x \in Nat : x = Cardinality(Places(h, n))
      BY <1>2
    <2>2. PICK y \in Nat : y = Cardinality(Places(h0, n))
      BY <1>2
    <2>3. PICK p \in Nat : p = Count(h[c].content, n)
      BY <1>2
    <2>4. PICK q \in Nat : q = Count(h0[c].content, n)
      BY <1>2
    <2>5. PICK r \in Int : r = h[n].refcount
      BY <1>4
    <2>6. x = y - q + p
      BY <1>2, <2>1, <2>2, <2>3, <2>4
    <2>7. r - (o0[n] + l0[n] + Count(t0, n) + y) =
             (o[n] - o0[n]) + (l[n] - l0[n]) + (Count(t, n) - Count(t0, n)) + (p - q)
      BY <1>5, <1>6, <2>2, <2>3, <2>4, <2>5
    <2>8. r = o[n] + l[n] + Count(t, n) + x
      <3>1. PICK a1 \in Nat, b1 \in Nat, a2 \in Nat, b2 \in Nat, a3 \in Nat, b3 \in Nat :
              /\ a1 = o0[n] /\ b1 = o[n] /\ a2 = l0[n] /\ b2 = l[n]
              /\ a3 = Count(t0, n) /\ b3 = Count(t, n)
        BY <1>3, <1>5
      <3>2. r - (a1 + a2 + a3 + y) = (b1 - a1) + (b2 - a2) + (b3 - a3) + (p - q)
        BY <2>7, <3>1
      <3>3. r = b1 + b2 + b3 + x
        BY <2>6, <3>2
      <3>4. QED BY <3>1, <3>3
    <2>9. QED BY <2>1, <2>5, <2>8
  <1>8. QED BY <1>7 DEF Refs

\* The program's references o become o2 when it passes v (d = 0) or has the call
\* take another reference (d = 1).
Passes(o, o2, v, d) ==
    /\ o2 \in Counter
    /\ \A n \in Node : o2[n] = IF n = v THEN o[n] + d - 1 ELSE o[n]

\* Contents e and values t to release become f and u, with one v more.
Balances(e, t, f, u, v) ==
    \A n \in Node : Count(f, n) + Count(u, n) = Count(e, n) + Count(t, n) + One(v, n)

\* A value v is stored, given back or taken out: its reference is the caller's
\* (d = 0) or a new one (d = 1), c has new contents, and what has gone from them
\* is to be released.
LEMMA Stored ==
    ASSUME NEW h, NEW o, NEW l, NEW t, Counts(h, o, l, t),
           NEW v \in Value, v = true \/ h[v].refcount > 0,
           NEW d \in {0, 1}, NEW h1, SameButRefs(h, h1, v, d),
           NEW c \in Node, NEW g, NEW f, SameButContent(h1, g, c, f),
           NEW o2, Passes(o, o2, v, d),
           NEW t2 \in Seq(Value), Balances(h[c].content, t, f, t2, v)
    PROVE  Counts(g, o2, l, t2)
  <1>1. g \in Heaps /\ l \in Counter
    BY DEF SameButContent, Counts
  <1>0. o2 \in Counter
    BY DEF Passes
  <1>2. \A n \in Node \ {c} : g[n].content = h[n].content
    BY DEF SameButContent, SameButRefs
  <1>3. g[c].content = f
    BY DEF SameButContent
  <1>4. ASSUME NEW n \in Node
        PROVE  /\ g[n].refcount - h[n].refcount =
                    (o2[n] - o[n]) + (l[n] - l[n]) + (Count(t2, n) - Count(t, n))
                    + (Count(g[c].content, n) - Count(h[c].content, n))
               /\ g[n].kind = "free" <=> g[n].refcount = 0
    <2>1. /\ g[n].kind = h[n].kind
          /\ g[n].refcount = IF n = v THEN h[n].refcount + d ELSE h[n].refcount
      BY DEF SameButContent, SameButRefs
    <2>2. /\ h[n].refcount \in Nat /\ o[n] \in Nat /\ l[n] \in Nat /\ Count(t, n) \in Nat
          /\ h[n].kind = "free" <=> h[n].refcount = 0
      BY PartsType
    <2>3. Count(t2, n) \in Nat
      BY SeqFinite, CountType
    <2>4. Count(h[c].content, n) \in Nat /\ Count(f, n) \in Nat
      BY <1>1, <1>3, HeapCountable, CountType DEF Counts, Countable
    <2>5. Count(f, n) + Count(t2, n) = Count(h[c].content, n) + Count(t, n) + One(v, n)
      BY DEF Balances
    <2>6. o2[n] = IF n = v THEN o[n] + d - 1 ELSE o[n]
      BY DEF Passes
    <2>7. PICK x \in Nat, y \in Nat, p \in Nat, q \in Nat :
            /\ x = Count(t2, n) /\ y = Count(t, n)
            /\ p = Count(f, n) /\ q = Count(h[c].content, n)
      BY <2>2, <2>3, <2>4
    <2>8. PICK a \in Nat, b \in Nat, r \in Nat : a = o[n] /\ b = l[n] /\ r = h[n].refcount
      BY <2>2
    <2>9. g[n].refcount - r = (o2[n] - a) + (b - b) + (x - y) + (p - q)
      <3>1. CASE n = v
        <4>1. One(v, n) = 1 /\ o2[n] = a + d - 1 /\ g[n].refcount = r + d
          BY <2>1, <2>6, <2>8, <3>1 DEF One
        <4>2. p + x = q + y + 1
          BY <2>5, <2>7, <4>1
        <4>3. QED BY <4>1, <4>2
      <3>2. CASE n # v
        <4>1. One(v, n) = 0 /\ o2[n] = a /\ g[n].refcount = r
          BY <2>1, <2>6, <2>8, <3>2 DEF One
        <4>2. p + x = q + y
          BY <2>5, <2>7, <4>1
        <4>3. QED BY <4>1, <4>2
      <3>3. QED BY <3>1, <3>2
    <2>10. g[n].kind = "free" <=> g[n].refcount = 0
      <3>1. CASE n = v
        <4>1. n # true
          BY NodeIsNotTrue
        <4>2. r > 0
          BY <2>8, <3>1, <4>1
        <4>3. g[n].refcount # 0
          BY <2>1, <2>8, <3>1, <4>2
        <4>4. h[n].kind # "free"
          BY <2>2, <2>8, <4>2
        <4>5. QED BY <2>1, <4>3, <4>4
      <3>2. CASE n # v
        BY <2>1, <2>2, <3>2
      <3>3. QED BY <3>1, <3>2
    <2>11. QED BY <1>3, <2>7, <2>8, <2>9, <2>10
  <1>5. QED BY <1>0, <1>1, <1>2, <1>4, Balanced

\* A value is allocated, with a reference of the program's or a call's.
LEMMA Created ==
    ASSUME NEW h, NEW o, NEW l, NEW t, Counts(h, o, l, t),
           NEW n \in Node, h[n].kind = "free",
           NEW kind \in {"object", "array", "scalar"}, NEW x,
           x \in IF kind = "scalar" THEN Text ELSE {None}
    PROVE  /\ Counts([h EXCEPT ![n] = NewNode(kind, x)], [o EXCEPT ![n] = @ + 1], l, t)
           /\ o[n] = 0 /\ Cardinality(Places(h, n)) = 0
  <1>1. PICK r : r = NewNode(kind, x)
    OBVIOUS
  <1>2. r \in NodeRecord /\ Shaped(r) /\ r.kind = kind /\ r.content = <<>> /\ r.refcount = 1
    BY <1>1, NewNodeType
  <1>3. PICK g : g = [h EXCEPT ![n] = r]
    OBVIOUS
  <1>4. h \in Heaps /\ o \in Counter /\ l \in Counter /\ t \in Seq(Value)
    BY DEF Counts
  <1>5. g \in Heaps /\ g[n] = r /\ \A m \in Node \ {n} : g[m] = h[m]
    BY <1>2, <1>3, <1>4 DEF Heaps
  <1>6. PICK o2 : o2 = [o EXCEPT ![n] = @ + 1]
    OBVIOUS
  <1>7. /\ o2 \in Counter /\ o2[n] = o[n] + 1
        /\ \A m \in Node \ {n} : o2[m] = o[m]
    BY <1>4, <1>6 DEF Counter
  <1>8. /\ h[n].refcount = 0 /\ o[n] = 0 /\ Cardinality(Places(h, n)) = 0
    <2>1. /\ o[n] \in Nat /\ l[n] \in Nat /\ Count(t, n) \in Nat
          /\ Cardinality(Places(h, n)) \in Nat
          /\ h[n].refcount = o[n] + l[n] + Count(t, n) + Cardinality(Places(h, n))
          /\ h[n].kind = "free" <=> h[n].refcount = 0
      BY PartsType
    <2>2. QED BY <2>1
  <1>9. h[n].content = <<>>
    BY <1>4 DEF Heaps, Shaped
  <1>10. ASSUME NEW m \in Node
         PROVE  /\ g[m].refcount - h[m].refcount =
                     (o2[m] - o[m]) + (l[m] - l[m]) + (Count(t, m) - Count(t, m))
                     + (Count(g[n].content, m) - Count(h[n].content, m))
                /\ g[m].kind = "free" <=> g[m].refcount = 0
    <2>1. /\ h[m].refcount \in Nat /\ o[m] \in Nat /\ l[m] \in Nat /\ Count(t, m) \in Nat
          /\ h[m].kind = "free" <=> h[m].refcount = 0
      BY PartsType
    <2>2. Count(g[n].content, m) = 0 /\ Count(h[n].content, m) = 0
      BY <1>2, <1>5, <1>9, CountEmpty
    <2>3. CASE m = n
      BY <1>2, <1>5, <1>7, <1>8, <2>1, <2>2, <2>3
    <2>4. CASE m # n
      BY <1>5, <1>7, <2>1, <2>2, <2>4
    <2>5. QED BY <2>3, <2>4
  <1>11. \A m \in Node \ {n} : g[m].content = h[m].content
    BY <1>5
  <1>12. Counts(g, o2, l, t)
    BY <1>4, <1>5, <1>7, <1>10, <1>11, Balanced
  <1>13. QED BY <1>1, <1>3, <1>6, <1>8, <1>12

-----------------------------------------------------------------------------
(* The helpers of the actions.                                              *)

\* The program owns one reference more or less; of a singleton it owns none.
LEMMA OwnEffect ==
    ASSUME Counted, NEW v \in Value, NEW d \in {1, -1},
           d = 1 \/ v = true \/ owned[v] > 0
    PROVE  /\ Own(v, d) \in Counter
           /\ \A n \in Node : Own(v, d)[n] = IF n = v THEN owned[n] + d ELSE owned[n]
  <1>1. owned \in [Node -> Nat]
    BY DEF Counted, Counts, Counter
  <1>2. CASE v = true
    BY <1>1, <1>2, NodeIsNotTrue DEF Own, Counter
  <1>3. CASE v # true
    <2>1. v \in Node
      BY <1>3 DEF Value
    <2>2. owned[v] + d \in Nat
      BY <1>1, <1>3, <2>1
    <2>3. Own(v, d) = [owned EXCEPT ![v] = owned[v] + d]
      BY <1>3 DEF Own
    <2>4. QED BY <1>1, <2>1, <2>2, <2>3 DEF Counter
  <1>4. QED BY <1>2, <1>3

\* The contents of c with v at i, as Put has them.
Added(c, i, v) ==
    IF KindOf(c) = "array" THEN Append(Content(c), v) ELSE With(Content(c), i, v)

\* A value that is no singleton has the kind that it was made with.
LEMMA KindOfNode == ASSUME NEW c \in Node PROVE KindOf(c) = heap[c].kind
  BY NodeIsNotTrue DEF KindOf

\* Setting a member of a container changes the content of that container only.
LEMMA PutEffect ==
    ASSUME Counted, NEW h \in Heaps, NEW c \in Node, NEW v \in Value, NEW i,
           h[c].kind = heap[c].kind, h[c].content = Content(c),
           heap[c].kind \in {"object", "array"}, heap[c].kind = "object" => i \in Key
    PROVE  SameButContent(h, Put(h, c, i, v), c, Added(c, i, v))
  <1>1. h \in [Node -> NodeRecord] /\ Shaped(h[c])
    BY DEF Heaps
  <1>2. PICK f : f = Content(c)
    OBVIOUS
  <1>3. CASE heap[c].kind = "array"
    <2>1. f \in Seq(Value)
      BY <1>1, <1>2, <1>3 DEF Shaped
    <2>2. PICK e : e = Append(f, v)
      OBVIOUS
    <2>3. e \in Seq(Value)
      BY <2>1, <2>2
    <2>4. PICK g : g = Grown(h, c, 1)
      OBVIOUS
    <2>5. /\ g \in Heaps
          /\ \A n \in Node : /\ g[n].kind = h[n].kind /\ g[n].content = h[n].content
                             /\ g[n].text = h[n].text /\ g[n].refcount = h[n].refcount
      BY <2>4, GrownEffect
    <2>6. SameButContent(g, [g EXCEPT ![c].content = e], c, e)
      BY <1>3, <2>3, <2>5, SetContentEffect DEF IsContent
    <2>7. [g EXCEPT ![c].content = e] = Put(h, c, i, v)
      <3>1. Put(h, c, i, v) = [g EXCEPT ![c].content = Append(@, v)]
        BY <1>3, <2>4, KindOfNode DEF Put, ArrayPut
      <3>2. g[c].content = f
        BY <1>2, <2>5
      <3>3. QED BY <2>2, <3>1, <3>2
    <2>8. Added(c, i, v) = e
      BY <1>2, <1>3, <2>2, KindOfNode DEF Added
    <2>9. QED BY <2>5, <2>6, <2>7, <2>8, ZenonT(60) DEF SameButContent
  <1>4. CASE heap[c].kind = "object"
    <2>1. f \in Dict
      BY <1>1, <1>2, <1>4 DEF Shaped
    <2>2. f \in [DOMAIN f -> Value] /\ DOMAIN f \subseteq Key
      BY <2>1, DictType
    <2>3. PICK e : e = With(f, i, v)
      OBVIOUS
    <2>4. e \in [DOMAIN f \cup {i} -> Value] /\ DOMAIN f \cup {i} \in SUBSET Key
      BY <1>4, <2>2, <2>3 DEF With
    <2>5. e \in Dict
      BY <2>4 DEF Dict
    <2>6. SameButContent(h, [h EXCEPT ![c].content = e], c, e)
      BY <1>4, <2>5, SetContentEffect DEF IsContent
    <2>7. [h EXCEPT ![c].content = e] = Put(h, c, i, v)
      <3>1. Put(h, c, i, v) = ObjectPut(h, c, i, v)
        BY <1>4, KindOfNode DEF Put
      <3>2. ObjectPut(h, c, i, v) = [h EXCEPT ![c].content = With(h[c].content, i, v)]
        BY DEF ObjectPut, With
      <3>3. QED BY <1>2, <2>3, <3>1, <3>2
    <2>8. Added(c, i, v) = e
      BY <1>2, <1>4, <2>3, KindOfNode DEF Added
    <2>9. QED BY <2>6, <2>7, <2>8
  <1>5. QED BY <1>3, <1>4

\* Storing v at i puts it there, and what was there is to be released.
LEMMA PutBalance ==
    ASSUME Counted, NEW c \in Node, NEW v \in Value, NEW i,
           heap[c].kind \in {"object", "array"}
    PROVE  /\ Replaced(c, i) \in Seq(Value)
           /\ \A n \in Node :
                Count(Added(c, i, v), n) + Count(Replaced(c, i), n)
                  = Count(heap[c].content, n) + One(v, n)
  <1>1. heap \in Heaps
    BY DEF Counted, Counts
  <1>2. PICK f : f = heap[c].content
    OBVIOUS
  <1>3. IsFiniteSet(DOMAIN f) /\ \A j \in DOMAIN f : f[j] \in Value
    BY <1>1, <1>2, HeapCountable DEF Countable
  <1>4. Content(c) = f
    BY <1>2 DEF Content
  <1>5. \A n, w : One(w, n) \in Nat /\ Count(f, n) \in Nat
    BY <1>3, CountType DEF One
  <1>6. CASE heap[c].kind = "array"
    <2>1. f \in Seq(Value)
      BY <1>1, <1>2, <1>6 DEF Heaps, Shaped
    <2>2. Replaced(c, i) = <<>>
      BY <1>6, KindOfNode DEF Replaced
    <2>3. Added(c, i, v) = Append(f, v)
      BY <1>4, <1>6, KindOfNode DEF Added
    <2>4. ASSUME NEW n \in Node
          PROVE  Count(Append(f, v), n) + Count(<<>>, n) = Count(f, n) + One(v, n)
      <3>1. Count(Append(f, v), n) = Count(f, n) + One(v, n)
        BY <2>1, CountAppend
      <3>2. Count(<<>>, n) = 0
        BY CountEmpty
      <3>3. QED BY <1>5, <3>1, <3>2
    <2>5. QED BY <1>2, <2>2, <2>3, <2>4, EmptyContent
  <1>7. CASE heap[c].kind = "object" /\ i \notin DOMAIN f
    <2>1. Replaced(c, i) = <<>>
      BY <1>4, <1>7 DEF Replaced
    <2>2. Added(c, i, v) = With(f, i, v)
      BY <1>4, <1>7, KindOfNode DEF Added
    <2>3. ASSUME NEW n \in Node
          PROVE  Count(With(f, i, v), n) + Count(<<>>, n) = Count(f, n) + One(v, n)
      <3>1. Count(With(f, i, v), n) = Count(f, n) + One(v, n)
        BY <1>3, <1>7, CountWith
      <3>2. Count(<<>>, n) = 0
        BY CountEmpty
      <3>3. QED BY <1>5, <3>1, <3>2
    <2>4. QED BY <1>2, <2>1, <2>2, <2>3, EmptyContent
  <1>8. CASE heap[c].kind = "object" /\ i \in DOMAIN f
    <2>1. PICK w \in Value : w = f[i]
      BY <1>3, <1>8
    <2>2. Replaced(c, i) = <<w>>
      BY <1>4, <1>8, <2>1, KindOfNode DEF Replaced
    <2>3. Added(c, i, v) = With(f, i, v)
      BY <1>4, <1>8, KindOfNode DEF Added
    <2>4. ASSUME NEW n \in Node
          PROVE  Count(With(f, i, v), n) + Count(<<w>>, n) = Count(f, n) + One(v, n)
      <3>1. Count(With(f, i, v), n) = Count(f, n) - One(w, n) + One(v, n)
        BY <1>3, <1>8, <2>1, CountWith
      <3>2. Count(<<w>>, n) = One(w, n)
        BY CountSingle
      <3>3. QED BY <1>5, <3>1, <3>2
    <2>5. <<w>> \in Seq(Value)
      OBVIOUS
    <2>6. QED BY <1>2, <2>2, <2>3, <2>4, <2>5
  <1>9. QED BY <1>6, <1>7, <1>8

-----------------------------------------------------------------------------
(* Every action keeps the counts exact.                                     *)

\* json_decref takes a reference, or frees the value and releases its members.
LEMMA DecrefCounts ==
    ASSUME Counted, Decref
    PROVE  Counts(heap', owned', lost', todo')
  <1>1. /\ heap \in Heaps /\ owned \in Counter /\ lost \in Counter /\ todo \in Seq(Value)
        /\ todo # <<>> /\ owned' = owned /\ lost' = lost
    BY DEF Counted, Counts, Decref
  <1>2. PICK v : v = Head(todo)
    OBVIOUS
  <1>3. PICK t : t = Tail(todo)
    OBVIOUS
  <1>4. v \in Value /\ t \in Seq(Value)
    BY <1>1, <1>2, <1>3
  <1>5. ASSUME NEW n \in Node
        PROVE  /\ Count(todo, n) = Count(t, n) + One(v, n)
               /\ Count(t, n) \in Nat
               /\ heap[n].refcount \in Nat /\ owned[n] \in Nat /\ lost[n] \in Nat
               /\ Count(heap[n].content, n) \in Nat
               /\ heap[n].kind = "free" <=> heap[n].refcount = 0
    <2>1. Count(todo, n) = Count(t, n) + One(v, n)
      BY <1>1, <1>2, <1>3, CountTail
    <2>2. Count(t, n) \in Nat
      BY <1>4, SeqFinite, CountType
    <2>3. Count(heap[n].content, n) \in Nat
      BY <1>1, HeapCountable, CountType DEF Countable
    <2>4. /\ heap[n].refcount \in Nat /\ owned[n] \in Nat /\ lost[n] \in Nat
          /\ heap[n].kind = "free" <=> heap[n].refcount = 0
      BY PartsType DEF Counted
    <2>5. QED BY <2>1, <2>2, <2>3, <2>4
  <1>6. CASE v = true /\ todo' = t /\ heap' = heap
    <2>1. ASSUME NEW n \in Node PROVE Count(todo, n) = Count(t, n)
      <3>1. One(v, n) = 0
        BY <1>6, NodeIsNotTrue DEF One
      <3>2. QED BY <1>5, <3>1
    <2>2. \A n \in Node : Refs(heap, owned, lost, todo, n) = Refs(heap, owned, lost, t, n)
      BY <2>1 DEF Refs
    <2>3. Exact(heap, owned, lost, t)
      BY <2>2 DEF Counted, Counts, Exact
    <2>4. QED BY <1>1, <1>4, <1>6, <2>3 DEF Counts
  <1>7. CASE v # true /\ heap[v].refcount > 1 /\ heap' = Ref(heap, v, -1) /\ todo' = t
    <2>1. v \in Node
      BY <1>4, <1>7 DEF Value
    <2>2. PICK g : g = Ref(heap, v, -1)
      OBVIOUS
    <2>3. SameButRefs(heap, g, v, -1)
      BY <1>1, <1>4, <2>2, RefEffect
    <2>4. /\ g \in Heaps /\ \A n \in Node \ {v} : g[n].content = heap[n].content
          /\ g[v].content = heap[v].content
      BY <2>1, <2>3 DEF SameButRefs
    <2>5. ASSUME NEW n \in Node
          PROVE  /\ g[n].refcount - heap[n].refcount =
                      (owned[n] - owned[n]) + (lost[n] - lost[n])
                      + (Count(t, n) - Count(todo, n))
                      + (Count(g[v].content, n) - Count(heap[v].content, n))
                 /\ g[n].kind = "free" <=> g[n].refcount = 0
      <3>1. /\ g[n].kind = heap[n].kind
            /\ g[n].refcount = IF n = v THEN heap[n].refcount + -1 ELSE heap[n].refcount
        BY <2>3 DEF SameButRefs
      <3>2. Count(heap[v].content, n) \in Nat
        BY <1>1, <2>1, HeapCountable, CountType DEF Countable
      <3>3. PICK x \in Nat : x = Count(heap[v].content, n) /\ x = Count(g[v].content, n)
        BY <2>4, <3>2
      <3>4. g[n].refcount - heap[n].refcount = Count(t, n) - Count(todo, n)
        <4>1. CASE n = v
          BY <1>5, <3>1, <4>1 DEF One
        <4>2. CASE n # v
          BY <1>5, <3>1, <4>2 DEF One
        <4>3. QED BY <4>1, <4>2
      <3>5. g[n].kind = "free" <=> g[n].refcount = 0
        BY <1>5, <1>7, <3>1
      <3>6. Count(todo, n) \in Nat
        BY <1>5 DEF One
      <3>7. QED BY <1>5, <3>3, <3>4, <3>5, <3>6
    <2>6. Counts(g, owned, lost, t)
      BY <1>1, <1>4, <2>1, <2>4, <2>5, Balanced DEF Counted
    <2>7. QED BY <1>1, <1>7, <2>2, <2>6
  <1>8. CASE /\ v # true /\ heap[v].refcount <= 1 /\ heap' = [heap EXCEPT ![v] = FreeNode]
             /\ todo' = MembersSeq(v) \o t
    <2>1. v \in Node /\ heap[v].refcount = 1
      <3>1. v \in Node /\ heap[v].refcount >= owned[v] + lost[v] + 1
        BY <1>1, <1>2, <1>8, TodoIsLive
      <3>2. QED BY <1>5, <1>8, <3>1
    <2>2. PICK g : g = [heap EXCEPT ![v] = FreeNode]
      OBVIOUS
    <2>3. g \in Heaps /\ g[v] = FreeNode /\ \A n \in Node \ {v} : g[n] = heap[n]
      BY <1>1, <2>1, <2>2, FreeNodeType DEF Heaps
    <2>4. /\ MembersSeq(v) \in Seq(Value)
          /\ \A n : Count(MembersSeq(v), n) = Count(heap[v].content, n)
      <3>1. IsFiniteSet(DOMAIN Content(v)) /\ \A i \in DOMAIN Content(v) : Content(v)[i] \in Value
        BY <1>1, <2>1, HeapCountable DEF Content, Countable
      <3>2. /\ MembersSeq(v) \in Seq(Value)
            /\ \A n : Count(MembersSeq(v), n) = Count(Content(v), n)
        BY <3>1, CountMembersSeq
      <3>3. QED BY <3>2 DEF Content
    <2>5. PICK t2 : t2 = MembersSeq(v) \o t
      OBVIOUS
    <2>6. /\ t2 \in Seq(Value)
          /\ \A n : Count(t2, n) = Count(heap[v].content, n) + Count(t, n)
      BY <1>4, <2>4, <2>5, CountConcat
    <2>7. ASSUME NEW n \in Node
          PROVE  /\ g[n].refcount - heap[n].refcount =
                      (owned[n] - owned[n]) + (lost[n] - lost[n])
                      + (Count(t2, n) - Count(todo, n))
                      + (Count(g[v].content, n) - Count(heap[v].content, n))
                 /\ g[n].kind = "free" <=> g[n].refcount = 0
      <3>1. Count(g[v].content, n) = 0
        BY <2>3, FreeNodeType, CountEmpty
      <3>2. PICK x \in Nat : x = Count(heap[v].content, n)
        BY <1>1, <2>1, HeapCountable, CountType DEF Countable
      <3>3. Count(t2, n) = x + Count(t, n)
        BY <2>6, <3>2
      <3>4. g[n].refcount = heap[n].refcount - One(v, n)
        <4>1. CASE n = v
          BY <2>1, <2>3, <4>1, FreeNodeType DEF One
        <4>2. CASE n # v
          BY <1>5, <2>3, <4>2 DEF One
        <4>3. QED BY <4>1, <4>2
      <3>5. g[n].kind = "free" <=> g[n].refcount = 0
        <4>1. CASE n = v
          BY <2>3, <4>1, FreeNodeType
        <4>2. CASE n # v
          BY <1>5, <2>3, <4>2
        <4>3. QED BY <4>1, <4>2
      <3>6. PICK o1 \in Nat : o1 = One(v, n)
        BY DEF One
      <3>7. PICK y \in Nat : y = Count(t, n) /\ Count(todo, n) = y + o1
        BY <1>5, <3>6
      <3>8. PICK r \in Nat : r = heap[n].refcount
        BY <1>5
      <3>9. g[n].refcount - r = (Count(t2, n) - (y + o1)) + (0 - x)
        BY <3>3, <3>4, <3>6, <3>7, <3>8
      <3>10. QED BY <1>5, <3>1, <3>2, <3>5, <3>7, <3>8, <3>9, <3>3
    <2>8. \A n \in Node \ {v} : g[n].content = heap[n].content
      BY <2>3
    <2>9. Counts(g, owned, lost, t2)
      BY <1>1, <2>1, <2>3, <2>6, <2>7, <2>8, Balanced DEF Counted
    <2>10. QED BY <1>1, <1>8, <2>2, <2>5, <2>9
  <1>9. QED BY <1>2, <1>3, <1>6, <1>7, <1>8 DEF Decref

\* A heap is itself, with no reference more and the same contents.
LEMMA SameHeap ==
    ASSUME NEW h \in Heaps
    PROVE  /\ \A v : SameButRefs(h, h, v, 0)
           /\ \A c \in Node : SameButContent(h, h, c, h[c].content)
  <1>1. \A n \in Node : h[n].refcount + 0 = h[n].refcount
    BY DEF Heaps, NodeRecord
  <1>2. QED BY <1>1 DEF SameButRefs, SameButContent

\* A reference of the program's, or of a call's, is released.
LEMMA Released ==
    ASSUME Counted, NEW n \in Node, owned[n] > 0, todo = <<>>
    PROVE  Counts(heap, Own(n, -1), lost, <<n>>)
  <1>1. heap \in Heaps
    BY DEF Counted, Counts
  <1>2. n \in Value /\ <<n>> \in Seq(Value)
    BY DEF Value
  <1>3. /\ Own(n, -1) \in Counter
        /\ \A m \in Node : Own(n, -1)[m] = IF m = n THEN owned[m] + 0 - 1 ELSE owned[m]
    <2>1. owned[n] \in Nat
      BY DEF Counted, Counts, Counter
    <2>2. QED BY <1>2, <2>1, OwnEffect
  <1>4. heap[n].refcount > 0
    BY OwnedIsLive
  <1>5. ASSUME NEW m \in Node
        PROVE  Count(heap[n].content, m) + Count(<<n>>, m)
                 = Count(heap[n].content, m) + Count(todo, m) + One(n, m)
    <2>1. Count(heap[n].content, m) \in Nat /\ One(n, m) \in Nat
      BY <1>1, HeapCountable, CountType DEF Countable, One
    <2>2. Count(todo, m) = 0 /\ Count(<<n>>, m) = One(n, m)
      BY CountEmpty, CountSingle
    <2>3. QED BY <2>1, <2>2
  <1>6. SameButRefs(heap, heap, n, 0) /\ SameButContent(heap, heap, n, heap[n].content)
    BY <1>1, SameHeap
  <1>7. PICK d \in {0, 1} : d = 0
    OBVIOUS
  <1>8. SameButRefs(heap, heap, n, d)
    BY <1>6, <1>7
  <1>9. \A m \in Node : Own(n, -1)[m] = IF m = n THEN owned[m] + d - 1 ELSE owned[m]
    BY <1>3, <1>7
  <1>10. Passes(owned, Own(n, -1), n, d) /\ Balances(heap[n].content, todo, heap[n].content, <<n>>, n)
    BY <1>3, <1>5, <1>9 DEF Passes, Balances
  <1>11. QED BY <1>2, <1>4, <1>6, <1>8, <1>10, Stored DEF Counted

\* json_decref by the program: its reference becomes one to be given back.
LEMMA DropCounts ==
    ASSUME Counted, Idle, NEW n \in Node, Drop(n)
    PROVE  Counts(heap', owned', lost', todo')
  BY Released DEF Drop, Idle

\* Looking up a member takes a reference to it.
LEMMA TakeCounts ==
    ASSUME Counted, Idle, NEW c \in Node, NEW i, Take(c, i)
    PROVE  Counts(heap', owned', lost', todo')
  <1>1. /\ heap \in Heaps /\ owned \in Counter /\ lost \in Counter /\ todo \in Seq(Value)
        /\ lost' = lost /\ todo' = todo /\ i \in DOMAIN heap[c].content
    BY DEF Counted, Counts, Take, Content
  <1>2. PICK v \in Value : v = heap[c].content[i]
    BY <1>1, HeapCountable
  <1>3. heap' = Ref(heap, v, 1) /\ owned' = Own(v, 1)
    BY <1>2 DEF Take, Content
  <1>4. SameButRefs(heap, heap', v, 1)
    BY <1>1, <1>3, RefEffect
  <1>5. /\ owned' \in Counter
        /\ \A n \in Node : owned'[n] = IF n = v THEN owned[n] + 1 ELSE owned[n]
    BY <1>3, OwnEffect
  <1>6. /\ heap' \in Heaps /\ \A n \in Node \ {c} : heap'[n].content = heap[n].content
        /\ heap'[c].content = heap[c].content
    BY <1>4 DEF SameButRefs
  <1>7. ASSUME NEW n \in Node
        PROVE  /\ heap'[n].refcount - heap[n].refcount =
                    (owned'[n] - owned[n]) + (lost[n] - lost[n])
                    + (Count(todo, n) - Count(todo, n))
                    + (Count(heap'[c].content, n) - Count(heap[c].content, n))
               /\ heap'[n].kind = "free" <=> heap'[n].refcount = 0
    <2>1. /\ heap[n].refcount \in Nat /\ owned[n] \in Nat /\ lost[n] \in Nat
          /\ Count(todo, n) \in Nat
          /\ heap[n].kind = "free" <=> heap[n].refcount = 0
      BY PartsType DEF Counted
    <2>2. PICK x \in Nat : x = Count(heap'[c].content, n) /\ x = Count(heap[c].content, n)
      BY <1>1, <1>6, HeapCountable, CountType DEF Countable
    <2>3. /\ heap'[n].kind = heap[n].kind
          /\ heap'[n].refcount = IF n = v THEN heap[n].refcount + 1 ELSE heap[n].refcount
      BY <1>4 DEF SameButRefs
    <2>4. n = v => heap[n].kind # "free"
      BY <1>1, <1>2, MemberIsLive, NodeIsNotTrue
    <2>5. CASE n = v
      BY <1>5, <2>1, <2>2, <2>3, <2>4, <2>5
    <2>6. CASE n # v
      BY <1>5, <2>1, <2>2, <2>3, <2>6
    <2>7. QED BY <2>5, <2>6
  <1>8. Counts(heap', owned', lost, todo)
    BY <1>1, <1>5, <1>6, <1>7, Balanced DEF Counted
  <1>9. QED BY <1>1, <1>8

\* A new value has one reference, and no member.
LEMMA NewCounts ==
    ASSUME Counted, NEW n \in Free, NEW kind \in {"object", "array", "scalar"}, NEW x,
           x \in IF kind = "scalar" THEN Text ELSE {None}
    PROVE  /\ n \in Node /\ heap[n].kind = "free"
           /\ Counts([heap EXCEPT ![n] = NewNode(kind, x)], Own(n, 1), lost, todo)
           /\ owned[n] = 0 /\ Cardinality(Places(heap, n)) = 0
  <1>1. n \in Node /\ heap[n].kind = "free"
    BY KindOfNode DEF Free
  <1>2. Own(n, 1) = [owned EXCEPT ![n] = @ + 1]
    BY <1>1, NodeIsNotTrue DEF Own
  <1>3. QED BY <1>1, <1>2, Created DEF Counted

\* A scalar has another text.
LEMMA ScalarSetCounts ==
    ASSUME Counted, NEW n \in Node, NEW x \in Text, ScalarSet(n, x)
    PROVE  Counts(heap', owned', lost', todo')
  <1>1. /\ heap \in Heaps /\ owned \in Counter /\ lost \in Counter /\ todo \in Seq(Value)
        /\ owned' = owned /\ lost' = lost /\ todo' = todo
    BY DEF Counted, Counts, ScalarSet
  <1>2. heap[n] \in NodeRecord /\ Shaped(heap[n]) /\ heap[n].kind = "scalar"
    BY <1>1, KindOfNode DEF Heaps, ScalarSet
  <1>3. PICK r : r = [heap[n] EXCEPT !.text = x]
    OBVIOUS
  <1>4. /\ r \in NodeRecord /\ r.kind = heap[n].kind /\ r.content = heap[n].content
        /\ r.refcount = heap[n].refcount /\ r.text = x
    BY <1>2, <1>3 DEF NodeRecord
  <1>5. Shaped(r)
    BY <1>2, <1>4 DEF Shaped
  <1>6. heap' = [heap EXCEPT ![n] = r]
    BY <1>3 DEF ScalarSet
  <1>7. heap' \in Heaps /\ heap'[n] = r /\ \A m \in Node \ {n} : heap'[m] = heap[m]
    BY <1>1, <1>4, <1>5, <1>6 DEF Heaps
  <1>8. \A m \in Node : /\ heap'[m].kind = heap[m].kind /\ heap'[m].content = heap[m].content
                        /\ heap'[m].refcount = heap[m].refcount
    BY <1>4, <1>7
  <1>9. \A m \in Node : Places(heap', m) = Places(heap, m)
    BY <1>8 DEF Places
  <1>10. QED BY <1>1, <1>7, <1>8, <1>9 DEF Counted, Counts, Exact, Refs

\* h is the heap, and o what the program holds, once it has passed v to a call.
Handed(v, h, o) ==
    /\ v \in Value /\ (v = true \/ heap[v].refcount > 0)
    /\ \E d \in {0, 1} : SameButRefs(heap, h, v, d) /\ Passes(owned, o, v, d)

\* Handing a reference to a function changes counts of references only.
LEMMA HandedHeap ==
    ASSUME NEW v, NEW h, NEW o, Handed(v, h, o)
    PROVE  /\ h \in Heaps /\ v \in Value
           /\ \A n \in Node : h[n].kind = heap[n].kind /\ h[n].content = heap[n].content
  BY DEF Handed, SameButRefs

\* What a call does with a value passed to it, with or without a reference.
LEMMA PassingHands ==
    ASSUME Counted, NEW c \in Node, NEW v \in Value, NEW taken \in BOOLEAN,
           Passing(c, v, taken)
    PROVE  Handed(v, Passed(v, taken), owned')
  <1>1. heap \in Heaps /\ owned \in [Node -> Nat]
    BY DEF Counted, Counts, Counter
  <1>2. v = true \/ (v \in Node /\ owned[v] > 0)
    BY DEF Passing, Held, Value
  <1>3. v = true \/ heap[v].refcount > 0
    BY <1>2, OwnedIsLive
  <1>4. CASE taken = TRUE
    <2>1. Passed(v, taken) = heap /\ owned' = Own(v, -1)
      BY <1>4 DEF Passed, Passing
    <2>2. PICK d \in {0, 1} : d = 0
      OBVIOUS
    <2>3. SameButRefs(heap, heap, v, d)
      BY <1>1, <2>2, SameHeap
    <2>4. /\ owned' \in Counter
          /\ \A n \in Node : owned'[n] = IF n = v THEN owned[n] + -1 ELSE owned[n]
      BY <1>2, <2>1, OwnEffect
    <2>5. \A n \in Node : owned[n] + -1 = owned[n] + d - 1
      BY <1>1, <2>2
    <2>6. Passes(owned, owned', v, d)
      BY <2>4, <2>5 DEF Passes
    <2>7. QED BY <1>3, <2>1, <2>3, <2>6 DEF Handed
  <1>5. CASE taken = FALSE
    <2>1. Passed(v, taken) = Ref(heap, v, 1) /\ owned' = owned
      BY <1>5 DEF Passed, Passing
    <2>2. PICK d \in {0, 1} : d = 1
      OBVIOUS
    <2>3. SameButRefs(heap, Ref(heap, v, 1), v, d)
      BY <1>1, <2>2, RefEffect
    <2>4. \A n \in Node : owned[n] = owned[n] + d - 1
      BY <1>1, <2>2
    <2>5. Passes(owned, owned', v, d)
      BY <1>1, <2>1, <2>4 DEF Passes, Counter
    <2>6. QED BY <1>3, <2>1, <2>3, <2>5 DEF Handed
  <1>6. QED BY <1>4, <1>5

\* A reference handed to a function and stored in a container, with those it
\* replaces to be given back, leaves the counts exact.
LEMMA HandedCounts ==
    ASSUME Counted, todo = <<>>, NEW v, NEW h, NEW o, Handed(v, h, o),
           NEW c \in Node, NEW g, NEW f, SameButContent(h, g, c, f),
           NEW t \in Seq(Value), Balances(heap[c].content, <<>>, f, t, v)
    PROVE  Counts(g, o, lost, t)
  <1>1. PICK d \in {0, 1} : SameButRefs(heap, h, v, d) /\ Passes(owned, o, v, d)
    BY DEF Handed
  <1>2. v \in Value /\ (v = true \/ heap[v].refcount > 0)
    BY DEF Handed
  <1>3. Counts(heap, owned, lost, <<>>)
    BY DEF Counted
  <1>4. QED BY <1>1, <1>2, <1>3, Stored

\* A call that gives the value back.
LEMMA GivenBackCounts ==
    ASSUME Counted, todo = <<>>, NEW v, NEW h, Handed(v, h, owned'), NEW c \in Node,
           GivenBack(h, v)
    PROVE  Counts(heap', owned', lost, todo')
  <1>1. v \in Value /\ heap' = h /\ todo' = <<v>>
    BY DEF Handed, GivenBack
  <1>2. h \in Heaps /\ h[c].content = heap[c].content
    BY HandedHeap
  <1>3. SameButContent(h, h, c, h[c].content)
    BY <1>2, SameHeap
  <1>4. ASSUME NEW n \in Node
        PROVE  Count(heap[c].content, n) + Count(<<v>>, n)
                 = Count(heap[c].content, n) + Count(<<>>, n) + One(v, n)
    <2>1. Count(heap[c].content, n) \in Nat /\ One(v, n) \in Nat
      BY HeapCountable, CountType DEF Countable, Counted, Counts, One
    <2>2. Count(<<>>, n) = 0 /\ Count(<<v>>, n) = One(v, n)
      BY CountEmpty, CountSingle
    <2>3. QED BY <2>1, <2>2
  <1>5. Balances(heap[c].content, <<>>, heap[c].content, <<v>>, v)
    BY <1>4 DEF Balances
  <1>6. <<v>> \in Seq(Value)
    BY <1>1
  <1>7. Counts(h, owned', lost, <<v>>)
    BY <1>2, <1>3, <1>5, <1>6, HandedCounts
  <1>8. QED BY <1>1, <1>7

\* A call that stores the value.
LEMMA PutCounts ==
    ASSUME Counted, todo = <<>>, NEW v, NEW h, NEW o, Handed(v, h, o), NEW c \in Node, NEW i,
           heap[c].kind \in {"object", "array"}, heap[c].kind = "object" => i \in Key
    PROVE  Counts(Put(h, c, i, v), o, lost, Replaced(c, i))
  <1>1. /\ h \in Heaps /\ v \in Value /\ h[c].kind = heap[c].kind
        /\ h[c].content = Content(c)
    BY HandedHeap DEF Content
  <1>2. SameButContent(h, Put(h, c, i, v), c, Added(c, i, v))
    BY <1>1, PutEffect
  <1>3. /\ Replaced(c, i) \in Seq(Value)
        /\ \A n \in Node :
             Count(Added(c, i, v), n) + Count(Replaced(c, i), n)
               = Count(heap[c].content, n) + One(v, n)
    BY <1>1, PutBalance
  <1>4. ASSUME NEW n \in Node
        PROVE  Count(heap[c].content, n) + One(v, n)
                 = Count(heap[c].content, n) + Count(<<>>, n) + One(v, n)
    <2>1. Count(heap[c].content, n) \in Nat /\ One(v, n) \in Nat
      BY HeapCountable, CountType DEF Countable, Counted, Counts, One
    <2>2. Count(<<>>, n) = 0
      BY CountEmpty
    <2>3. QED BY <2>1, <2>2
  <1>5. Balances(heap[c].content, <<>>, Added(c, i, v), Replaced(c, i), v)
    BY <1>3, <1>4 DEF Balances
  <1>6. QED BY <1>2, <1>3, <1>5, HandedCounts

\* Setting a member, by whatever function, stores the reference handed over and
\* has the one it replaces given back.
LEMMA SetNewCounts ==
    ASSUME Counted, todo = <<>>, NEW v, NEW h, Handed(v, h, owned'), NEW c \in Node, NEW i,
           heap[c].kind \in {"object", "array"}, heap[c].kind = "object" => i \in Key,
           SetNew(c, i, v, h)
    PROVE  Counts(heap', owned', lost, todo')
  <1>1. CASE GivenBack(h, v)
    BY <1>1, GivenBackCounts
  <1>2. CASE heap' = Put(h, c, i, v) /\ todo' = Replaced(c, i)
    BY <1>2, PutCounts
  <1>3. QED BY <1>1, <1>2 DEF SetNew

\* json_object_set_new, which gives a reference back that it cannot store.
LEMMA ObjectSetNewCounts ==
    ASSUME Counted, Idle, NEW o \in Node, NEW v \in Value, NEW taken \in BOOLEAN,
           NEW k \in Key \cup {BadKey}, ObjectSetNew(o, k, v, taken)
    PROVE  Counts(heap', owned', lost', todo')
  <1>1. PICK h : h = Passed(v, taken)
    OBVIOUS
  <1>2. Handed(v, h, owned') /\ todo = <<>> /\ lost' = lost
    BY <1>1, PassingHands DEF ObjectSetNew, Idle
  <1>3. CASE KindOf(o) = "object" /\ k # BadKey /\ SetNew(o, k, v, h)
    BY <1>2, <1>3, SetNewCounts, KindOfNode
  <1>4. CASE GivenBack(h, v)
    BY <1>2, <1>4, GivenBackCounts
  <1>5. QED BY <1>1, <1>3, <1>4 DEF ObjectSetNew

\* json_array_append_new.
LEMMA ArrayAppendNewCounts ==
    ASSUME Counted, Idle, NEW a \in Node, NEW v \in Value, NEW taken \in BOOLEAN,
           ArrayAppendNew(a, v, taken)
    PROVE  Counts(heap', owned', lost', todo')
  <1>1. PICK h : h = Passed(v, taken)
    OBVIOUS
  <1>2. Handed(v, h, owned') /\ todo = <<>> /\ lost' = lost
    BY <1>1, PassingHands DEF ArrayAppendNew, Idle
  <1>3. CASE KindOf(a) = "array" /\ SetNew(a, Len(Content(a)) + 1, v, h)
    <2>1. PICK i : i = Len(Content(a)) + 1
      OBVIOUS
    <2>2. SetNew(a, i, v, h) /\ heap[a].kind = "array"
      BY <1>3, <2>1, KindOfNode
    <2>3. QED BY <1>2, <2>2, SetNewCounts
  <1>4. CASE GivenBack(h, v)
    BY <1>2, <1>4, GivenBackCounts
  <1>5. QED BY <1>1, <1>3, <1>4 DEF ArrayAppendNew

\* json_array_set_new, which gives the reference back outside of the array.
LEMMA ArraySetNewCounts ==
    ASSUME Counted, Idle, NEW a \in Node, NEW v \in Value, NEW taken \in BOOLEAN, NEW i,
           ArraySetNew(a, i, v, taken)
    PROVE  Counts(heap', owned', lost', todo')
  <1>1. PICK h : h = Passed(v, taken)
    OBVIOUS
  <1>2. Handed(v, h, owned') /\ todo = <<>> /\ lost' = lost
    BY <1>1, PassingHands DEF ArraySetNew, Idle
  <1>3. CASE /\ KindOf(a) = "array" /\ i \in DOMAIN Content(a)
             /\ heap' = [h EXCEPT ![a].content[i] = v] /\ todo' = <<Content(a)[i]>>
    <2>1. PICK s : s = heap[a].content
      OBVIOUS
    <2>2. s \in Seq(Value) /\ h \in Heaps /\ h[a].content = s /\ h[a].kind = "array"
          /\ i \in DOMAIN s
      BY <1>2, <1>3, <2>1, HandedHeap, KindOfNode DEF Counted, Counts, Heaps, Shaped, Content
    <2>3. PICK f : f = [s EXCEPT ![i] = v]
      OBVIOUS
    <2>4. f \in Seq(Value) /\ f = With(s, i, v)
      <3>1. s \in [1 .. Len(s) -> Value] /\ Len(s) \in Nat /\ DOMAIN s = 1 .. Len(s)
        BY <2>2, LenProperties
      <3>2. f = With(s, i, v)
        BY <2>2, <2>3, <3>1 DEF With
      <3>3. f \in Seq(Value)
        BY <2>2, <2>3, <3>1, ExceptSeq
      <3>4. QED BY <3>2, <3>3
    <2>5. heap' = [h EXCEPT ![a].content = f]
      BY <1>3, <2>2, <2>3
    <2>6. SameButContent(h, heap', a, f)
      BY <2>2, <2>4, <2>5, SetContentEffect DEF IsContent
    <2>7. PICK w \in Value : w = s[i]
      BY <2>2, ElementOfSeq, LenProperties
    <2>8. todo' = <<w>> /\ <<w>> \in Seq(Value)
      BY <1>3, <2>1, <2>7 DEF Content
    <2>9. ASSUME NEW n \in Node
          PROVE  Count(f, n) + Count(<<w>>, n) = Count(s, n) + Count(<<>>, n) + One(v, n)
      <3>1. IsFiniteSet(DOMAIN s)
        BY <2>2, SeqFinite
      <3>2. Count(f, n) = Count(s, n) - One(w, n) + One(v, n)
        BY <2>2, <2>4, <2>7, <3>1, CountWith
      <3>3. Count(<<w>>, n) = One(w, n) /\ Count(<<>>, n) = 0
        BY CountSingle, CountEmpty
      <3>4. Count(s, n) \in Nat /\ One(w, n) \in Nat /\ One(v, n) \in Nat
        BY <3>1, CountType DEF One
      <3>5. QED BY <3>2, <3>3, <3>4
    <2>10. Balances(heap[a].content, <<>>, f, <<w>>, v)
      BY <2>1, <2>9 DEF Balances
    <2>11. QED BY <1>2, <2>6, <2>8, <2>10, HandedCounts
  <1>4. CASE GivenBack(h, v)
    BY <1>2, <1>4, GivenBackCounts
  <1>5. QED BY <1>1, <1>3, <1>4 DEF ArraySetNew

\* json_array_insert_new, which gives the reference back beyond the end.
LEMMA ArrayInsertNewCounts ==
    ASSUME Counted, Idle, NEW a \in Node, NEW v \in Value, NEW taken \in BOOLEAN, NEW i,
           ArrayInsertNew(a, i, v, taken)
    PROVE  Counts(heap', owned', lost', todo')
  <1>1. PICK h : h = Passed(v, taken)
    OBVIOUS
  <1>2. Handed(v, h, owned') /\ todo = <<>> /\ lost' = lost
    BY <1>1, PassingHands DEF ArrayInsertNew, Idle
  <1>3. CASE /\ KindOf(a) = "array" /\ i \in 1 .. Len(Content(a)) + 1
             /\ heap' = [Grown(h, a, 1) EXCEPT ![a].content = InsertAt(@, i, v)]
             /\ todo' = todo
    <2>1. PICK s : s = heap[a].content
      OBVIOUS
    <2>2. s \in Seq(Value) /\ h \in Heaps /\ h[a].content = s /\ h[a].kind = "array"
          /\ i \in 1 .. Len(s) + 1
      BY <1>2, <1>3, <2>1, HandedHeap, KindOfNode DEF Counted, Counts, Heaps, Shaped, Content
    <2>3. PICK g : g = Grown(h, a, 1)
      OBVIOUS
    <2>4. /\ g \in Heaps
          /\ \A n \in Node : /\ g[n].kind = h[n].kind /\ g[n].content = h[n].content
                             /\ g[n].text = h[n].text /\ g[n].refcount = h[n].refcount
      <3>1. h \in Heaps
        BY <2>2
      <3>2. PICK k \in Nat : k = 1
        OBVIOUS
      <3>3. g = Grown(h, a, k)
        BY <2>3, <3>2
      <3>4. QED BY <3>1, <3>3, GrownEffect
    <2>5. PICK f : f = InsertAt(s, i, v)
      OBVIOUS
    <2>6. f \in Seq(Value) /\ \A n : Count(f, n) = Count(s, n) + One(v, n)
      BY <2>2, <2>5, InsertType, CountInsert
    <2>7. heap' = [g EXCEPT ![a].content = f]
      BY <1>3, <2>2, <2>3, <2>4, <2>5
    <2>8. SameButContent(g, heap', a, f)
      BY <2>2, <2>4, <2>6, <2>7, SetContentEffect DEF IsContent
    <2>9. SameButContent(h, heap', a, f)
      BY <2>4, <2>8 DEF SameButContent
    <2>10. ASSUME NEW n \in Node
           PROVE  Count(f, n) + Count(<<>>, n) = Count(s, n) + Count(<<>>, n) + One(v, n)
      <3>1. Count(s, n) \in Nat /\ One(v, n) \in Nat /\ Count(<<>>, n) = 0
        BY <2>2, SeqFinite, CountType, CountEmpty DEF One
      <3>2. QED BY <2>6, <3>1
    <2>11. Balances(heap[a].content, <<>>, f, <<>>, v)
      BY <2>1, <2>10 DEF Balances
    <2>12. Counts(heap', owned', lost, <<>>)
      BY <1>2, <2>9, <2>11, HandedCounts, EmptyContent
    <2>13. QED BY <1>2, <1>3, <2>12
  <1>4. CASE GivenBack(h, v)
    BY <1>2, <1>4, GivenBackCounts
  <1>5. QED BY <1>1, <1>3, <1>4 DEF ArrayInsertNew

\* json_object_iter_set_new, whose reference is lost when there is no iterator:
\* the loss is counted.
LEMMA IterSetNewCounts ==
    ASSUME Counted, Idle, NEW o \in Node, NEW v \in Value, NEW taken \in BOOLEAN,
           NEW k \in Key, IterSetNew(o, k, v, taken)
    PROVE  Counts(heap', owned', lost', todo')
  <1>1. PICK h : h = Passed(v, taken)
    OBVIOUS
  <1>2. Handed(v, h, owned') /\ todo = <<>>
    BY <1>1, PassingHands DEF IterSetNew, Idle
  <1>3. CASE /\ KindOf(o) = "object" /\ heap' = Put(h, o, k, v)
             /\ todo' = Replaced(o, k) /\ lost' = lost
    BY <1>2, <1>3, PutCounts, KindOfNode
  <1>4. CASE /\ v # true /\ \A n \in Node : lost[n] = 0
             /\ heap' = h /\ lost' = [lost EXCEPT ![v] = 1] /\ todo' = todo
    <2>1. heap \in Heaps /\ owned \in Counter /\ lost \in [Node -> Nat] /\ v \in Node
      BY <1>4 DEF Counted, Counts, Counter, Value
    <2>2. PICK d \in {0, 1} : SameButRefs(heap, h, v, d) /\ Passes(owned, owned', v, d)
      BY <1>2 DEF Handed
    <2>3. lost' \in Counter /\ \A n \in Node : lost'[n] = lost[n] + One(v, n)
      <3>1. lost' \in Counter
        BY <1>4, <2>1 DEF Counter
      <3>2. ASSUME NEW n \in Node PROVE lost'[n] = lost[n] + One(v, n)
        BY <1>4, <2>1 DEF One
      <3>3. QED BY <3>1, <3>2
    <2>4. /\ h \in Heaps /\ owned' \in Counter
          /\ \A n \in Node \ {o} : h[n].content = heap[n].content
          /\ h[o].content = heap[o].content
      BY <2>2 DEF SameButRefs, Passes
    <2>5. ASSUME NEW n \in Node
          PROVE  /\ h[n].refcount - heap[n].refcount =
                      (owned'[n] - owned[n]) + (lost'[n] - lost[n])
                      + (Count(todo, n) - Count(todo, n))
                      + (Count(h[o].content, n) - Count(heap[o].content, n))
                 /\ h[n].kind = "free" <=> h[n].refcount = 0
      <3>1. /\ heap[n].refcount \in Nat /\ owned[n] \in Nat /\ lost[n] \in Nat
            /\ Count(todo, n) \in Nat
            /\ heap[n].kind = "free" <=> heap[n].refcount = 0
        BY PartsType DEF Counted
      <3>2. PICK x \in Nat : x = Count(h[o].content, n) /\ x = Count(heap[o].content, n)
        BY <2>1, <2>4, HeapCountable, CountType DEF Countable
      <3>3. /\ h[n].kind = heap[n].kind
            /\ h[n].refcount = IF n = v THEN heap[n].refcount + d ELSE heap[n].refcount
            /\ owned'[n] = IF n = v THEN owned[n] + d - 1 ELSE owned[n]
        BY <2>2 DEF SameButRefs, Passes
      <3>4. CASE n = v
        <4>1. heap[n].refcount > 0
          BY <1>2, <1>4, <3>4 DEF Handed
        <4>2. lost'[n] = lost[n] + 1
          BY <2>3, <3>4 DEF One
        <4>3. h[n].refcount = heap[n].refcount + d /\ owned'[n] = owned[n] + d - 1
          BY <3>3, <3>4
        <4>4. QED BY <3>1, <3>2, <3>3, <4>1, <4>2, <4>3
      <3>5. CASE n # v
        <4>1. lost'[n] = lost[n]
          BY <2>3, <3>1, <3>5 DEF One
        <4>2. QED BY <3>1, <3>2, <3>3, <3>5, <4>1
      <3>6. QED BY <3>4, <3>5
    <2>6. Counts(h, owned', lost', todo)
      <3>1. Counts(heap, owned, lost, todo) /\ todo \in Seq(Value)
        BY DEF Counted, Counts
      <3>2. QED BY <2>3, <2>4, <2>5, <3>1, Balanced
    <2>7. QED BY <1>4, <2>6
  <1>5. QED BY <1>1, <1>3, <1>4 DEF IterSetNew

\* What leaves a container is to be released, and the counts stay as they are.
LEMMA TakenOut ==
    ASSUME Counted, todo = <<>>, NEW c \in Node, NEW g, NEW f,
           SameButContent(heap, g, c, f), NEW t \in Seq(Value),
           \A n \in Node : Count(heap[c].content, n) = Count(f, n) + Count(t, n)
    PROVE  Counts(g, owned, lost, t)
  <1>1. heap \in Heaps
    BY DEF Counted, Counts
  <1>2. PICK v : v = true
    OBVIOUS
  <1>3. PICK d \in {0, 1} : d = 0
    OBVIOUS
  <1>4. SameButRefs(heap, heap, v, d) /\ v \in Value
    BY <1>1, <1>2, <1>3, SameHeap DEF Value
  <1>5. Passes(owned, owned, v, d)
    BY <1>2, NodeIsNotTrue DEF Passes, Counted, Counts
  <1>6. ASSUME NEW n \in Node
        PROVE  Count(f, n) + Count(t, n)
                 = Count(heap[c].content, n) + Count(<<>>, n) + One(v, n)
    <2>1. Count(heap[c].content, n) \in Nat
      BY <1>1, HeapCountable, CountType DEF Countable
    <2>2. Count(<<>>, n) = 0 /\ One(v, n) = 0
      BY <1>2, CountEmpty, NodeIsNotTrue DEF One
    <2>3. QED BY <2>1, <2>2
  <1>7. Balances(heap[c].content, <<>>, f, t, v)
    BY <1>6 DEF Balances
  <1>8. Handed(v, heap, owned)
    BY <1>2, <1>4, <1>5 DEF Handed
  <1>9. QED BY <1>7, <1>8, HandedCounts

\* A member is taken out of a container.
LEMMA RemoveMemberCounts ==
    ASSUME Counted, Idle, NEW c \in Node, NEW i, RemoveMember(c, i)
    PROVE  Counts(heap', owned', lost', todo')
  <1>1. /\ heap \in Heaps /\ todo = <<>> /\ owned' = owned /\ lost' = lost
        /\ heap \in [Node -> NodeRecord]
    BY DEF Counted, Counts, Heaps, Idle, RemoveMember
  <1>2. PICK s : s = heap[c].content
    OBVIOUS
  <1>3. i \in DOMAIN s /\ IsFiniteSet(DOMAIN s) /\ \A j \in DOMAIN s : s[j] \in Value
    BY <1>1, <1>2, HeapCountable DEF RemoveMember, Content, Countable
  <1>4. PICK w \in Value : w = s[i]
    BY <1>3
  <1>5. todo' = <<w>> /\ <<w>> \in Seq(Value)
    BY <1>2, <1>4 DEF RemoveMember, Content
  <1>6. \A n : Count(<<w>>, n) = One(w, n)
    BY CountSingle
  <1>7. heap[c].kind \in {"object", "array"}
    BY <1>1, <1>2, <1>3, EmptyContent DEF Heaps, Shaped
  <1>8. CASE heap[c].kind = "array"
    <2>1. s \in Seq(Value) /\ i \in 1 .. Len(s)
      BY <1>1, <1>2, <1>3, <1>8, LenProperties DEF Heaps, Shaped
    <2>2. PICK f : f = RemoveAt(s, i)
      OBVIOUS
    <2>3. f \in Seq(Value) /\ \A n : Count(s, n) = Count(f, n) + One(w, n)
      BY <1>4, <2>1, <2>2, RemoveType, CountRemove
    <2>4. heap' = [heap EXCEPT ![c].content = f]
      BY <1>1, <1>2, <1>8, <2>2, KindOfNode DEF RemoveMember
    <2>5. SameButContent(heap, heap', c, f)
      BY <1>1, <1>8, <2>3, <2>4, SetContentEffect DEF IsContent
    <2>6. Counts(heap', owned, lost, <<w>>)
      BY <1>1, <1>2, <1>5, <1>6, <2>3, <2>5, TakenOut
    <2>7. QED BY <1>1, <1>5, <2>6
  <1>9. CASE heap[c].kind = "object"
    <2>1. s \in Dict
      BY <1>1, <1>2, <1>9 DEF Heaps, Shaped
    <2>2. PICK f : f = Without(s, i)
      OBVIOUS
    <2>3. \A n : Count(s, n) = Count(f, n) + One(w, n)
      BY <1>3, <1>4, <2>2, CountWithout
    <2>4. f \in Dict
      <3>1. s \in [DOMAIN s -> Value] /\ DOMAIN s \subseteq Key
        BY <2>1, DictType
      <3>2. f \in [DOMAIN s \ {i} -> Value]
        BY <2>2, <3>1 DEF Without
      <3>3. QED BY <3>1, <3>2 DEF Dict
    <2>5. heap' = [heap EXCEPT ![c].content = f]
      <3>1. heap' = [heap EXCEPT ![c].content = [k \in DOMAIN heap[c].content \ {i} |-> heap[c].content[k]]]
        BY <1>1, <1>9, KindOfNode DEF RemoveMember
      <3>2. QED BY <1>2, <2>2, <3>1 DEF Without
    <2>6. SameButContent(heap, heap', c, f)
      BY <1>1, <1>9, <2>4, <2>5, SetContentEffect DEF IsContent
    <2>7. Counts(heap', owned, lost, <<w>>)
      BY <1>1, <1>2, <1>5, <1>6, <2>3, <2>6, TakenOut
    <2>8. QED BY <1>1, <1>5, <2>7
  <1>10. QED BY <1>7, <1>8, <1>9

\* All members are taken out of a container.
LEMMA ClearCounts ==
    ASSUME Counted, Idle, NEW c \in Node, Clear(c)
    PROVE  Counts(heap', owned', lost', todo')
  <1>1. /\ heap \in Heaps /\ todo = <<>> /\ owned' = owned /\ lost' = lost
        /\ heap' = [heap EXCEPT ![c].content = <<>>] /\ todo' = MembersSeq(c)
    BY DEF Counted, Counts, Idle, Clear
  <1>2. heap[c].kind \in {"object", "array"}
    BY KindOfNode DEF Clear, Containers
  <1>3. PICK e : e = <<>>
    OBVIOUS
  <1>4. SameButContent(heap, heap', c, e)
    <2>1. e \in Seq(Value) /\ e \in Dict
      BY <1>3, EmptyContent
    <2>2. heap' = [heap EXCEPT ![c].content = e]
      BY <1>1, <1>3
    <2>3. IsContent(heap[c].kind, e)
      BY <1>2, <2>1 DEF IsContent
    <2>4. QED BY <1>1, <2>2, <2>3, SetContentEffect, ZenonT(60)
  <1>5. /\ MembersSeq(c) \in Seq(Value)
        /\ \A n : Count(MembersSeq(c), n) = Count(heap[c].content, n)
    <2>1. IsFiniteSet(DOMAIN Content(c)) /\ \A i \in DOMAIN Content(c) : Content(c)[i] \in Value
      BY <1>1, HeapCountable DEF Content, Countable
    <2>2. /\ MembersSeq(c) \in Seq(Value)
          /\ \A n : Count(MembersSeq(c), n) = Count(Content(c), n)
      BY <2>1, CountMembersSeq
    <2>3. QED BY <2>2 DEF Content
  <1>6. ASSUME NEW n \in Node
        PROVE  Count(heap[c].content, n) = Count(e, n) + Count(MembersSeq(c), n)
    <2>1. Count(heap[c].content, n) \in Nat
      BY <1>1, HeapCountable, CountType DEF Countable
    <2>2. Count(e, n) = 0
      BY <1>3, CountEmpty
    <2>3. QED BY <1>5, <2>1, <2>2
  <1>7. Counts(heap', owned, lost, MembersSeq(c))
    BY <1>1, <1>4, <1>5, <1>6, TakenOut
  <1>8. QED BY <1>1, <1>7

\* A whole array is added to an array, which may be the same one.
LEMMA ArrayExtendCounts ==
    ASSUME Counted, Idle, NEW a \in Node, NEW b \in Node, ArrayExtend(a, b)
    PROVE  Counts(heap', owned', lost', todo')
  <1>1. /\ heap \in Heaps /\ owned \in Counter /\ lost \in Counter /\ todo \in Seq(Value)
        /\ owned' = owned /\ lost' = lost /\ todo' = todo
        /\ heap[a].kind = "array" /\ heap[b].kind = "array"
    BY KindOfNode DEF Counted, Counts, ArrayExtend
  <1>2. PICK s : s = heap[b].content
    OBVIOUS
  <1>3. PICK r : r = heap[a].content
    OBVIOUS
  <1>4. s \in Seq(Value) /\ r \in Seq(Value)
    BY <1>1, <1>2, <1>3 DEF Heaps, Shaped
  <1>5. ASSUME NEW n \in Node
        PROVE  Count(s, n) \in Nat /\ Count(r, n) \in Nat /\ Count(r \o s, n) = Count(r, n) + Count(s, n)
    BY <1>4, SeqFinite, CountType, CountConcat
  <1>6. PICK h : h = RefAll(heap, s)
    OBVIOUS
  <1>7. ASSUME NEW n \in Node
        PROVE  /\ h[n] \in NodeRecord /\ Shaped(h[n])
               /\ h[n].kind = heap[n].kind /\ h[n].content = heap[n].content
               /\ h[n].refcount = heap[n].refcount + Count(s, n)
    <2>1. heap[n] \in NodeRecord /\ Shaped(heap[n])
      BY <1>1 DEF Heaps
    <2>2. PICK x \in Nat : x = Count(s, n)
      BY <1>5
    <2>3. PICK q : q = [heap[n] EXCEPT !.refcount = heap[n].refcount + x]
      OBVIOUS
    <2>4. h[n] = q
      BY <1>6, <2>2, <2>3 DEF RefAll, Count, In
    <2>5. /\ q \in NodeRecord /\ q.kind = heap[n].kind /\ q.content = heap[n].content
          /\ q.text = heap[n].text /\ q.refcount = heap[n].refcount + x
      BY <2>1, <2>3 DEF NodeRecord
    <2>6. Shaped(q)
      BY <2>1, <2>5 DEF Shaped
    <2>7. QED BY <2>2, <2>4, <2>5, <2>6
  <1>8. h \in Heaps
    <2>1. h = [n \in Node |-> h[n]]
      BY <1>6 DEF RefAll
    <2>2. QED BY <1>7, <2>1 DEF Heaps
  <1>9. PICK k \in Nat : k = Len(s)
    BY <1>4
  <1>10. PICK g : g = Grown(h, a, k)
    OBVIOUS
  <1>11. /\ g \in Heaps
         /\ \A n \in Node : /\ g[n].kind = h[n].kind /\ g[n].content = h[n].content
                            /\ g[n].text = h[n].text /\ g[n].refcount = h[n].refcount
    BY <1>8, <1>10, GrownEffect
  <1>12. PICK f : f = r \o s
    OBVIOUS
  <1>13. f \in Seq(Value)
    BY <1>4, <1>12
  <1>14. heap' = [g EXCEPT ![a].content = f]
    <2>1. g[a].content = r
      BY <1>3, <1>7, <1>11
    <2>2. heap' = [Grown(RefAll(heap, s), a, Len(s)) EXCEPT ![a].content = @ \o s]
      BY <1>2 DEF ArrayExtend, Content
    <2>3. QED BY <1>6, <1>9, <1>10, <1>12, <2>1, <2>2
  <1>15. SameButContent(g, heap', a, f)
    <2>1. IsContent(g[a].kind, f)
      BY <1>1, <1>7, <1>11, <1>13 DEF IsContent
    <2>2. QED BY <1>11, <1>14, <2>1, SetContentEffect
  <1>16. /\ heap' \in Heaps /\ heap'[a].content = f
         /\ \A n \in Node \ {a} : heap'[n].content = heap[n].content
         /\ \A n \in Node : /\ heap'[n].kind = heap[n].kind
                            /\ heap'[n].refcount = heap[n].refcount + Count(s, n)
    BY <1>7, <1>11, <1>15 DEF SameButContent
  <1>17. ASSUME NEW n \in Node
         PROVE  /\ heap'[n].refcount - heap[n].refcount =
                     (owned[n] - owned[n]) + (lost[n] - lost[n])
                     + (Count(todo, n) - Count(todo, n))
                     + (Count(heap'[a].content, n) - Count(heap[a].content, n))
                /\ heap'[n].kind = "free" <=> heap'[n].refcount = 0
    <2>1. /\ heap[n].refcount \in Nat /\ owned[n] \in Nat /\ lost[n] \in Nat
          /\ Count(todo, n) \in Nat /\ Cardinality(Places(heap, n)) \in Nat
          /\ heap[n].refcount =
               owned[n] + lost[n] + Count(todo, n) + Cardinality(Places(heap, n))
          /\ heap[n].kind = "free" <=> heap[n].refcount = 0
      BY PartsType DEF Counted
    <2>2. Count(s, n) <= Cardinality(Places(heap, n))
      BY <1>1, <1>2, HeapCountable, PlacesChange
    <2>3. PICK x \in Nat, y \in Nat : x = Count(s, n) /\ y = Count(r, n) /\ Count(f, n) = y + x
      BY <1>5, <1>12
    <2>4. heap'[n].refcount = heap[n].refcount + x
      BY <1>16, <2>3
    <2>5. heap[n].refcount >= x
      <3>1. PICK p \in Nat : p = Cardinality(Places(heap, n)) /\ x <= p
        BY <2>1, <2>2, <2>3
      <3>2. QED BY <2>1, <3>1
    <2>6. heap'[n].kind = "free" <=> heap'[n].refcount = 0
      BY <1>16, <2>1, <2>4, <2>5
    <2>7. heap'[n].refcount - heap[n].refcount = (y + x) - y
      BY <2>1, <2>4
    <2>8. QED BY <1>3, <1>16, <2>1, <2>3, <2>6, <2>7
  <1>18. Counts(heap', owned, lost, todo)
    BY <1>1, <1>16, <1>17, Balanced DEF Counted
  <1>19. QED BY <1>1, <1>18

\* Whatever the program holds is an object, an array or a scalar.
LEMMA OwnedKind ==
    ASSUME Counted, NEW n \in Node, owned[n] > 0
    PROVE  /\ heap[n].kind \in {"object", "array", "scalar"}
           /\ heap[n].text \in IF heap[n].kind = "scalar" THEN Text ELSE {None}
  <1>1. heap[n] \in NodeRecord /\ Shaped(heap[n])
    BY DEF Counted, Counts, Heaps
  <1>2. heap[n].kind # "free" /\ heap[n].kind \in Kind
    BY <1>1, OwnedIsLive DEF NodeRecord
  <1>3. QED BY <1>1, <1>2 DEF Kind, Shaped

\* Copies begin with an empty container.
LEMMA CopyCounts ==
    ASSUME Counted, Idle, NEW a \in Node, NEW b \in Free, BeginCopy(a, b) \/ BeginDeepCopy(a, b)
    PROVE  Counts(heap', owned', lost', todo')
  <1>1. owned[a] > 0 /\ lost' = lost /\ todo' = todo /\ owned' = Own(b, 1)
    BY DEF BeginCopy, BeginDeepCopy
  <1>2. PICK kind : kind = heap[a].kind
    OBVIOUS
  <1>3. /\ kind \in {"object", "array", "scalar"} /\ KindOf(a) = kind
        /\ heap[a].text \in IF kind = "scalar" THEN Text ELSE {None}
    BY <1>1, <1>2, OwnedKind, KindOfNode
  <1>4. CASE BeginCopy(a, b)
    <2>1. heap' = [heap EXCEPT ![b] = NewNode(kind, heap[a].text)]
      BY <1>3, <1>4 DEF BeginCopy
    <2>2. QED BY <1>1, <1>3, <2>1, NewCounts
  <1>5. CASE BeginDeepCopy(a, b)
    <2>1. heap' = [heap EXCEPT ![b] = NewNode(kind, None)] /\ kind \in {"object", "array"}
      BY <1>3, <1>5 DEF BeginDeepCopy, Containers
    <2>2. None \in IF kind = "scalar" THEN Text ELSE {None}
      BY <2>1
    <2>3. QED BY <1>1, <1>3, <2>1, <2>2, NewCounts
  <1>6. QED BY <1>4, <1>5

\* A member is live, and a call may hand it on with a new reference.
LEMMA MemberHanded ==
    ASSUME Counted, NEW c \in Node, NEW i \in DOMAIN heap[c].content, NEW v,
           v = heap[c].content[i]
    PROVE  Handed(v, Ref(heap, v, 1), owned)
  <1>1. heap \in Heaps /\ owned \in [Node -> Nat] /\ owned \in Counter
    BY DEF Counted, Counts, Counter
  <1>2. v \in Value
    BY <1>1, HeapCountable
  <1>3. v = true \/ heap[v].refcount > 0
    <2>1. CASE v # true
      <3>1. v \in Node /\ heap[v].refcount >= owned[v] + 1
        BY <2>1, MemberIsLive
      <3>2. owned[v] \in Nat /\ heap[v].refcount \in Nat
        BY <1>1, <3>1, PartsType DEF Counted
      <3>3. QED BY <3>1, <3>2
    <2>2. QED BY <2>1
  <1>4. PICK d \in {0, 1} : d = 1
    OBVIOUS
  <1>5. SameButRefs(heap, Ref(heap, v, 1), v, d)
    BY <1>1, <1>2, <1>4, RefEffect
  <1>6. \A n \in Node : owned[n] = owned[n] + d - 1
    BY <1>1, <1>4
  <1>7. Passes(owned, owned, v, d)
    BY <1>1, <1>6 DEF Passes
  <1>8. QED BY <1>2, <1>3, <1>4, <1>5, <1>7 DEF Handed

\* A container has members, and the keys of an object are keys.
LEMMA HasMembers ==
    ASSUME NEW h \in Heaps, NEW c \in Node, NEW i \in DOMAIN h[c].content
    PROVE  /\ h[c].kind \in {"object", "array"}
           /\ h[c].kind = "object" => i \in Key
           /\ h[c].kind = "array" => i \in Nat
           /\ i \in Index
  <1>1. Shaped(h[c])
    BY DEF Heaps
  <1>2. h[c].kind \in {"object", "array"}
    BY <1>1, EmptyContent DEF Shaped
  <1>3. h[c].kind = "object" => i \in Key
    BY <1>1, DictType DEF Shaped
  <1>4. h[c].kind = "array" => i \in Nat
    BY <1>1, SeqFinite DEF Shaped
  <1>5. QED BY <1>2, <1>3, <1>4 DEF Index

\* A loop adds a member, passes over one, or ends.
LEMMA LoopCounts ==
    ASSUME Counted, LoopInv, LoopStep \/ LoopEnd
    PROVE  Counts(heap', owned', lost', todo')
  <1>1. /\ heap \in Heaps /\ todo = <<>> /\ owned' = owned /\ lost' = lost
        /\ loop \in Loop /\ heap[loop.to].kind = heap[loop.from].kind
        /\ loop.rest \subseteq DOMAIN heap[loop.from].content
    BY DEF Counted, Counts, LoopStep, LoopEnd, LoopInv
  <1>2. loop.to \in Node /\ loop.from \in Node
    BY <1>1 DEF Loop
  <1>3. CASE heap' = heap /\ todo' = todo
    BY <1>1, <1>3 DEF Counted
  <1>4. ASSUME NEW i \in loop.rest, NEW v, v = heap[loop.from].content[i],
               heap' = Put(Ref(heap, v, 1), loop.to, i, v), todo' = Replaced(loop.to, i)
        PROVE  Counts(heap', owned', lost', todo')
    <2>1. Handed(v, Ref(heap, v, 1), owned)
      BY <1>1, <1>2, <1>4, MemberHanded
    <2>2. /\ heap[loop.to].kind \in {"object", "array"}
          /\ heap[loop.to].kind = "object" => i \in Key
      BY <1>1, <1>2, HasMembers
    <2>3. QED BY <1>1, <1>2, <1>4, <2>1, <2>2, PutCounts
  <1>5. QED BY <1>3, <1>4 DEF LoopStep, LoopEnd, Content

\* The innermost call of json_deep_copy, and those around it.
LEMMA Innermost ==
    ASSUME NEW S, NEW s \in Seq(S), s # <<>>
    PROVE  /\ Len(s) \in Nat /\ Len(s) >= 1 /\ Len(s) \in DOMAIN s /\ Last(s) = s[Len(s)]
           /\ Last(s) \in S /\ DOMAIN s = 1 .. Len(s)
           /\ Front(s) \in Seq(S) /\ Len(Front(s)) = Len(s) - 1
           /\ DOMAIN Front(s) = 1 .. Len(s) - 1
           /\ \A j \in 1 .. Len(s) - 1 : Front(s)[j] = s[j]
           /\ Front(s) # <<>> =>
                Len(s) - 1 \in DOMAIN s /\ Last(Front(s)) = s[Len(s) - 1]
  <1>1. PICK m \in Nat : m = Len(s)
    BY LenProperties
  <1>2. DOMAIN s = 1 .. m /\ m >= 1 /\ m \in DOMAIN s
    BY <1>1, LenProperties, EmptySeq
  <1>3. PICK k \in Nat : k = m - 1
    BY <1>2
  <1>4. Front(s) = SubSeq(s, 1, k)
    BY <1>1, <1>3 DEF Front
  <1>5. /\ Front(s) \in Seq(S) /\ Len(Front(s)) = k
        /\ \A j \in 1 .. k : Front(s)[j] = s[j]
    BY <1>1, <1>3, <1>4
  <1>6. Front(s) # <<>> => k \in 1 .. m /\ Last(Front(s)) = s[k]
    BY <1>1, <1>3, <1>5, EmptySeq DEF Last
  <1>7. DOMAIN Front(s) = 1 .. k
    BY <1>5, LenProperties
  <1>8. Last(s) = s[m] /\ s[m] \in S
    BY <1>1, <1>2, ElementOfSeq DEF Last
  <1>9. QED BY <1>1, <1>2, <1>3, <1>5, <1>6, <1>7, <1>8

\* The value true is passed on without a reference.
LEMMA TrueHanded == ASSUME Counted PROVE Handed(true, heap, owned)
  <1>1. heap \in Heaps /\ owned \in [Node -> Nat] /\ owned \in Counter
    BY DEF Counted, Counts, Counter
  <1>2. PICK d \in {0, 1} : d = 0
    OBVIOUS
  <1>3. SameButRefs(heap, heap, true, d)
    BY <1>1, <1>2, SameHeap
  <1>4. Passes(owned, owned, true, d)
    BY <1>1, NodeIsNotTrue DEF Passes
  <1>5. QED BY <1>3, <1>4 DEF Handed, Value

\* A reference the program, or a call, holds is passed on.
LEMMA OwnHanded ==
    ASSUME Counted, NEW n \in Node, owned[n] > 0
    PROVE  Handed(n, heap, Own(n, -1))
  <1>1. heap \in Heaps /\ owned \in [Node -> Nat] /\ n \in Value
    BY DEF Counted, Counts, Counter, Value
  <1>2. PICK d \in {0, 1} : d = 0
    OBVIOUS
  <1>3. SameButRefs(heap, heap, n, d)
    BY <1>1, <1>2, SameHeap
  <1>4. /\ Own(n, -1) \in Counter
        /\ \A m \in Node : Own(n, -1)[m] = IF m = n THEN owned[m] + -1 ELSE owned[m]
    BY <1>1, OwnEffect
  <1>5. \A m \in Node : owned[m] + -1 = owned[m] + d - 1
    BY <1>1, <1>2
  <1>6. Passes(owned, Own(n, -1), n, d)
    BY <1>4, <1>5 DEF Passes
  <1>7. heap[n].refcount > 0
    BY OwnedIsLive
  <1>8. QED BY <1>1, <1>3, <1>6, <1>7 DEF Handed

\* A new scalar is stored at once, with the only reference to it.
LEMMA NewMemberCounts ==
    ASSUME Counted, todo = <<>>, NEW c \in Node, NEW i, NEW n \in Free, NEW x \in Text,
           heap[c].kind \in {"object", "array"}, heap[c].kind = "object" => i \in Key,
           NEW h, h = [heap EXCEPT ![n] = NewNode("scalar", x)]
    PROVE  /\ SameButContent(h, Put(h, c, i, n), c, Added(c, i, n))
           /\ Counts(Put(h, c, i, n), owned, lost, Replaced(c, i))
  <1>1. PICK o : o = Own(n, 1)
    OBVIOUS
  <1>2. n \in Node /\ heap[n].kind = "free" /\ Counts(h, o, lost, todo)
    <2>1. PICK kind : kind = "scalar"
      OBVIOUS
    <2>2. kind \in {"object", "array", "scalar"} /\ x \in IF kind = "scalar" THEN Text ELSE {None}
      BY <2>1
    <2>3. h = [heap EXCEPT ![n] = NewNode(kind, x)]
      BY <2>1
    <2>4. /\ n \in Node /\ heap[n].kind = "free"
          /\ Counts([heap EXCEPT ![n] = NewNode(kind, x)], Own(n, 1), lost, todo)
      BY <2>2, NewCounts
    <2>5. QED BY <1>1, <2>3, <2>4
  <1>3. heap \in [Node -> NodeRecord] /\ h \in Heaps /\ owned \in [Node -> Nat] /\ owned \in Counter
    BY <1>2 DEF Counted, Counts, Counter, Heaps
  <1>4. c # n
    BY <1>2
  <1>5. h[c] = heap[c] /\ h[n].refcount = 1
    <2>1. h[n] = NewNode("scalar", x) /\ h[c] = heap[c]
      BY <1>2, <1>3, <1>4
    <2>2. QED BY <2>1, NewNodeType DEF NewNode
  <1>6. SameButContent(h, Put(h, c, i, n), c, Added(c, i, n))
    <2>1. h[c].kind = heap[c].kind /\ h[c].content = Content(c)
      BY <1>5 DEF Content
    <2>2. n \in Value
      BY <1>2 DEF Value
    <2>3. QED BY <1>3, <2>1, <2>2, PutEffect
  <1>7. PICK d \in {0, 1} : d = 0
    OBVIOUS
  <1>8. SameButRefs(h, h, n, d)
    BY <1>3, <1>7, SameHeap
  <1>9. Passes(o, owned, n, d)
    <2>1. \A m \in Node : o[m] = IF m = n THEN owned[m] + 1 ELSE owned[m]
      BY <1>1, <1>2, OwnEffect DEF Value
    <2>2. \A m \in Node : owned[m] = IF m = n THEN o[m] + d - 1 ELSE o[m]
      BY <1>3, <1>7, <2>1
    <2>3. QED BY <1>3, <2>2 DEF Passes
  <1>10. n \in Value
    BY <1>2 DEF Value
  <1>11. /\ Replaced(c, i) \in Seq(Value)
         /\ \A m \in Node :
              Count(Added(c, i, n), m) + Count(Replaced(c, i), m)
                = Count(heap[c].content, m) + One(n, m)
    BY <1>10, PutBalance
  <1>12. ASSUME NEW m \in Node
         PROVE  Count(heap[c].content, m) + One(n, m)
                  = Count(h[c].content, m) + Count(todo, m) + One(n, m)
    <2>1. Count(heap[c].content, m) \in Nat /\ One(n, m) \in Nat
      BY HeapCountable, CountType DEF Countable, Counted, Counts, One
    <2>2. Count(todo, m) = 0
      BY CountEmpty
    <2>3. QED BY <1>5, <2>1, <2>2
  <1>13. Balances(h[c].content, todo, Added(c, i, n), Replaced(c, i), n)
    BY <1>11, <1>12 DEF Balances
  <1>14. h[n].refcount > 0
    BY <1>5
  <1>15. Counts(Put(h, c, i, n), owned, lost, Replaced(c, i))
    <2>1. PICK g, f, t : g = Put(h, c, i, n) /\ f = Added(c, i, n) /\ t = Replaced(c, i)
      OBVIOUS
    <2>2. SameButContent(h, g, c, f) /\ t \in Seq(Value) /\ Balances(h[c].content, todo, f, t, n)
      BY <1>6, <1>11, <1>13, <2>1
    <2>3. Counts(h, o, lost, todo)
      BY <1>2
    <2>4. Counts(g, owned, lost, t)
      BY ONLY <1>8, <1>9, <1>10, <1>14, <2>2, <2>3, c \in Node, d \in {0, 1}, Stored
    <2>5. QED BY <2>1, <2>4
  <1>16. QED BY <1>6, <1>15

\* What the call that copies a container may rely on.
LEMMA InnermostFrame ==
    ASSUME Counted, FramesInv, frames # <<>>, NEW f, f = Last(frames)
    PROVE  /\ f \in FrameType /\ FrameOK(f)
           /\ f.from \in Node /\ f.to \in Node
           /\ heap[f.to].kind \in {"object", "array"}
           /\ \A i \in f.rest : /\ i \in DOMAIN heap[f.from].content
                                /\ heap[f.to].kind = "object" => i \in Key
                                /\ Replaced(f.to, i) = <<>>
  <1>1. f \in FrameType /\ FrameOK(f)
    BY Innermost DEF FramesInv
  <1>2. f.from \in Node /\ f.to \in Node
    BY <1>1 DEF FrameType
  <1>3. ASSUME NEW i \in f.rest
        PROVE  /\ i \in DOMAIN heap[f.from].content
               /\ heap[f.to].kind = "object" => i \in Key
               /\ Replaced(f.to, i) = <<>>
    <2>1. i \in DOMAIN heap[f.from].content
      BY <1>1 DEF FrameOK
    <2>2. heap[f.to].kind = "object" => i \in Key
      BY <1>1, <1>2, <2>1, HasMembers DEF FrameOK, Counted, Counts
    <2>3. Replaced(f.to, i) = <<>>
      BY <1>1, <1>2, KindOfNode DEF FrameOK, Replaced, Content
    <2>4. QED BY <2>1, <2>2, <2>3
  <1>4. QED BY <1>1, <1>2, <1>3 DEF FrameOK

\* A member is copied, or passed over.
LEMMA DeepCopyMemberCounts ==
    ASSUME Counted, FramesInv, DeepCopyMember
    PROVE  Counts(heap', owned', lost', todo')
  <1>1. /\ todo = <<>> /\ frames # <<>> /\ lost' = lost /\ todo' = todo
        /\ heap \in Heaps
    BY DEF DeepCopyMember, Counted, Counts
  <1>2. PICK f : f = Last(frames)
    OBVIOUS
  <1>3. /\ f.from \in Node /\ f.to \in Node
        /\ heap[f.to].kind \in {"object", "array"}
        /\ \A i \in f.rest : /\ i \in DOMAIN heap[f.from].content
                             /\ heap[f.to].kind = "object" => i \in Key
                             /\ Replaced(f.to, i) = <<>>
    BY <1>1, <1>2, InnermostFrame
  <1>4. CASE heap' = heap /\ owned' = owned
    BY <1>1, <1>4 DEF Counted
  <1>5. ASSUME NEW i \in f.rest, heap' = Put(heap, f.to, i, true), owned' = owned
        PROVE  Counts(heap', owned', lost', todo')
    <2>1. Handed(true, heap, owned)
      BY TrueHanded
    <2>2. Counts(Put(heap, f.to, i, true), owned, lost, Replaced(f.to, i))
      BY <1>1, <1>3, <2>1, PutCounts
    <2>3. QED BY <1>1, <1>3, <1>5, <2>2
  <1>6. ASSUME NEW i \in f.rest, NEW v, v = heap[f.from].content[i], NEW n \in Free,
               KindOf(v) = "scalar", owned' = owned,
               heap' = Put([heap EXCEPT ![n] = NewNode("scalar", heap[v].text)], f.to, i, n)
        PROVE  Counts(heap', owned', lost', todo')
    <2>1. v \in Node /\ heap[v].kind = "scalar"
      <3>1. v \in Value
        BY <1>1, <1>3, <1>6, HeapCountable
      <3>2. v # true
        BY <1>6 DEF KindOf
      <3>3. QED BY <1>6, <3>1, <3>2 DEF KindOf, Value
    <2>2. PICK x \in Text : x = heap[v].text
      BY <1>1, <2>1 DEF Heaps, Shaped
    <2>3. PICK h : h = [heap EXCEPT ![n] = NewNode("scalar", x)]
      OBVIOUS
    <2>4. Counts(Put(h, f.to, i, n), owned, lost, Replaced(f.to, i))
      BY <1>1, <1>3, <2>3, NewMemberCounts
    <2>5. QED BY <1>1, <1>3, <1>6, <2>2, <2>3, <2>4
  <1>7. ASSUME NEW i \in f.rest, NEW v, v = heap[f.from].content[i], NEW n \in Free,
               v \in Containers, owned' = Own(n, 1),
               heap' = [heap EXCEPT ![n] = NewNode(KindOf(v), None)]
        PROVE  Counts(heap', owned', lost', todo')
    <2>1. PICK kind : kind = KindOf(v)
      OBVIOUS
    <2>2. kind \in {"object", "array", "scalar"} /\ None \in IF kind = "scalar" THEN Text ELSE {None}
      BY <1>7, <2>1 DEF Containers
    <2>3. Counts([heap EXCEPT ![n] = NewNode(kind, None)], Own(n, 1), lost, todo)
      BY <2>2, NewCounts
    <2>4. QED BY <1>1, <1>7, <2>1, <2>3
  <1>8. QED
    <2>1. PICK i \in f.rest :
            LET v == Content(f.from)[i]
                rest == Append(Front(frames), [f EXCEPT !.rest = @ \ {i}])
            IN  /\ IsNext(i, f.rest, f.from)
                /\ \/ /\ v # true \/ PutMayFail(f.to, i)
                      /\ frames' = rest /\ whole' = FALSE
                      /\ UNCHANGED <<heap, owned>>
                   \/ /\ v = true
                      /\ heap' = Put(heap, f.to, i, true)
                      /\ frames' = rest /\ UNCHANGED <<owned, whole>>
                   \/ \E n \in Free :
                        /\ KindOf(v) = "scalar"
                        /\ heap' = Put([heap EXCEPT ![n] = NewNode("scalar", heap[v].text)],
                                       f.to, i, n)
                        /\ frames' = rest /\ UNCHANGED <<owned, whole>>
                   \/ \E n \in Free :
                        /\ v \in Containers
                        /\ heap' = [heap EXCEPT ![n] = NewNode(KindOf(v), None)]
                        /\ owned' = Own(n, 1)
                        /\ frames' = Append(rest, Frame(v, n, i))
                        /\ UNCHANGED whole
      BY <1>2 DEF DeepCopyMember
    <2>2. QED BY <1>4, <1>5, <1>6, <1>7, <2>1 DEF Content

\* A call that returns to another is the copy of a member of what that one copies.
LEMMA OuterFrame ==
    ASSUME Counted, FramesInv, frames # <<>>, NEW f, f = Last(frames),
           Front(frames) # <<>>, NEW e, e = Last(Front(frames))
    PROVE  /\ Len(frames) - 1 \in DOMAIN frames /\ e = frames[Len(frames) - 1]
           /\ f = frames[Len(frames)] /\ Len(frames) \in DOMAIN frames
           /\ Len(frames) - 1 >= 1 /\ Len(frames) \in Nat
           /\ e \in FrameType /\ FrameOK(e) /\ Nested(e, f)
           /\ e.from \in Node /\ e.to \in Node /\ e.to # f.to
           /\ heap[e.to].kind \in {"object", "array"}
           /\ heap[e.to].kind = "object" => f.at \in Key
           /\ Replaced(e.to, f.at) = <<>>
  <1>1. frames \in Seq(FrameType) /\ DOMAIN frames = 1 .. Len(frames) /\ Len(frames) \in Nat
    BY LenProperties DEF FramesInv
  <1>2. PICK m \in Nat : m = Len(frames)
    BY <1>1
  <1>3. PICK k \in Int : k = m - 1
    OBVIOUS
  <1>4. /\ k \in DOMAIN frames /\ m \in DOMAIN frames /\ m = k + 1 /\ k >= 1
        /\ e = frames[k] /\ f = frames[m]
    BY <1>1, <1>2, <1>3, Innermost
  <1>5. e \in FrameType /\ FrameOK(e) /\ Nested(e, f)
    <2>1. frames[k] \in FrameType
      BY <1>1, <1>4, ElementOfSeq
    <2>2. FrameOK(frames[k]) /\ Nested(frames[k], frames[m])
      BY <1>4 DEF FramesInv
    <2>3. QED BY <1>4, <2>1, <2>2
  <1>6. e.from \in Node /\ e.to \in Node /\ heap[e.to].kind \in {"object", "array"}
    BY <1>5 DEF FrameType, FrameOK
  <1>7. e.to # f.to
    BY <1>4 DEF FramesInv
  <1>8. heap[e.to].kind = "object" => f.at \in Key
    BY <1>5, <1>6, HasMembers DEF Nested, FrameOK, Counted, Counts
  <1>9. Replaced(e.to, f.at) = <<>>
    BY <1>5, <1>6, KindOfNode DEF Nested, Replaced, Content
  <1>10. QED BY <1>1, <1>2, <1>3, <1>4, <1>5, <1>6, <1>7, <1>8, <1>9

\* What has been copied becomes a member of the copy around it, or is released.
LEMMA DeepCopyReturnCounts ==
    ASSUME Counted, FramesInv, DeepCopyReturn
    PROVE  Counts(heap', owned', lost', todo')
  <1>1. /\ todo = <<>> /\ frames # <<>> /\ lost' = lost
    BY DEF DeepCopyReturn
  <1>2. PICK f, outer : f = Last(frames) /\ outer = Front(frames)
    OBVIOUS
  <1>3. PICK e : e = Last(outer)
    OBVIOUS
  <1>4. f.to \in Node /\ owned[f.to] > 0
    BY <1>1, <1>2, InnermostFrame DEF FrameOK
  <1>5. CASE heap' = heap /\ owned' = owned /\ todo' = todo
    BY <1>1, <1>5 DEF Counted
  <1>6. CASE /\ outer # <<>> /\ owned' = Own(f.to, -1)
             /\ heap' = Put(heap, e.to, f.at, f.to) /\ todo' = todo
    <2>1. Handed(f.to, heap, Own(f.to, -1))
      BY <1>4, OwnHanded
    <2>2. /\ e.to \in Node /\ heap[e.to].kind \in {"object", "array"}
          /\ heap[e.to].kind = "object" => f.at \in Key
          /\ Replaced(e.to, f.at) = <<>>
      BY <1>1, <1>2, <1>3, <1>6, OuterFrame
    <2>3. Counts(Put(heap, e.to, f.at, f.to), Own(f.to, -1), lost, Replaced(e.to, f.at))
      BY <1>1, <2>1, <2>2, PutCounts
    <2>4. QED BY <1>1, <1>6, <2>2, <2>3
  <1>7. CASE owned' = Own(f.to, -1) /\ todo' = <<f.to>> /\ heap' = heap
    BY <1>1, <1>4, <1>7, Released
  <1>8. QED BY <1>2, <1>3, <1>5, <1>6, <1>7 DEF DeepCopyReturn

-----------------------------------------------------------------------------
(* Loops and nested calls.                                                  *)

\* Between calls nothing is said of them.
LEMMA NoCallInv ==
    ASSUME Idle, NoCall, whole \in BOOLEAN
    PROVE  LoopInv' /\ FramesInv' /\ whole' \in BOOLEAN
  <1>1. loop' = None /\ frames' = <<>> /\ whole' = whole
    BY DEF Idle, NoCall
  <1>2. LoopInv'
    BY <1>1 DEF LoopInv
  <1>3. DOMAIN frames' = {} /\ frames' \in Seq(FrameType)
    BY <1>1
  <1>4. FramesInv'
    BY <1>1, <1>3 DEF FramesInv
  <1>5. QED BY <1>1, <1>2, <1>4

\* What json_decref leaves alone: a value with another reference than those to be
\* released keeps all but its count, and one with an owner no other the count too.
LEMMA DecrefKeeps ==
    ASSUME Counted, Decref, NEW n \in Node,
           owned[n] > 0 \/ Cardinality(Places(heap, n)) > 0
    PROVE  /\ heap'[n].kind = heap[n].kind /\ heap'[n].content = heap[n].content
           /\ owned[n] = heap[n].refcount => heap'[n].refcount = heap[n].refcount
  <1>1. heap \in [Node -> NodeRecord] /\ heap \in Heaps /\ todo \in Seq(Value) /\ todo # <<>>
    BY DEF Counted, Counts, Heaps, Decref
  <1>2. PICK v \in Value : v = Head(todo)
    BY <1>1
  <1>3. CASE heap' = heap
    BY <1>3
  <1>4. CASE v # true /\ heap' = Ref(heap, v, -1)
    <2>1. SameButRefs(heap, heap', v, -1)
      BY <1>1, <1>4, RefEffect
    <2>2. owned[n] = heap[n].refcount => n # v
      <3>1. owned[n] \in Nat /\ lost[n] \in Nat /\ heap[n].refcount \in Nat
        BY PartsType DEF Counted
      <3>2. n = v => heap[n].refcount >= owned[n] + lost[n] + 1
        BY <1>1, <1>2, <1>4, TodoIsLive
      <3>3. QED BY <3>1, <3>2
    <2>3. QED BY <2>1, <2>2 DEF SameButRefs
  <1>5. CASE v # true /\ heap[v].refcount <= 1 /\ heap' = [heap EXCEPT ![v] = FreeNode]
    <2>1. /\ v \in Node /\ heap[v].refcount >= owned[v] + lost[v] + 1
          /\ heap[v].refcount = 1 => Cardinality(Places(heap, v)) = 0
      BY <1>1, <1>2, <1>5, TodoIsLive
    <2>2. owned[v] \in Nat /\ lost[v] \in Nat /\ heap[v].refcount \in Nat
      BY <2>1, PartsType DEF Counted
    <2>3. owned[v] = 0 /\ Cardinality(Places(heap, v)) = 0
      BY <1>5, <2>1, <2>2
    <2>4. n # v
      BY <2>3
    <2>5. heap'[n] = heap[n]
      BY <1>1, <1>5, <2>1, <2>4
    <2>6. QED BY <2>5
  <1>6. QED BY <1>2, <1>3, <1>4, <1>5 DEF Decref

\* A member of a container has a place.
LEMMA PlacePositive ==
    ASSUME Counted, NEW c \in Node, NEW i \in DOMAIN heap[c].content, NEW v \in Node,
           v = heap[c].content[i]
    PROVE  Cardinality(Places(heap, v)) > 0 /\ heap[v].refcount > owned[v]
  <1>1. Cardinality(Places(heap, v)) >= 1
    BY MemberIsPlaced DEF Counted, Counts
  <1>2. /\ owned[v] \in Nat /\ lost[v] \in Nat /\ Count(todo, v) \in Nat
        /\ Cardinality(Places(heap, v)) \in Nat
        /\ heap[v].refcount = owned[v] + lost[v] + Count(todo, v) + Cardinality(Places(heap, v))
    BY PartsType DEF Counted
  <1>3. QED BY <1>1, <1>2

\* The containers being copied are not copies being made, and have a place or
\* an owner.
LEMMA FromIsApart ==
    ASSUME Counted, FramesInv, NEW j \in DOMAIN frames
    PROVE  /\ frames[j] \in FrameType /\ frames[j].from \in Node /\ frames[j].to \in Node
           /\ owned[frames[j].from] > 0 \/ Cardinality(Places(heap, frames[j].from)) > 0
           /\ \A k \in DOMAIN frames : frames[k].to # frames[j].from
  <1>1. frames \in Seq(FrameType) /\ DOMAIN frames = 1 .. Len(frames) /\ Len(frames) \in Nat
    BY LenProperties DEF FramesInv
  <1>2. frames[j] \in FrameType /\ frames[j].from \in Node /\ frames[j].to \in Node
    <2>1. frames[j] \in FrameType
      BY <1>1, ElementOfSeq
    <2>2. QED BY <2>1 DEF FrameType
  <1>3. CASE j = 1
    <2>1. frames # <<>>
      BY <1>1
    <2>2. QED BY <1>2, <1>3, <2>1 DEF FramesInv
  <1>4. CASE j # 1
    <2>1. PICK k \in DOMAIN frames : j = k + 1
      <3>1. PICK k \in Int : k = j - 1
        BY <1>1
      <3>2. k \in DOMAIN frames /\ j = k + 1
        BY <1>1, <1>4, <3>1
      <3>3. QED BY <3>2
    <2>2. Nested(frames[k], frames[j]) /\ frames[k] \in FrameType
      BY <1>1, <2>1, ElementOfSeq DEF FramesInv
    <2>3. /\ frames[k].from \in Node
          /\ frames[j].at \in DOMAIN heap[frames[k].from].content
          /\ frames[j].from = heap[frames[k].from].content[frames[j].at]
      BY <2>2 DEF FrameType, Nested
    <2>4. /\ Cardinality(Places(heap, frames[j].from)) > 0
          /\ heap[frames[j].from].refcount > owned[frames[j].from]
      BY <1>2, <2>3, PlacePositive
    <2>5. ASSUME NEW l \in DOMAIN frames PROVE frames[l].to # frames[j].from
      <3>1. owned[frames[l].to] = 1 /\ heap[frames[l].to].refcount = 1
        BY DEF FramesInv, FrameOK
      <3>2. QED BY <2>4, <3>1
    <2>6. QED BY <1>2, <2>4, <2>5
  <1>5. QED BY <1>3, <1>4

\* Loops and nested calls go on after json_decref as before.
LEMMA DecrefInv ==
    ASSUME Counted, LoopInv, FramesInv, whole \in BOOLEAN, Decref
    PROVE  LoopInv' /\ FramesInv' /\ whole' \in BOOLEAN
  <1>1. loop' = loop /\ frames' = frames /\ whole' = whole /\ owned' = owned
    BY DEF Decref, calls
  <1>2. LoopInv'
    <2>1. SUFFICES ASSUME loop # None PROVE LoopInv'
      BY <1>1 DEF LoopInv
    <2>2. /\ frames = <<>> /\ loop \in Loop /\ loop.to \in Node /\ loop.from \in Node
          /\ owned[loop.to] > 0 /\ owned[loop.from] > 0
      BY <2>1 DEF LoopInv, Loop
    <2>3. /\ heap'[loop.to].kind = heap[loop.to].kind
          /\ heap'[loop.from].kind = heap[loop.from].kind
          /\ heap'[loop.from].content = heap[loop.from].content
      BY <2>2, DecrefKeeps
    <2>4. QED BY <1>1, <2>1, <2>2, <2>3 DEF LoopInv
  <1>3. FramesInv'
    <2>1. ASSUME NEW j \in DOMAIN frames
          PROVE  /\ heap'[frames[j].from].content = heap[frames[j].from].content
                 /\ heap'[frames[j].from].kind = heap[frames[j].from].kind
                 /\ heap'[frames[j].to].content = heap[frames[j].to].content
                 /\ heap'[frames[j].to].kind = heap[frames[j].to].kind
                 /\ heap'[frames[j].to].refcount = heap[frames[j].to].refcount
      <3>1. /\ frames[j].from \in Node /\ frames[j].to \in Node
            /\ owned[frames[j].from] > 0 \/ Cardinality(Places(heap, frames[j].from)) > 0
        BY FromIsApart
      <3>2. owned[frames[j].to] = 1 /\ heap[frames[j].to].refcount = 1
        BY DEF FramesInv, FrameOK
      <3>3. QED BY <3>1, <3>2, DecrefKeeps
    <2>2. \A j \in DOMAIN frames : FrameOK(frames[j])'
      BY <1>1, <2>1 DEF FramesInv, FrameOK
    <2>3. ASSUME NEW j \in DOMAIN frames, NEW k \in DOMAIN frames, k = j + 1
          PROVE  Nested(frames[j], frames[k])'
      BY <1>1, <2>1, <2>3, SMTT(30) DEF FramesInv, Nested
    <2>4. QED BY <1>1, <2>2, <2>3 DEF FramesInv
  <1>4. QED BY <1>1, <1>2, <1>3

\* Calls r are the first q of frames, with x behind the q-th of them.
Ahead(r, q, x) ==
    \A j \in 1 .. q :
        /\ r[j] \in FrameType
        /\ r[j].from = frames[j].from /\ r[j].to = frames[j].to /\ r[j].at = frames[j].at
        /\ r[j].rest = IF j = q THEN frames[j].rest \ {x} ELSE frames[j].rest

\* Of what the first q calls depend on, only the copy that the q-th makes has
\* changed, and has at most x more.
Grew(q, x) ==
    /\ \A n \in Node : heap[n].kind # "free" =>
          /\ heap'[n].kind = heap[n].kind
          /\ n # frames[q].to => heap'[n].content = heap[n].content
    /\ \A j \in 1 .. q : heap'[frames[j].to].refcount = 1 /\ owned'[frames[j].to] = 1
    /\ owned'[frames[1].from] > 0
    /\ heap[frames[q].to].kind = "object" =>
          DOMAIN heap'[frames[q].to].content \subseteq DOMAIN heap[frames[q].to].content \cup {x}

\* The first q calls go on.
FramesGo(r, q) ==
    /\ \A j \in 1 .. q : FrameOK(r[j])'
    /\ \A j, k \in 1 .. q : r[j].to = r[k].to => j = k
    /\ owned'[r[1].from] > 0
    /\ \A j \in 1 .. q : r[j].to # r[1].from
    /\ \A j, k \in 1 .. q : k = j + 1 => Nested(r[j], r[k])'

\* When the innermost of the calls that are left has had a member added to its
\* copy and the others are as they were, all of them go on.
LEMMA CallsGoOn ==
    ASSUME Counted, FramesInv, NEW q \in DOMAIN frames, NEW x, NEW r,
           Ahead(r, q, x), Grew(q, x)
    PROVE  FramesGo(r, q)
  <1>1. DOMAIN frames = 1 .. Len(frames) /\ Len(frames) \in Nat /\ q \in Nat /\ q >= 1
    BY LenProperties DEF FramesInv
  <1>2. ASSUME NEW j \in 1 .. q
        PROVE  /\ j \in DOMAIN frames /\ r[j] \in FrameType
               /\ r[j].from = frames[j].from /\ r[j].to = frames[j].to
               /\ r[j].at = frames[j].at /\ r[j].rest \subseteq frames[j].rest
               /\ j # q => r[j].rest = frames[j].rest
               /\ j = q => x \notin r[j].rest
    <2>1. j \in DOMAIN frames
      BY <1>1
    <2>2. QED BY <2>1 DEF Ahead
  <1>3. ASSUME NEW j \in 1 .. q
        PROVE  /\ heap'[frames[j].from].content = heap[frames[j].from].content
               /\ heap'[frames[j].from].kind = heap[frames[j].from].kind
               /\ heap'[frames[j].to].kind = heap[frames[j].to].kind
               /\ j # q => heap'[frames[j].to].content = heap[frames[j].to].content
               /\ FrameOK(frames[j])
    <2>1. /\ frames[j].from \in Node /\ frames[j].to \in Node
          /\ owned[frames[j].from] > 0 \/ Cardinality(Places(heap, frames[j].from)) > 0
          /\ frames[q].to # frames[j].from
      BY <1>2, FromIsApart
    <2>2. FrameOK(frames[j])
      BY <1>2 DEF FramesInv
    <2>3. heap[frames[j].from].kind # "free"
      <3>1. PICK n \in Node : n = frames[j].from
        BY <2>1
      <3>2. /\ owned[n] \in Nat /\ lost[n] \in Nat /\ Count(todo, n) \in Nat
            /\ Cardinality(Places(heap, n)) \in Nat
            /\ heap[n].refcount = owned[n] + lost[n] + Count(todo, n) + Cardinality(Places(heap, n))
            /\ heap[n].kind = "free" <=> heap[n].refcount = 0
        BY PartsType DEF Counted
      <3>3. owned[n] > 0 \/ Cardinality(Places(heap, n)) > 0
        BY <2>1, <3>1
      <3>4. heap[n].refcount # 0
        BY <3>2, <3>3
      <3>5. QED BY <3>1, <3>2, <3>4
    <2>4. heap[frames[j].to].kind # "free"
      BY <2>2 DEF FrameOK
    <2>5. j # q => frames[j].to # frames[q].to
      BY <1>2 DEF FramesInv
    <2>6. QED BY <2>1, <2>2, <2>3, <2>4, <2>5 DEF Grew
  <1>4. ASSUME NEW j \in 1 .. q PROVE FrameOK(r[j])'
    <2>1. FrameOK(frames[j])
      BY <1>3
    <2>2. owned'[r[j].to] = 1 /\ heap'[r[j].to].refcount = 1
      BY <1>2 DEF Grew
    <2>3. /\ heap'[r[j].to].kind = heap'[r[j].from].kind
          /\ heap'[r[j].to].kind \in {"object", "array"}
          /\ r[j].rest \subseteq DOMAIN heap'[r[j].from].content
      BY <1>2, <1>3, <2>1 DEF FrameOK
    <2>4. ASSUME heap'[r[j].to].kind = "object"
          PROVE  r[j].rest \cap DOMAIN heap'[r[j].to].content = {}
      <3>1. heap[frames[j].to].kind = "object"
        BY <1>2, <1>3, <2>4
      <3>2. frames[j].rest \cap DOMAIN heap[frames[j].to].content = {}
        BY <2>1, <3>1 DEF FrameOK
      <3>3. CASE j = q
        <4>1. DOMAIN heap'[frames[q].to].content \subseteq DOMAIN heap[frames[q].to].content \cup {x}
          BY <3>1, <3>3 DEF Grew
        <4>2. QED BY <1>2, <3>2, <3>3, <4>1
      <3>4. CASE j # q
        BY <1>2, <1>3, <3>2, <3>4
      <3>5. QED BY <3>3, <3>4
    <2>5. QED BY <2>2, <2>3, <2>4 DEF FrameOK
  <1>5. ASSUME NEW j \in 1 .. q, NEW k \in 1 .. q, k = j + 1 PROVE Nested(r[j], r[k])'
    <2>1. Nested(frames[j], frames[k])
      BY <1>2, <1>5 DEF FramesInv
    <2>2. j # q
      BY <1>1, <1>5
    <2>3. /\ r[k].at \in DOMAIN heap'[r[j].from].content /\ r[k].at \notin r[j].rest
          /\ heap'[r[j].from].content[r[k].at] = r[k].from
      BY <1>2, <1>3, <2>1 DEF Nested
    <2>4. heap'[r[j].to].kind = "object" => r[k].at \notin DOMAIN heap'[r[j].to].content
      BY <1>2, <1>3, <2>1, <2>2 DEF Nested
    <2>5. QED BY <2>3, <2>4 DEF Nested
  <1>6. \A j, k \in 1 .. q : r[j].to = r[k].to => j = k
    BY <1>2 DEF FramesInv
  <1>7. 1 \in 1 .. q
    BY <1>1
  <1>8. owned'[r[1].from] > 0 /\ \A j \in 1 .. q : r[j].to # r[1].from
    BY <1>2, <1>7 DEF Grew, FramesInv
  <1>9. QED BY <1>4, <1>5, <1>6, <1>8 DEF FramesGo

\* A value that is added takes no place away, and one key at most.
LEMMA AddedDomain ==
    ASSUME NEW c \in Node, NEW v \in Value, NEW i, heap \in Heaps,
           heap[c].kind \in {"object", "array"}
    PROVE  /\ DOMAIN heap[c].content \subseteq DOMAIN Added(c, i, v)
           /\ heap[c].kind = "object" =>
                DOMAIN Added(c, i, v) = DOMAIN heap[c].content \cup {i}
  <1>1. CASE heap[c].kind = "array"
    <2>1. PICK s \in Seq(Value) : s = heap[c].content
      BY <1>1 DEF Heaps, Shaped
    <2>2. Added(c, i, v) = Append(s, v)
      BY <1>1, <2>1, KindOfNode DEF Added, Content
    <2>3. DOMAIN s = 1 .. Len(s) /\ DOMAIN Append(s, v) = 1 .. Len(s) + 1 /\ Len(s) \in Nat
      BY LenProperties
    <2>4. QED BY <1>1, <2>1, <2>2, <2>3
  <1>2. CASE heap[c].kind = "object"
    BY <1>2, KindOfNode DEF Added, With, Content
  <1>3. QED BY <1>1, <1>2

\* A loop goes on with one member less.
LEMMA LoopGoes ==
    ASSUME Counted, LoopInv, FramesInv, LoopStep \/ LoopEnd
    PROVE  LoopInv' /\ FramesInv' /\ whole' = whole
  <1>1. /\ loop # None /\ owned' = owned /\ frames' = frames /\ whole' = whole
        /\ LoopStep => todo = <<>>
    BY DEF LoopStep, LoopEnd
  <1>2. /\ frames = <<>> /\ loop \in Loop /\ loop.to \in Node /\ loop.from \in Node
        /\ owned[loop.to] > 0 /\ owned[loop.from] > 0
        /\ heap[loop.to].kind = heap[loop.from].kind
        /\ loop.rest \subseteq DOMAIN heap[loop.from].content
    BY <1>1 DEF LoopInv, Loop
  <1>3. FramesInv'
    <2>1. frames' = <<>> /\ DOMAIN frames' = {} /\ frames' \in Seq(FrameType)
      BY <1>1, <1>2
    <2>2. QED BY <2>1 DEF FramesInv
  <1>4. ASSUME LoopStep,
               heap'[loop.to].kind = heap[loop.to].kind,
               heap'[loop.from].kind = heap[loop.from].kind,
               DOMAIN heap[loop.from].content \subseteq DOMAIN heap'[loop.from].content,
               NEW i \in loop.rest, Continue(i)
        PROVE  LoopInv'
    <2>1. loop' = [loop EXCEPT !.rest = loop.rest \ {i}]
      BY <1>4 DEF Continue
    <2>2. /\ loop' \in Loop /\ loop'.to = loop.to /\ loop'.from = loop.from
          /\ loop'.rest \subseteq loop.rest
      BY <1>2, <2>1 DEF Loop
    <2>3. loop'.rest \subseteq DOMAIN heap'[loop'.from].content
      BY <1>2, <1>4, <2>2
    <2>4. QED BY <1>1, <1>2, <1>4, <2>2, <2>3 DEF LoopInv
  <1>5. ASSUME loop' = None PROVE LoopInv'
    BY <1>5 DEF LoopInv
  <1>6. ASSUME LoopStep, NEW i \in loop.rest, Continue(i), heap' = heap
        PROVE  LoopInv'
    BY <1>4, <1>6
  <1>7. ASSUME LoopStep, NEW i \in loop.rest, Continue(i), NEW v,
               v = heap[loop.from].content[i], heap' = Put(Ref(heap, v, 1), loop.to, i, v)
        PROVE  LoopInv'
    <2>1. heap \in Heaps
      BY DEF Counted, Counts
    <2>2. v \in Value
      BY <1>2, <1>7, <2>1, HeapCountable
    <2>3. PICK h : h = Ref(heap, v, 1)
      OBVIOUS
    <2>4. SameButRefs(heap, h, v, 1)
      BY <2>1, <2>2, <2>3, RefEffect
    <2>5. /\ heap[loop.to].kind \in {"object", "array"}
          /\ heap[loop.to].kind = "object" => i \in Key
      BY <1>2, <1>7, <2>1, HasMembers
    <2>6. SameButContent(h, heap', loop.to, Added(loop.to, i, v))
      <3>1. h \in Heaps /\ h[loop.to].kind = heap[loop.to].kind /\ h[loop.to].content = Content(loop.to)
        BY <1>2, <2>4 DEF SameButRefs, Content
      <3>2. QED BY <1>2, <1>7, <2>2, <2>3, <2>5, <3>1, PutEffect
    <2>7. DOMAIN heap[loop.to].content \subseteq DOMAIN Added(loop.to, i, v)
      BY <1>2, <2>1, <2>2, <2>5, AddedDomain
    <2>8. /\ heap'[loop.to].kind = heap[loop.to].kind
          /\ heap'[loop.from].kind = heap[loop.from].kind
      BY <1>2, <2>4, <2>6 DEF SameButRefs, SameButContent
    <2>9. DOMAIN heap[loop.from].content \subseteq DOMAIN heap'[loop.from].content
      <3>1. heap'[loop.to].content = Added(loop.to, i, v)
        BY <2>6 DEF SameButContent
      <3>2. loop.from # loop.to => heap'[loop.from].content = heap[loop.from].content
        BY <1>2, <2>4, <2>6 DEF SameButRefs, SameButContent
      <3>3. QED BY <2>7, <3>1, <3>2
    <2>10. QED BY <1>4, <1>7, <2>8, <2>9
  <1>8. ASSUME LoopEnd PROVE LoopInv'
    BY <1>5, <1>8 DEF LoopEnd
  <1>9. ASSUME LoopStep PROVE LoopInv'
    <2>1. PICK i \in loop.rest :
            \/ Continue(i) /\ heap' = heap
            \/ Stop(i) /\ heap' = heap
            \/ Continue(i) /\ heap' = Put(Ref(heap, heap[loop.from].content[i], 1),
                                          loop.to, i, heap[loop.from].content[i])
      BY <1>9 DEF LoopStep, Content
    <2>2. QED BY <1>5, <1>6, <1>7, <1>9, <2>1 DEF Stop
  <1>10. QED BY <1>1, <1>3, <1>8, <1>9

\* A loop over the members of a container begins.
LEMMA LoopBegins ==
    ASSUME Counted, FramesInv, Idle, NEW a \in Node, NEW b \in Node,
           \/ \E op \in {"update", "existing", "missing"} : BeginUpdate(op, a, b)
           \/ b \in Free /\ BeginCopy(a, b)
    PROVE  LoopInv' /\ FramesInv' /\ whole' = whole
  <1>1. /\ frames' = <<>> /\ frames = <<>> /\ whole' = whole /\ heap \in Heaps
        /\ heap \in [Node -> NodeRecord] /\ owned \in [Node -> Nat]
    BY DEF Idle, BeginUpdate, BeginCopy, Counted, Counts, Heaps, Counter
  <1>2. FramesInv'
    <2>1. DOMAIN frames' = {} /\ frames' \in Seq(FrameType)
      BY <1>1
    <2>2. QED BY <1>1, <2>1 DEF FramesInv
  <1>3. \A c \in Node : DOMAIN heap[c].content \subseteq Index
    BY <1>1, HasMembers
  <1>4. ASSUME NEW op \in {"update", "existing", "missing"}, BeginUpdate(op, a, b)
        PROVE  LoopInv'
    <2>1. /\ loop' = [op |-> op, to |-> a, from |-> b, rest |-> DOMAIN heap[b].content]
          /\ heap' = heap /\ owned' = owned /\ owned[a] > 0 /\ owned[b] > 0
          /\ heap[a].kind = heap[b].kind
      BY <1>4, KindOfNode DEF BeginUpdate, Content
    <2>2. /\ loop' \in Loop /\ loop'.to = a /\ loop'.from = b
          /\ loop'.rest = DOMAIN heap[b].content
      BY <1>3, <2>1 DEF Loop
    <2>3. QED BY <1>1, <2>1, <2>2 DEF LoopInv
  <1>5. ASSUME b \in Free, BeginCopy(a, b) PROVE LoopInv'
    <2>1. PICK k, t : k = heap[a].kind /\ t = heap[a].text
      OBVIOUS
    <2>2. /\ loop' = [op |-> "copy", to |-> b, from |-> a, rest |-> DOMAIN heap[a].content]
          /\ heap' = [heap EXCEPT ![b] = NewNode(k, t)] /\ owned' = Own(b, 1) /\ owned[a] > 0
      BY <1>5, <2>1, KindOfNode DEF BeginCopy, Content
    <2>3. heap[b].kind = "free" /\ owned[b] = 0
      <3>1. heap[b].kind = "free"
        BY <1>5, KindOfNode DEF Free
      <3>2. owned[b] = 0
        BY <1>1, <3>1, OwnedIsLive
      <3>3. QED BY <3>1, <3>2
    <2>4. a # b
      BY <2>2, <2>3
    <2>5. heap'[a] = heap[a] /\ heap'[b] = NewNode(k, t)
      BY <1>1, <2>2, <2>4
    <2>6. heap'[b].kind = k
      BY <2>5 DEF NewNode
    <2>7. owned'[a] > 0 /\ owned'[b] > 0
      <3>1. \A n \in Node : owned'[n] = IF n = b THEN owned[n] + 1 ELSE owned[n]
        BY <2>2, OwnEffect DEF Value
      <3>2. QED BY <2>2, <2>3, <2>4, <3>1
    <2>8. /\ loop' \in Loop /\ loop'.to = b /\ loop'.from = a
          /\ loop'.rest = DOMAIN heap[a].content
      BY <1>3, <2>2 DEF Loop
    <2>9. QED BY <1>1, <2>1, <2>5, <2>6, <2>7, <2>8 DEF LoopInv
  <1>6. QED BY <1>1, <1>2, <1>4, <1>5

\* The calls that go on are all calls there are.
LEMMA CallsAre ==
    ASSUME NEW q \in Nat, NEW r \in Seq(FrameType), Len(r) = q, FramesGo(r, q), frames' = r
    PROVE  FramesInv'
  <1>1. DOMAIN r = 1 .. q
    BY LenProperties
  <1>2. QED BY <1>1 DEF FramesGo, FramesInv

\* One more call is made.
LEMMA CallAdded ==
    ASSUME NEW q \in Nat, q >= 1, NEW p \in Nat, p = q + 1, NEW r, FramesGo(r, q),
           FrameOK(r[p])', \A j \in 1 .. q : r[j].to # r[p].to, r[p].to # r[1].from,
           Nested(r[q], r[p])'
    PROVE  FramesGo(r, p)
  <1>1. \A j \in 1 .. p : j \in 1 .. q \/ j = p
    OBVIOUS
  <1>2. \A j \in 1 .. p : FrameOK(r[j])'
    BY <1>1 DEF FramesGo
  <1>3. \A j, k \in 1 .. p : r[j].to = r[k].to => j = k
    BY <1>1 DEF FramesGo
  <1>4. owned'[r[1].from] > 0 /\ \A j \in 1 .. p : r[j].to # r[1].from
    BY <1>1 DEF FramesGo
  <1>5. ASSUME NEW j \in 1 .. p, NEW k \in 1 .. p, k = j + 1 PROVE Nested(r[j], r[k])'
    <2>1. CASE k = p
      <3>1. j = q
        BY <1>5, <2>1
      <3>2. QED BY <2>1, <3>1
    <2>2. CASE k # p
      <3>1. j \in 1 .. q /\ k \in 1 .. q
        BY <1>5, <2>2
      <3>2. QED BY <1>5, <3>1 DEF FramesGo
    <2>3. QED BY <2>1, <2>2
  <1>6. QED BY <1>2, <1>3, <1>4, <1>5 DEF FramesGo

\* json_deep_copy is called.
LEMMA DeepCopyBegins ==
    ASSUME Counted, Idle, NEW a \in Node, NEW b \in Free, BeginDeepCopy(a, b)
    PROVE  LoopInv' /\ FramesInv' /\ whole' = TRUE
  <1>1. /\ heap \in Heaps /\ heap \in [Node -> NodeRecord] /\ owned \in [Node -> Nat]
        /\ loop' = None /\ whole' = TRUE /\ owned[a] > 0 /\ owned' = Own(b, 1)
        /\ frames' = <<Frame(a, b, None)>> /\ heap[a].kind \in {"object", "array"}
    BY KindOfNode DEF Counted, Counts, Heaps, Counter, Idle, BeginDeepCopy, Containers
  <1>2. LoopInv'
    BY <1>1 DEF LoopInv
  <1>3. PICK f : f = Frame(a, b, None)
    OBVIOUS
  <1>4. b \in Node /\ heap[b].kind = "free" /\ owned[b] = 0
    <2>1. b \in Node /\ heap[b].kind = "free"
      BY KindOfNode DEF Free
    <2>2. QED BY <1>1, <2>1, OwnedIsLive
  <1>5. PICK k : k = heap[a].kind
    OBVIOUS
  <1>6. heap' = [heap EXCEPT ![b] = NewNode(k, None)] /\ a # b
    BY <1>1, <1>4, <1>5, KindOfNode DEF BeginDeepCopy
  <1>7. heap'[a] = heap[a] /\ heap'[b] = NewNode(k, None)
    BY <1>1, <1>4, <1>6
  <1>8. heap'[b].kind = k /\ heap'[b].content = <<>> /\ heap'[b].refcount = 1
    BY <1>7 DEF NewNode
  <1>9. owned'[a] > 0 /\ owned'[b] = 1
    <2>1. \A n \in Node : owned'[n] = IF n = b THEN owned[n] + 1 ELSE owned[n]
      BY <1>1, <1>4, OwnEffect DEF Value
    <2>2. QED BY <1>1, <1>4, <1>6, <2>1
  <1>10. /\ f.from = a /\ f.to = b /\ f.at = None /\ f.rest = DOMAIN heap[a].content
         /\ f \in FrameType
    <2>1. DOMAIN heap[a].content \subseteq Index
      BY <1>1, HasMembers
    <2>2. f = [from |-> a, to |-> b, at |-> None, rest |-> DOMAIN heap[a].content]
      BY <1>3 DEF Frame, Content
    <2>3. QED BY <1>4, <2>1, <2>2 DEF FrameType
  <1>11. FrameOK(f)'
    BY <1>1, <1>5, <1>7, <1>8, <1>9, <1>10, EmptyContent DEF FrameOK
  <1>12. PICK r : r = <<f>>
    OBVIOUS
  <1>13. r \in Seq(FrameType) /\ Len(r) = 1 /\ r[1] = f
    BY <1>10, <1>12
  <1>14. PICK q \in Nat : q = 1
    OBVIOUS
  <1>15. FramesGo(r, q)
    <2>1. \A j \in 1 .. q : j = 1
      BY <1>14
    <2>2. \A j \in 1 .. q : FrameOK(r[j])'
      BY <1>11, <1>13, <2>1
    <2>3. \A j, k2 \in 1 .. q : ~(k2 = j + 1)
      BY <1>14
    <2>4. QED BY <1>6, <1>9, <1>10, <1>13, <2>1, <2>2, <2>3 DEF FramesGo
  <1>16. FramesInv'
    <2>1. frames' = r /\ Len(r) = q
      BY <1>1, <1>3, <1>12, <1>13, <1>14
    <2>2. QED BY <1>13, <1>15, <2>1, CallsAre
  <1>17. QED BY <1>1, <1>2, <1>16

\* The calls with a member behind the innermost one.
Past(i) == Append(Front(frames), [Last(frames) EXCEPT !.rest = @ \ {i}])

\* The calls with a member behind the innermost one differ in that call only.
LEMMA Behind ==
    ASSUME FramesInv, frames # <<>>, NEW f, f = Last(frames), NEW q, q = Len(frames), NEW i,
           NEW r, r = Past(i)
    PROVE  /\ q \in Nat /\ q >= 1 /\ q \in DOMAIN frames /\ f = frames[q]
           /\ r \in Seq(FrameType) /\ Len(r) = q /\ Ahead(r, q, i)
           /\ r[q].rest = f.rest \ {i} /\ r[q].from = f.from /\ r[q].to = f.to
  <1>1. frames \in Seq(FrameType)
    BY DEF FramesInv
  <1>2. PICK s : s = Front(frames)
    OBVIOUS
  <1>3. PICK k \in Int : k = q - 1
    <2>1. q \in Nat
      BY <1>1
    <2>2. QED BY <2>1
  <1>4. /\ q \in Nat /\ q >= 1 /\ q \in DOMAIN frames /\ f = frames[q] /\ f \in FrameType
        /\ s \in Seq(FrameType) /\ Len(s) = k /\ \A j \in 1 .. k : s[j] = frames[j]
        /\ DOMAIN frames = 1 .. q
    BY <1>1, <1>2, <1>3, Innermost
  <1>5. PICK g : g = [f EXCEPT !.rest = f.rest \ {i}]
    OBVIOUS
  <1>6. /\ g \in FrameType /\ g.from = f.from /\ g.to = f.to /\ g.at = f.at
        /\ g.rest = f.rest \ {i}
    BY <1>4, <1>5 DEF FrameType
  <1>7. r = Append(s, g)
    BY <1>2, <1>5 DEF Past
  <1>8. /\ r \in Seq(FrameType) /\ Len(r) = q /\ r[q] = g
        /\ \A j \in 1 .. q : j # q => r[j] = frames[j]
    <2>1. r \in Seq(FrameType) /\ Len(r) = k + 1 /\ r[k + 1] = g
      <3>1. /\ Append(s, g) \in Seq(FrameType) /\ Len(Append(s, g)) = Len(s) + 1
            /\ Append(s, g)[Len(s) + 1] = g
        BY <1>4, <1>6
      <3>2. QED BY <1>4, <1>7, <3>1
    <2>2. ASSUME NEW j \in 1 .. q, j # q PROVE r[j] = frames[j]
      <3>1. j \in 1 .. k
        BY <1>3, <1>4, <2>2
      <3>2. QED BY <1>4, <1>6, <1>7, <3>1
    <2>3. k + 1 = q
      BY <1>3, <1>4
    <2>4. QED BY <2>1, <2>2, <2>3
  <1>9. ASSUME NEW j \in 1 .. q
        PROVE  /\ r[j] \in FrameType
               /\ r[j].from = frames[j].from /\ r[j].to = frames[j].to /\ r[j].at = frames[j].at
               /\ r[j].rest = IF j = q THEN frames[j].rest \ {i} ELSE frames[j].rest
    <2>1. r[j] \in FrameType
      BY <1>8, ElementOfSeq
    <2>2. CASE j = q
      BY <1>4, <1>6, <1>8, <2>1, <2>2
    <2>3. CASE j # q
      BY <1>8, <2>1, <2>3
    <2>4. QED BY <2>2, <2>3
  <1>10. QED BY <1>4, <1>6, <1>8, <1>9 DEF Ahead

\* The copies being made, and the first original, are not free.
LEMMA CopiesAreLive ==
    ASSUME Counted, FramesInv, NEW n \in Node, heap[n].kind = "free"
    PROVE  /\ \A j \in DOMAIN frames : frames[j].to # n /\ frames[j].from # n
           /\ owned[n] = 0
  <1>1. owned[n] = 0
    BY OwnedIsLive DEF Counted, Counts, Counter
  <1>2. ASSUME NEW j \in DOMAIN frames PROVE frames[j].to # n
    BY DEF FramesInv, FrameOK
  <1>3. ASSUME NEW j \in DOMAIN frames PROVE frames[j].from # n
    BY DEF FramesInv, FrameOK
  <1>4. QED BY <1>1, <1>2, <1>3

\* A member has been copied, or passed over, and all calls go on.
LEMMA DeepCopyMemberGoes ==
    ASSUME Counted, LoopInv, FramesInv, whole \in BOOLEAN, DeepCopyMember
    PROVE  LoopInv' /\ FramesInv' /\ whole' \in BOOLEAN
  <1>1. /\ todo = <<>> /\ frames # <<>> /\ loop' = loop
        /\ heap \in Heaps /\ heap \in [Node -> NodeRecord] /\ owned \in [Node -> Nat]
    BY DEF DeepCopyMember, Counted, Counts, Heaps, Counter
  <1>2. LoopInv' /\ whole' \in BOOLEAN
    <2>1. loop = None
      BY <1>1 DEF LoopInv
    <2>2. LoopInv'
      BY <1>1, <2>1 DEF LoopInv
    <2>3. whole' \in BOOLEAN
      BY DEF DeepCopyMember
    <2>4. QED BY <2>2, <2>3
  <1>3. PICK f, q : f = Last(frames) /\ q = Len(frames)
    OBVIOUS
  <1>4. /\ q \in Nat /\ q >= 1 /\ q \in DOMAIN frames /\ f = frames[q] /\ DOMAIN frames = 1 .. q
    BY <1>1, <1>3, Innermost DEF FramesInv
  <1>5. /\ f.from \in Node /\ f.to \in Node /\ FrameOK(f)
        /\ heap[f.to].kind \in {"object", "array"}
        /\ \A i \in f.rest : /\ i \in DOMAIN heap[f.from].content
                             /\ heap[f.to].kind = "object" => i \in Key
                             /\ Replaced(f.to, i) = <<>>
    BY <1>1, <1>3, InnermostFrame
  <1>6. \A j \in 1 .. q : owned[frames[j].to] = 1 /\ heap[frames[j].to].refcount = 1
                          /\ frames[j].to \in Node
    BY <1>4, FromIsApart DEF FramesInv, FrameOK
  <1>7. owned[frames[1].from] > 0 /\ 1 \in 1 .. q /\ frames[1].from \in Node
    BY <1>1, <1>4, FromIsApart DEF FramesInv
  <1>8. ASSUME NEW i \in f.rest, NEW r,
               r = Past(i),
               Grew(q, i)
        PROVE  FramesGo(r, q) /\ r \in Seq(FrameType) /\ Len(r) = q
               /\ r[q].rest = f.rest \ {i} /\ r[q].from = f.from /\ r[q].to = f.to
    <2>1. /\ r \in Seq(FrameType) /\ Len(r) = q /\ Ahead(r, q, i)
          /\ r[q].rest = f.rest \ {i} /\ r[q].from = f.from /\ r[q].to = f.to
      BY <1>1, <1>3, <1>8, Behind
    <2>2. FramesGo(r, q)
      BY <1>4, <1>8, <2>1, CallsGoOn
    <2>3. QED BY <2>1, <2>2
  <1>9. ASSUME NEW i \in f.rest, Grew(q, i),
               frames' = Past(i)
        PROVE  FramesInv'
    <2>1. PICK r : r = Past(i)
      OBVIOUS
    <2>2. FramesGo(r, q) /\ r \in Seq(FrameType) /\ Len(r) = q
      BY <1>8, <1>9, <2>1
    <2>3. QED BY <1>4, <1>9, <2>1, <2>2, CallsAre
  <1>10. ASSUME NEW i \in f.rest, heap' = heap, owned' = owned PROVE Grew(q, i)
    BY <1>6, <1>7, <1>10 DEF Grew
  <1>11. ASSUME NEW i \in f.rest, NEW v \in Value, NEW h \in Heaps,
                \A n \in Node : heap[n].kind # "free" => h[n] = heap[n],
                heap' = Put(h, f.to, i, v), owned' = owned
         PROVE  Grew(q, i)
    <2>1. h[f.to] = heap[f.to]
      BY <1>5, <1>11
    <2>2. SameButContent(h, heap', f.to, Added(f.to, i, v))
      BY <1>5, <1>11, <2>1, PutEffect DEF Content
    <2>3. heap[f.to].kind = "object" =>
            DOMAIN heap'[f.to].content \subseteq DOMAIN heap[f.to].content \cup {i}
      <3>1. heap'[f.to].content = Added(f.to, i, v)
        BY <2>2 DEF SameButContent
      <3>2. heap[f.to].kind = "object" =>
              DOMAIN Added(f.to, i, v) = DOMAIN heap[f.to].content \cup {i}
        BY <1>1, <1>5, AddedDomain
      <3>3. QED BY <3>1, <3>2
    <2>4. ASSUME NEW n \in Node, heap[n].kind # "free"
          PROVE  heap'[n].kind = heap[n].kind /\ heap'[n].refcount = heap[n].refcount
                 /\ (n # f.to => heap'[n].content = heap[n].content)
      BY <1>11, <2>2, <2>4 DEF SameButContent
    <2>5. \A j \in 1 .. q : heap'[frames[j].to].refcount = 1
      <3>1. \A j \in 1 .. q : heap[frames[j].to].kind # "free"
        BY <1>4, CopiesAreLive, <1>6
      <3>2. QED BY <1>6, <2>4, <3>1
    <2>6. QED BY <1>4, <1>6, <1>7, <1>11, <2>3, <2>4, <2>5 DEF Grew
  <1>12. ASSUME NEW i \in f.rest, NEW v, v = heap[f.from].content[i], NEW n \in Free,
                KindOf(v) = "scalar", owned' = owned,
                heap' = Put([heap EXCEPT ![n] = NewNode("scalar", heap[v].text)], f.to, i, n)
         PROVE  Grew(q, i)
    <2>1. v \in Node /\ heap[v].kind = "scalar"
      <3>1. v \in Value
        BY <1>1, <1>5, <1>12, HeapCountable
      <3>2. v # true
        BY <1>12 DEF KindOf
      <3>3. QED BY <1>12, <3>1, <3>2 DEF KindOf, Value
    <2>2. PICK x \in Text : x = heap[v].text
      BY <1>1, <2>1 DEF Heaps, Shaped
    <2>3. PICK h : h = [heap EXCEPT ![n] = NewNode("scalar", x)]
      OBVIOUS
    <2>4. n \in Node /\ heap[n].kind = "free" /\ n \in Value
      BY KindOfNode DEF Free, Value
    <2>5. h \in Heaps
      <3>1. PICK r : r = NewNode("scalar", x)
        OBVIOUS
      <3>2. r \in NodeRecord /\ Shaped(r)
        BY <3>1, NewNodeType
      <3>3. h = [heap EXCEPT ![n] = r]
        BY <2>3, <3>1
      <3>4. QED BY <1>1, <2>4, <3>2, <3>3 DEF Heaps
    <2>6. \A m \in Node : heap[m].kind # "free" => h[m] = heap[m]
      BY <1>1, <2>3, <2>4
    <2>7. heap' = Put(h, f.to, i, n)
      BY <1>12, <2>2, <2>3
    <2>8. QED BY <1>11, <1>12, <2>4, <2>5, <2>6, <2>7
  <1>13. ASSUME NEW i \in f.rest, NEW v, v = heap[f.from].content[i], NEW n \in Free,
                v \in Containers, owned' = Own(n, 1),
                heap' = [heap EXCEPT ![n] = NewNode(KindOf(v), None)],
                frames' = Append(Past(i), Frame(v, n, i))
         PROVE  FramesInv'
    <2>1. /\ n \in Node /\ heap[n].kind = "free" /\ owned[n] = 0 /\ v \in Node
          /\ \A j \in DOMAIN frames : frames[j].to # n /\ frames[j].from # n
      <3>1. n \in Node /\ heap[n].kind = "free" /\ v \in Node
        BY <1>13, KindOfNode DEF Free, Containers
      <3>2. QED BY <3>1, CopiesAreLive
    <2>2. PICK k : k = KindOf(v)
      OBVIOUS
    <2>3. k = heap[v].kind /\ k \in {"object", "array"} /\ v # n
      BY <1>13, <2>1, <2>2, KindOfNode DEF Containers
    <2>4. heap' = [heap EXCEPT ![n] = NewNode(k, None)]
      BY <1>13, <2>2
    <2>5. /\ \A m \in Node \ {n} : heap'[m] = heap[m]
          /\ heap'[n] = NewNode(k, None)
      BY <1>1, <2>1, <2>4
    <2>6. heap'[n].kind = k /\ heap'[n].content = <<>> /\ heap'[n].refcount = 1
      BY <2>5 DEF NewNode
    <2>7. \A m \in Node : owned'[m] = IF m = n THEN owned[m] + 1 ELSE owned[m]
      BY <1>13, <2>1, OwnEffect DEF Value
    <2>8. owned'[n] = 1 /\ \A m \in Node \ {n} : owned'[m] = owned[m]
      BY <1>1, <2>1, <2>7
    <2>9. Grew(q, i)
      <3>1. \A m \in Node : heap[m].kind # "free" => heap'[m] = heap[m]
        BY <2>1, <2>5
      <3>2. \A j \in 1 .. q : heap'[frames[j].to].refcount = 1 /\ owned'[frames[j].to] = 1
        BY <1>4, <1>6, <2>1, <2>5, <2>8
      <3>3. owned'[frames[1].from] > 0
        BY <1>4, <1>7, <2>1, <2>8
      <3>4. heap'[frames[q].to] = heap[frames[q].to]
        BY <1>4, <1>6, <2>1, <2>5
      <3>5. QED BY <3>1, <3>2, <3>3, <3>4 DEF Grew
    <2>10. PICK s : s = Past(i)
      OBVIOUS
    <2>11. /\ FramesGo(s, q) /\ s \in Seq(FrameType) /\ Len(s) = q
           /\ s[q].rest = f.rest \ {i} /\ s[q].from = f.from /\ s[q].to = f.to
      BY <1>8, <2>9, <2>10
    <2>12. PICK g : g = Frame(v, n, i)
      OBVIOUS
    <2>13. /\ g.from = v /\ g.to = n /\ g.at = i /\ g.rest = DOMAIN heap[v].content
           /\ g \in FrameType
      <3>1. DOMAIN heap[v].content \subseteq Index
        BY <1>1, <2>1, HasMembers
      <3>2. g = [from |-> v, to |-> n, at |-> i, rest |-> DOMAIN heap[v].content]
        BY <2>12 DEF Frame, Content
      <3>3. i \in Index
        BY <1>1, <1>5, HasMembers
      <3>4. QED BY <2>1, <3>1, <3>2, <3>3 DEF FrameType
    <2>14. FrameOK(g)'
      BY <2>1, <2>3, <2>5, <2>6, <2>8, <2>13, EmptyContent DEF FrameOK
    <2>15. PICK r : r = Append(s, g)
      OBVIOUS
    <2>16. PICK p \in Nat : p = q + 1
      BY <1>4
    <2>17. /\ r \in Seq(FrameType) /\ Len(r) = p /\ r[p] = g
           /\ \A j \in 1 .. q : r[j] = s[j]
      BY <2>11, <2>13, <2>15, <2>16
    <2>18. FramesGo(r, q)
      <3>1. \A j \in 1 .. q : FrameOK(r[j])'
        BY <2>11, <2>17 DEF FramesGo
      <3>2. \A j, l \in 1 .. q : l = j + 1 => Nested(r[j], r[l])'
        BY <2>11, <2>17 DEF FramesGo
      <3>3. QED BY <1>7, <2>11, <2>17, <3>1, <3>2 DEF FramesGo
    <2>19. \A j \in 1 .. q : s[j].to = frames[j].to /\ s[j].from = frames[j].from
      <3>1. Ahead(s, q, i)
        BY <1>1, <1>3, <2>10, Behind
      <3>2. QED BY <3>1 DEF Ahead
    <2>20. Nested(s[q], g)'
      <3>1. f.from # n /\ f.to # n
        BY <1>4, <2>1
      <3>2. i \in DOMAIN heap'[f.from].content /\ heap'[f.from].content[i] = v
        BY <1>5, <1>13, <2>5, <3>1
      <3>3. heap'[f.to].kind = "object" => i \notin DOMAIN heap'[f.to].content
        BY <1>5, <2>5, <3>1 DEF FrameOK
      <3>4. QED BY <2>11, <2>13, <3>2, <3>3 DEF Nested
    <2>21. FramesGo(r, p)
      <3>1. FrameOK(r[p])'
        BY <2>14, <2>17
      <3>2. (\A j \in 1 .. q : r[j].to # r[p].to) /\ r[p].to # r[1].from
        BY <1>4, <1>7, <2>1, <2>13, <2>17, <2>19
      <3>3. Nested(r[q], r[p])'
        <4>1. r[q] = s[q] /\ r[p] = g
          BY <1>4, <2>17
        <4>2. QED BY <2>20, <4>1
      <3>4. QED BY <1>4, <2>16, <2>18, <3>1, <3>2, <3>3, CallAdded
    <2>22. frames' = r
      BY <1>13, <2>10, <2>12, <2>15
    <2>23. QED BY <2>17, <2>21, <2>22, CallsAre
  <1>14. FramesInv'
    <2>1. PICK i \in f.rest :
            LET v == Content(f.from)[i]
                rest == Append(Front(frames), [f EXCEPT !.rest = @ \ {i}])
            IN  /\ IsNext(i, f.rest, f.from)
                /\ \/ /\ v # true \/ PutMayFail(f.to, i)
                      /\ frames' = rest /\ whole' = FALSE
                      /\ UNCHANGED <<heap, owned>>
                   \/ /\ v = true
                      /\ heap' = Put(heap, f.to, i, true)
                      /\ frames' = rest /\ UNCHANGED <<owned, whole>>
                   \/ \E n \in Free :
                        /\ KindOf(v) = "scalar"
                        /\ heap' = Put([heap EXCEPT ![n] = NewNode("scalar", heap[v].text)],
                                       f.to, i, n)
                        /\ frames' = rest /\ UNCHANGED <<owned, whole>>
                   \/ \E n \in Free :
                        /\ v \in Containers
                        /\ heap' = [heap EXCEPT ![n] = NewNode(KindOf(v), None)]
                        /\ owned' = Own(n, 1)
                        /\ frames' = Append(rest, Frame(v, n, i))
                        /\ UNCHANGED whole
      BY <1>3 DEF DeepCopyMember
    <2>2. PICK v : v = heap[f.from].content[i]
      OBVIOUS
    <2>3. PICK rest : rest = Past(i)
      OBVIOUS
    <2>4. \/ frames' = rest /\ heap' = heap /\ owned' = owned
          \/ heap' = Put(heap, f.to, i, true) /\ frames' = rest /\ owned' = owned
          \/ \E n \in Free :
               /\ KindOf(v) = "scalar"
               /\ heap' = Put([heap EXCEPT ![n] = NewNode("scalar", heap[v].text)], f.to, i, n)
               /\ frames' = rest /\ owned' = owned
          \/ \E n \in Free :
               /\ v \in Containers
               /\ heap' = [heap EXCEPT ![n] = NewNode(KindOf(v), None)]
               /\ owned' = Own(n, 1)
               /\ frames' = Append(rest, Frame(v, n, i))
      BY <1>3, <2>1, <2>2, <2>3 DEF Content, Past
    <2>5. ASSUME frames' = rest, heap' = heap, owned' = owned PROVE FramesInv'
      BY <1>9, <1>10, <2>3, <2>5
    <2>6. ASSUME heap' = Put(heap, f.to, i, true), frames' = rest, owned' = owned
          PROVE  FramesInv'
      <3>1. true \in Value
        BY DEF Value
      <3>2. Grew(q, i)
        BY <1>1, <1>11, <2>6, <3>1
      <3>3. QED BY <1>9, <2>3, <2>6, <3>2
    <2>7. ASSUME NEW n \in Free, KindOf(v) = "scalar",
                 heap' = Put([heap EXCEPT ![n] = NewNode("scalar", heap[v].text)], f.to, i, n),
                 frames' = rest, owned' = owned
          PROVE  FramesInv'
      <3>1. Grew(q, i)
        BY <1>12, <2>2, <2>7
      <3>2. QED BY <1>9, <2>3, <2>7, <3>1
    <2>8. ASSUME NEW n \in Free, v \in Containers, owned' = Own(n, 1),
                 heap' = [heap EXCEPT ![n] = NewNode(KindOf(v), None)],
                 frames' = Append(rest, Frame(v, n, i))
          PROVE  FramesInv'
      BY <1>13, <2>2, <2>3, <2>8
    <2>9. QED BY <2>4, <2>5, <2>6, <2>7, <2>8
  <1>15. QED BY <1>2, <1>14

\* What has been copied is handed to the call around it, or the last one returns.
LEMMA DeepCopyReturnGoes ==
    ASSUME Counted, LoopInv, FramesInv, whole \in BOOLEAN, DeepCopyReturn
    PROVE  LoopInv' /\ FramesInv' /\ whole' \in BOOLEAN
  <1>1. /\ todo = <<>> /\ frames # <<>> /\ loop' = loop /\ frames' = Front(frames)
        /\ heap \in Heaps /\ heap \in [Node -> NodeRecord] /\ owned \in [Node -> Nat]
    BY DEF DeepCopyReturn, Counted, Counts, Heaps, Counter
  <1>2. LoopInv' /\ whole' \in BOOLEAN
    <2>1. loop = None
      BY <1>1 DEF LoopInv
    <2>2. LoopInv'
      BY <1>1, <2>1 DEF LoopInv
    <2>3. whole' \in BOOLEAN
      BY DEF DeepCopyReturn
    <2>4. QED BY <2>2, <2>3
  <1>3. PICK f, r : f = Last(frames) /\ r = Front(frames)
    OBVIOUS
  <1>4. CASE r = <<>>
    <2>1. frames' = <<>> /\ DOMAIN frames' = {} /\ frames' \in Seq(FrameType)
      BY <1>1, <1>3, <1>4
    <2>2. FramesInv'
      BY <2>1 DEF FramesInv
    <2>3. QED BY <1>2, <2>2
  <1>5. CASE r # <<>>
    <2>1. PICK e : e = Last(r)
      OBVIOUS
    <2>2. PICK q : q = Len(frames) - 1
      OBVIOUS
    <2>3. /\ q \in DOMAIN frames /\ e = frames[q] /\ q >= 1 /\ q \in Nat
          /\ f = frames[Len(frames)] /\ Len(frames) \in DOMAIN frames
          /\ FrameOK(e) /\ Nested(e, f)
          /\ e.from \in Node /\ e.to \in Node
          /\ heap[e.to].kind \in {"object", "array"}
          /\ heap[e.to].kind = "object" => f.at \in Key
      <3>1. /\ q \in DOMAIN frames /\ e = frames[q] /\ q >= 1
            /\ f = frames[Len(frames)] /\ Len(frames) \in DOMAIN frames
            /\ FrameOK(e) /\ Nested(e, f) /\ Len(frames) \in Nat
            /\ e.from \in Node /\ e.to \in Node
            /\ heap[e.to].kind \in {"object", "array"}
            /\ heap[e.to].kind = "object" => f.at \in Key
        BY <1>1, <1>3, <1>5, <2>1, <2>2, OuterFrame
      <3>2. q \in Nat
        BY <2>2, <3>1
      <3>3. QED BY <3>1, <3>2
    <2>4. /\ frames \in Seq(FrameType) /\ DOMAIN frames = 1 .. q + 1 /\ Len(frames) = q + 1
      BY <2>2, <2>3, LenProperties DEF FramesInv
    <2>5. r \in Seq(FrameType) /\ Len(r) = q /\ \A j \in 1 .. q : r[j] = frames[j]
      BY <1>1, <1>3, <2>2, <2>4, Innermost
    <2>6. f.to \in Node /\ owned[f.to] > 0
      BY <1>1, <1>3, InnermostFrame DEF FrameOK
    <2>7. Ahead(r, q, f.at)
      <3>1. ASSUME NEW j \in 1 .. q
            PROVE  /\ r[j] \in FrameType
                   /\ r[j].from = frames[j].from /\ r[j].to = frames[j].to
                   /\ r[j].at = frames[j].at
                   /\ r[j].rest = IF j = q THEN frames[j].rest \ {f.at} ELSE frames[j].rest
        <4>1. r[j] = frames[j] /\ r[j] \in FrameType
          BY <2>5, ElementOfSeq
        <4>2. j = q => frames[j].rest = frames[j].rest \ {f.at}
          BY <2>3 DEF Nested
        <4>3. QED BY <4>1, <4>2
      <3>2. QED BY <3>1 DEF Ahead
    <2>8. ASSUME NEW j \in 1 .. q
          PROVE  /\ j \in DOMAIN frames /\ frames[j].to # f.to
                 /\ owned[frames[j].to] = 1 /\ heap[frames[j].to].refcount = 1
                 /\ frames[j].to \in Node /\ heap[frames[j].to].kind # "free"
      <3>1. j \in DOMAIN frames /\ j # Len(frames)
        BY <2>3, <2>4
      <3>2. frames[j].to # f.to
        BY <2>3, <3>1 DEF FramesInv
      <3>3. /\ owned[frames[j].to] = 1 /\ heap[frames[j].to].refcount = 1
            /\ heap[frames[j].to].kind # "free"
        BY <3>1 DEF FramesInv, FrameOK
      <3>4. QED BY <3>1, <3>2, <3>3, FromIsApart
    <2>9. /\ owned[frames[1].from] > 0 /\ 1 \in 1 .. q /\ frames[1].from \in Node
          /\ frames[1].from # f.to
      <3>1. 1 \in DOMAIN frames /\ 1 \in 1 .. q
        BY <2>3, <2>4
      <3>2. QED BY <1>1, <2>3, <3>1, FromIsApart DEF FramesInv
    <2>10. ASSUME owned' = Own(f.to, -1)
           PROVE  /\ \A j \in 1 .. q : owned'[frames[j].to] = 1
                  /\ owned'[frames[1].from] > 0
      <3>1. \A m \in Node : owned'[m] = IF m = f.to THEN owned[m] + -1 ELSE owned[m]
        BY <2>6, <2>10, OwnEffect DEF Value
      <3>2. QED BY <2>8, <2>9, <3>1
    <2>11. ASSUME owned' = Own(f.to, -1), heap' = heap PROVE Grew(q, f.at)
      BY <2>8, <2>10, <2>11 DEF Grew
    <2>12. ASSUME owned' = Own(f.to, -1), heap' = Put(heap, e.to, f.at, f.to)
           PROVE  Grew(q, f.at)
      <3>1. f.to \in Value
        BY <2>6 DEF Value
      <3>2. SameButContent(heap, heap', e.to, Added(e.to, f.at, f.to))
        BY <1>1, <2>3, <2>12, <3>1, PutEffect DEF Content
      <3>3. heap[e.to].kind = "object" =>
              DOMAIN heap'[e.to].content \subseteq DOMAIN heap[e.to].content \cup {f.at}
        <4>1. heap'[e.to].content = Added(e.to, f.at, f.to)
          BY <3>2 DEF SameButContent
        <4>2. heap[e.to].kind = "object" =>
                DOMAIN Added(e.to, f.at, f.to) = DOMAIN heap[e.to].content \cup {f.at}
          BY <1>1, <2>3, <3>1, AddedDomain, ZenonT(60)
        <4>3. QED BY <4>1, <4>2
      <3>4. ASSUME NEW n \in Node
            PROVE  /\ heap'[n].kind = heap[n].kind /\ heap'[n].refcount = heap[n].refcount
                   /\ n # e.to => heap'[n].content = heap[n].content
        BY <3>2 DEF SameButContent
      <3>5. \A j \in 1 .. q : heap'[frames[j].to].refcount = 1 /\ owned'[frames[j].to] = 1
        BY <2>8, <2>10, <2>12, <3>4
      <3>6. owned'[frames[1].from] > 0
        BY <2>10, <2>12
      <3>7. QED BY <2>3, <3>3, <3>4, <3>5, <3>6 DEF Grew
    <2>13. Grew(q, f.at)
      BY <1>3, <1>5, <2>1, <2>11, <2>12 DEF DeepCopyReturn
    <2>14. FramesGo(r, q)
      BY <2>3, <2>7, <2>13, CallsGoOn
    <2>15. FramesInv'
      BY <1>1, <1>3, <2>3, <2>5, <2>14, CallsAre
    <2>16. QED BY <1>2, <2>15
  <1>6. QED BY <1>4, <1>5

-----------------------------------------------------------------------------
(* The inductive invariant holds.                                           *)

\* At first no value is allocated.
LEMMA InitIInv == ASSUME Init PROVE IInv
  <1>1. heap = [n \in Node |-> FreeNode] /\ owned = [n \in Node |-> 0]
        /\ lost = [n \in Node |-> 0] /\ todo = <<>>
        /\ loop = None /\ frames = <<>> /\ whole = TRUE
    BY DEF Init
  <1>2. PICK z : z = FreeNode
    OBVIOUS
  <1>3. z \in NodeRecord /\ Shaped(z) /\ z.kind = "free" /\ z.content = <<>> /\ z.refcount = 0
    BY <1>2, FreeNodeType
  <1>4. heap \in Heaps /\ \A n \in Node : heap[n] = z
    BY <1>1, <1>2, <1>3 DEF Heaps
  <1>5. owned \in Counter /\ lost \in Counter /\ todo \in Seq(Value)
    BY <1>1, EmptyContent DEF Counter
  <1>6. ASSUME NEW n \in Node
        PROVE  /\ heap[n].refcount = Refs(heap, owned, lost, todo, n)
               /\ heap[n].kind = "free" <=> heap[n].refcount = 0
    <2>1. Places(heap, n) = {}
      <3>1. Countable(heap)
        BY <1>4, HeapCountable
      <3>2. ASSUME NEW p \in Places(heap, n) PROVE FALSE
        <4>1. p[1] \in Node /\ p[2] \in DOMAIN heap[p[1]].content
          BY <3>1, <3>2, PlacesType
        <4>2. DOMAIN heap[p[1]].content = {}
          BY <1>3, <1>4, <4>1, EmptyContent
        <4>3. QED BY <4>1, <4>2
      <3>3. QED BY <3>2
    <2>2. Cardinality(Places(heap, n)) = 0
      BY <2>1, FS_EmptySet
    <2>3. Count(todo, n) = 0
      BY <1>1, CountEmpty
    <2>4. QED BY <1>1, <1>3, <1>4, <2>2, <2>3 DEF Refs
  <1>7. Counted
    BY <1>4, <1>5, <1>6 DEF Counted, Counts, Exact
  <1>8. LoopInv
    BY <1>1 DEF LoopInv
  <1>9. FramesInv
    <2>1. DOMAIN frames = {} /\ frames \in Seq(FrameType)
      BY <1>1
    <2>2. QED BY <1>1, <2>1 DEF FramesInv
  <1>10. QED BY <1>1, <1>7, <1>8, <1>9 DEF IInv

\* The calls that are over with what they have to release.
LEMMA PlainCall ==
    ASSUME IInv, Idle, NoCall, Counts(heap', owned', lost', todo')
    PROVE  IInv'
  <1>1. LoopInv' /\ FramesInv' /\ whole' \in BOOLEAN
    BY NoCallInv DEF IInv
  <1>2. Counted'
    BY DEF Counted
  <1>3. QED BY <1>1, <1>2 DEF IInv

\* A call of the program keeps the inductive invariant.
LEMMA CallKeepsIInv == ASSUME IInv, Call PROVE IInv'
  <1>1. Counted /\ LoopInv /\ FramesInv /\ whole \in BOOLEAN /\ Idle
    BY DEF IInv, Call
  <1>2. \A v \in Held : v \in Value
    BY DEF Held
  <1>3. ASSUME NEW n \in Free, NEW kind \in {"object", "array", "scalar"}, NEW t,
               t \in IF kind = "scalar" THEN Text ELSE {None}, New(n, kind, t)
        PROVE  IInv'
    <2>1. Counts([heap EXCEPT ![n] = NewNode(kind, t)], Own(n, 1), lost, todo)
      BY <1>1, <1>3, NewCounts
    <2>2. Counts(heap', owned', lost', todo')
      BY <1>3, <2>1 DEF New
    <2>3. QED BY <1>1, <1>3, <2>2, PlainCall DEF New
  <1>4. ASSUME NEW n \in Node, NEW t \in Text, ScalarSet(n, t) PROVE IInv'
    BY <1>1, <1>4, ScalarSetCounts, PlainCall DEF ScalarSet
  <1>5. ASSUME NEW c \in Node, NEW v \in Held, NEW taken \in BOOLEAN,
               NEW k \in Key \cup {BadKey}, ObjectSetNew(c, k, v, taken)
        PROVE  IInv'
    BY <1>1, <1>2, <1>5, ObjectSetNewCounts, PlainCall DEF ObjectSetNew, Passing
  <1>6. ASSUME NEW c \in Node, NEW v \in Held, NEW taken \in BOOLEAN, NEW k \in Key,
               IterSetNew(c, k, v, taken)
        PROVE  IInv'
    BY <1>1, <1>2, <1>6, IterSetNewCounts, PlainCall DEF IterSetNew, Passing
  <1>7. ASSUME NEW c \in Node, NEW v \in Held, NEW taken \in BOOLEAN,
               ArrayAppendNew(c, v, taken)
        PROVE  IInv'
    BY <1>1, <1>2, <1>7, ArrayAppendNewCounts, PlainCall DEF ArrayAppendNew, Passing
  <1>8. ASSUME NEW c \in Node, NEW v \in Held, NEW taken \in BOOLEAN, NEW i,
               ArraySetNew(c, i, v, taken)
        PROVE  IInv'
    BY <1>1, <1>2, <1>8, ArraySetNewCounts, PlainCall DEF ArraySetNew, Passing
  <1>9. ASSUME NEW c \in Node, NEW v \in Held, NEW taken \in BOOLEAN, NEW i,
               ArrayInsertNew(c, i, v, taken)
        PROVE  IInv'
    BY <1>1, <1>2, <1>9, ArrayInsertNewCounts, PlainCall DEF ArrayInsertNew, Passing
  <1>10. ASSUME NEW c \in Node, NEW i, Take(c, i) PROVE IInv'
    BY <1>1, <1>10, TakeCounts, PlainCall DEF Take
  <1>11. ASSUME NEW a \in Node, NEW b \in Node, ArrayExtend(a, b) PROVE IInv'
    BY <1>1, <1>11, ArrayExtendCounts, PlainCall DEF ArrayExtend
  <1>12. ASSUME NEW op \in {"update", "existing", "missing"}, NEW a \in Node, NEW b \in Node,
                BeginUpdate(op, a, b)
         PROVE  IInv'
    <2>1. LoopInv' /\ FramesInv' /\ whole' = whole
      BY <1>1, <1>12, LoopBegins
    <2>2. Counted'
      BY <1>1, <1>12 DEF Counted, BeginUpdate
    <2>3. QED BY <1>1, <2>1, <2>2 DEF IInv
  <1>13. ASSUME NEW a \in Node, NEW b \in Free, BeginCopy(a, b) PROVE IInv'
    <2>1. LoopInv' /\ FramesInv' /\ whole' = whole
      BY <1>1, <1>13, LoopBegins DEF Free
    <2>2. Counted'
      BY <1>1, <1>13, CopyCounts DEF Counted
    <2>3. QED BY <1>1, <2>1, <2>2 DEF IInv
  <1>14. ASSUME NEW a \in Node, NEW b \in Free, BeginDeepCopy(a, b) PROVE IInv'
    <2>1. LoopInv' /\ FramesInv' /\ whole' = TRUE
      BY <1>1, <1>14, DeepCopyBegins
    <2>2. Counted'
      BY <1>1, <1>14, CopyCounts DEF Counted
    <2>3. QED BY <2>1, <2>2 DEF IInv
  <1>15. ASSUME NEW n \in Free, NEW kind \in {"object", "array"}, New(n, kind, None) PROVE IInv'
    BY <1>3, <1>15
  <1>16. ASSUME NEW n \in Free, NEW t \in Text, New(n, "scalar", t) PROVE IInv'
    BY <1>3, <1>16
  <1>17. QED
    BY <1>4, <1>5, <1>6, <1>7, <1>8, <1>9, <1>10, <1>11, <1>12, <1>13, <1>14, <1>15, <1>16
       DEF Call

\* Every step keeps the inductive invariant.
LEMMA NextKeepsIInv == ASSUME IInv, [Next]_vars PROVE IInv'
  <1>1. Counted /\ LoopInv /\ FramesInv /\ whole \in BOOLEAN
    BY DEF IInv
  <1>2. CASE Decref
    <2>1. Counted'
      BY <1>1, <1>2, DecrefCounts DEF Counted
    <2>2. QED BY <1>1, <1>2, <2>1, DecrefInv DEF IInv
  <1>3. CASE LoopStep \/ LoopEnd
    <2>1. Counted'
      BY <1>1, <1>3, LoopCounts DEF Counted
    <2>2. LoopInv' /\ FramesInv' /\ whole' = whole
      BY <1>1, <1>3, LoopGoes
    <2>3. QED BY <1>1, <2>1, <2>2 DEF IInv
  <1>4. CASE DeepCopyMember
    <2>1. Counted'
      BY <1>1, <1>4, DeepCopyMemberCounts DEF Counted
    <2>2. QED BY <1>1, <1>4, <2>1, DeepCopyMemberGoes DEF IInv
  <1>5. CASE DeepCopyReturn
    <2>1. Counted'
      BY <1>1, <1>5, DeepCopyReturnCounts DEF Counted
    <2>2. QED BY <1>1, <1>5, <2>1, DeepCopyReturnGoes DEF IInv
  <1>6. CASE Call
    BY <1>6, CallKeepsIInv
  <1>7. ASSUME Idle, NEW n \in Node, Drop(n) PROVE IInv'
    BY <1>1, <1>7, DropCounts, PlainCall DEF Drop
  <1>8. ASSUME Idle, NEW n \in Node, Clear(n) PROVE IInv'
    BY <1>1, <1>8, ClearCounts, PlainCall DEF Clear
  <1>9. ASSUME Idle, NEW c \in Node, NEW i, RemoveMember(c, i) PROVE IInv'
    BY <1>1, <1>9, RemoveMemberCounts, PlainCall DEF RemoveMember
  <1>10. CASE UNCHANGED vars
    BY <1>1, <1>10 DEF vars, calls, IInv, Counted, LoopInv, FramesInv, FrameOK, Nested
  <1>11. QED
    BY <1>2, <1>3, <1>4, <1>5, <1>6, <1>7, <1>8, <1>9, <1>10 DEF Next

\* The program never leaves the states of the inductive invariant.
THEOREM IInvHolds == Spec => []IInv
  <1>1. Init => IInv
    BY InitIInv
  <1>2. IInv /\ [Next]_vars => IInv'
    BY NextKeepsIInv
  <1>3. QED BY <1>1, <1>2, PTL DEF Spec

\* CountsAreExact is the part of the invariant that is about the counts.
THEOREM CountsStayExact == Spec => []CountsAreExact
  <1>1. IInv => CountsAreExact
    <2>1. SUFFICES ASSUME IInv, NEW n \in Node
                   PROVE  /\ heap[n].refcount = References(n)
                          /\ n \in Free <=> heap[n].refcount = 0
      BY DEF CountsAreExact
    <2>2. Exact(heap, owned, lost, todo)
      BY <2>1 DEF IInv, Counted, Counts
    <2>3. heap[n].refcount = References(n)
      BY <2>2 DEF Exact, Refs, References, Count
    <2>4. n \in Free <=> heap[n].refcount = 0
      BY <2>2, KindOfNode DEF Exact, Free
    <2>5. QED BY <2>3, <2>4
  <1>2. QED BY <1>1, IInvHolds, PTL

\* The types of all variables are kept: members are values, an object's keys are
\* keys, counts are never negative, and a copy is made into an allocated value.
THEOREM TypeCorrect == Spec => []TypeOK
  <1>1. IInv => TypeOK
    <2> SUFFICES ASSUME IInv PROVE TypeOK
      OBVIOUS
    <2>1. /\ Counted /\ LoopInv /\ FramesInv /\ whole \in BOOLEAN
          /\ heap \in Heaps /\ todo \in Seq(Value)
      BY DEF IInv, Counted, Counts
    <2>2. ASSUME NEW n \in Node
          PROVE  /\ KindOf(n) \in {"free", "object", "array", "scalar"}
                 /\ Members(n) \subseteq Value
                 /\ CASE KindOf(n) = "object" -> DOMAIN Content(n) \subseteq Key
                      [] KindOf(n) = "array"  -> Content(n) \in Seq(Value)
                      [] OTHER                -> Content(n) = <<>>
                 /\ heap[n].text \in IF KindOf(n) = "scalar" THEN Text ELSE {None}
                 /\ {heap[n].refcount, heap[n].size, owned[n], lost[n]} \subseteq Nat
      <3>1. heap[n] \in NodeRecord /\ Shaped(heap[n]) /\ KindOf(n) = heap[n].kind
        BY <2>1, KindOfNode DEF Heaps
      <3>2. KindOf(n) \in {"free", "object", "array", "scalar"}
        BY <3>1 DEF NodeRecord, Kind
      <3>3. Members(n) \subseteq Value
        BY <2>1, HeapCountable DEF Members, Content
      <3>4. (CASE KindOf(n) = "object" -> DOMAIN Content(n) \subseteq Key
               [] KindOf(n) = "array"  -> Content(n) \in Seq(Value)
               [] OTHER                -> Content(n) = <<>>)
        <4>1. KindOf(n) = "object" => DOMAIN Content(n) \subseteq Key
          BY <3>1, DictType DEF Shaped, Content
        <4>2. KindOf(n) = "array" => Content(n) \in Seq(Value)
          BY <3>1 DEF Shaped, Content
        <4>3. KindOf(n) \notin {"object", "array"} => Content(n) = <<>>
          BY <3>1 DEF Shaped, Content
        <4>4. QED BY <4>1, <4>2, <4>3
      <3>5. heap[n].text \in IF KindOf(n) = "scalar" THEN Text ELSE {None}
        BY <3>1 DEF Shaped
      <3>6. heap[n].refcount \in Nat /\ owned[n] \in Nat /\ lost[n] \in Nat
        BY <2>1, PartsType DEF Counted
      <3>7. heap[n].size \in Nat
        BY <3>1 DEF NodeRecord
      <3>8. QED BY <3>2, <3>3, <3>4, <3>5, <3>6, <3>7
    <2>3. loop # None => /\ loop.op \in {"update", "existing", "missing", "copy"}
                         /\ loop.rest \subseteq DOMAIN Content(loop.from)
      BY <2>1 DEF LoopInv, Loop, Content
    <2>4. ASSUME NEW i \in DOMAIN frames
          PROVE  frames[i].to \in Live /\ frames[i].rest \subseteq DOMAIN Content(frames[i].from)
      <3>1. FrameOK(frames[i]) /\ frames[i].to \in Node
        BY <2>1, FromIsApart DEF FramesInv
      <3>2. KindOf(frames[i].to) # "free"
        BY <3>1, KindOfNode DEF FrameOK
      <3>3. QED BY <3>1, <3>2 DEF FrameOK, Live, Free, Content
    <2>5. QED BY <2>1, <2>2, <2>3, <2>4 DEF TypeOK
  <1>2. QED BY <1>1, IInvHolds, PTL

-----------------------------------------------------------------------------
(* What can be reached.                                                     *)

\* Reachable(S) is the least closed set that holds S.
LEMMA ReachableIsLeast ==
    ASSUME NEW S \in SUBSET Value, heap \in Heaps
    PROVE  /\ S \subseteq Reachable(S) /\ Reachable(S) \subseteq Value
           /\ Closed(Reachable(S))
           /\ \A C \in SUBSET Value : S \subseteq C /\ Closed(C) => Reachable(S) \subseteq C
  <1>1. PICK closed : closed = {C \in SUBSET Value : S \subseteq C /\ Closed(C)}
    OBVIOUS
  <1>2. Reachable(S) = {v \in Value : \A C \in closed : v \in C}
    BY <1>1 DEF Reachable
  <1>3. \A C \in closed : S \subseteq C /\ Closed(C) /\ C \subseteq Value
    BY <1>1
  <1>4. S \subseteq Reachable(S) /\ Reachable(S) \subseteq Value
    BY <1>2, <1>3
  <1>5. ASSUME NEW n \in Reachable(S) \ {true} PROVE Members(n) \subseteq Reachable(S)
    <2>1. n \in Node
      BY <1>4, <1>5 DEF Value
    <2>2. Members(n) \subseteq Value
      BY <2>1, HeapCountable DEF Members, Content
    <2>3. ASSUME NEW C \in closed PROVE Members(n) \subseteq C
      BY <1>2, <1>3, <1>5 DEF Closed
    <2>4. QED BY <1>2, <2>2, <2>3
  <1>6. Closed(Reachable(S))
    BY <1>5 DEF Closed
  <1>7. ASSUME NEW C \in SUBSET Value, S \subseteq C, Closed(C) PROVE Reachable(S) \subseteq C
    BY <1>1, <1>2, <1>7
  <1>8. QED BY <1>4, <1>6, <1>7

\* Of finitely many sets one is in no other.
LEMMA Maximal ==
    ASSUME NEW S, IsFiniteSet(S), NEW T \in SUBSET SUBSET S, T # {}
    PROVE  \E A \in T : \A B \in T : A \subseteq B => A = B
  <1>1. PICK U : U = {S \ A : A \in T}
    OBVIOUS
  <1>2. U \subseteq FiniteSubsetsOf(S) /\ U # {} /\ U \subseteq SUBSET S
    <2>1. U # {} /\ U \subseteq SUBSET S
      <3>1. PICK A \in T : TRUE
        OBVIOUS
      <3>2. S \ A \in U
        BY <1>1
      <3>3. ASSUME NEW X \in U PROVE X \in SUBSET S
        BY <1>1
      <3>4. QED BY <3>2, <3>3
    <2>2. FiniteSubsetsOf(S) = SUBSET S
      BY FS_FiniteSubsetsOfFinite
    <2>3. QED BY <2>1, <2>2
  <1>3. PICK R : R = StrictSubsetOrdering(S)
    OBVIOUS
  <1>4. IsWellFoundedOn(R, FiniteSubsetsOf(S))
    BY <1>3, FS_StrictSubsetOrderingWellFounded
  <1>5. PICK X \in U : \A Y \in U : ~ (<<Y, X>> \in R)
    BY <1>2, <1>4, WFMin
  <1>6. PICK A \in T : X = S \ A
    BY <1>1
  <1>7. ASSUME NEW B \in T, A \subseteq B PROVE A = B
    <2>1. PICK Y \in U : Y = S \ B
      BY <1>1
    <2>2. ~(<<Y, X>> \in R)
      BY <1>5
    <2>3. <<Y, X>> \in R <=> Y \subseteq X /\ Y # X
      BY <1>2, <1>3 DEF StrictSubsetOrdering
    <2>4. Y \subseteq X
      BY <1>6, <1>7, <2>1
    <2>5. Y = X
      BY <2>2, <2>3, <2>4
    <2>6. QED BY <1>6, <1>7, <2>1, <2>5
  <1>8. QED BY <1>7

\* A live value that nobody holds is a member of another value, between calls.
LEMMA HasParent ==
    ASSUME Counted, todo = <<>>, NEW n \in Live, ~(owned[n] + lost[n] > 0)
    PROVE  \E c \in Live : n \in Members(c)
  <1>1. n \in Node /\ heap[n].kind # "free"
    BY KindOfNode DEF Live, Free
  <1>2. Count(todo, n) = 0
    BY CountEmpty
  <1>3. /\ owned[n] \in Nat /\ lost[n] \in Nat /\ Cardinality(Places(heap, n)) \in Nat
        /\ heap[n].refcount = owned[n] + lost[n] + Count(todo, n) + Cardinality(Places(heap, n))
        /\ heap[n].kind = "free" <=> heap[n].refcount = 0
    BY <1>1, PartsType DEF Counted
  <1>4. Cardinality(Places(heap, n)) # 0
    BY <1>1, <1>2, <1>3
  <1>5. PICK p : p \in Places(heap, n)
    BY <1>4, FS_EmptySet
  <1>6. heap \in Heaps
    BY DEF Counted, Counts
  <1>7. /\ p[1] \in Node /\ p[2] \in DOMAIN heap[p[1]].content
        /\ heap[p[1]].content[p[2]] = n
    BY <1>5, <1>6, HeapCountable, PlacesType
  <1>8. heap[p[1]].kind # "free"
    BY <1>6, <1>7, HasMembers
  <1>9. p[1] \in Live
    BY <1>7, <1>8, KindOfNode DEF Live, Free
  <1>10. n \in Members(p[1])
    BY <1>7 DEF Members, Content
  <1>11. QED BY <1>9, <1>10

\* Memory that nobody can reach is in a cycle, hangs on one, or was lost: a value
\* outside all that has a parent outside all that, which reaches more than it
\* does, and of finitely many values one reaches the most.
LEMMA CountsLeaveCycles == ASSUME Counted PROVE OnlyCyclesLeak
  <1> SUFFICES ASSUME Idle,
                      NEW cyclic, cyclic = {n \in Live : n \in Reachable(Members(n))}
               PROVE  Live \subseteq Reachable({n \in Node : owned[n] + lost[n] > 0} \cup cyclic)
    BY DEF OnlyCyclesLeak
  <1>1. heap \in Heaps /\ todo = <<>> /\ Live \subseteq Node
    BY DEF Counted, Counts, Idle, Live
  <1>2. PICK S : S = {n \in Node : owned[n] + lost[n] > 0} \cup cyclic
    OBVIOUS
  <1>3. S \in SUBSET Value
    BY <1>1, <1>2 DEF Value
  <1>4. PICK R : R = Reachable(S)
    OBVIOUS
  <1>5. S \subseteq R /\ Closed(R)
    BY <1>1, <1>3, <1>4, ReachableIsLeast
  <1>6. PICK X : X = Live \ R
    OBVIOUS
  <1>7. \A n \in Node : Members(n) \in SUBSET Value
    BY <1>1, HeapCountable DEF Members, Content
  <1>8. ASSUME NEW x \in X
        PROVE  \E c \in X : /\ Reachable(Members(x)) \subseteq Reachable(Members(c))
                            /\ x \in Reachable(Members(c)) /\ x \notin Reachable(Members(x))
    <2>1. x \in Live /\ x \in Node /\ x # true
      BY <1>1, <1>6, NodeIsNotTrue
    <2>2. x \notin S
      BY <1>5, <1>6
    <2>3. ~(owned[x] + lost[x] > 0) /\ x \notin Reachable(Members(x))
      BY <1>2, <2>1, <2>2
    <2>4. PICK c \in Live : x \in Members(c)
      BY <1>1, <2>1, <2>3, HasParent
    <2>5. c \in Node /\ c # true
      BY <1>1, NodeIsNotTrue
    <2>6. c \notin R
      <3>1. c \in R => x \in R
        BY <1>5, <2>4, <2>5 DEF Closed
      <3>2. x \notin R
        BY <1>6
      <3>3. QED BY <3>1, <3>2
    <2>7. c \in X
      BY <1>6, <2>6
    <2>8. PICK P : P = Reachable(Members(c))
      OBVIOUS
    <2>9. Members(c) \subseteq P /\ P \in SUBSET Value /\ Closed(P)
      BY <1>1, <1>7, <2>5, <2>8, ReachableIsLeast
    <2>10. x \in P /\ Members(x) \subseteq P
      BY <2>1, <2>4, <2>9 DEF Closed
    <2>11. Reachable(Members(x)) \subseteq P
      BY <1>1, <1>7, <2>1, <2>9, <2>10, ReachableIsLeast
    <2>12. QED BY <2>3, <2>7, <2>8, <2>10, <2>11
  <1>9. CASE X # {}
    <2>1. PICK T : T = {Reachable(Members(x)) : x \in X}
      OBVIOUS
    <2>2. T \in SUBSET SUBSET Value /\ T # {}
      <3>1. \A x \in X : Reachable(Members(x)) \in SUBSET Value
        BY <1>1, <1>6, <1>7, ReachableIsLeast
      <3>2. QED BY <1>9, <2>1, <3>1
    <2>3. IsFiniteSet(Value)
      BY JsonValueAssumption, FS_AddElement DEF Value
    <2>4. PICK A \in T : \A B \in T : A \subseteq B => A = B
      BY <2>2, <2>3, Maximal
    <2>5. PICK x \in X : A = Reachable(Members(x))
      BY <2>1
    <2>6. PICK c \in X : /\ Reachable(Members(x)) \subseteq Reachable(Members(c))
                         /\ x \in Reachable(Members(c)) /\ x \notin Reachable(Members(x))
      BY <1>8
    <2>7. Reachable(Members(c)) \in T
      BY <2>1
    <2>8. A = Reachable(Members(c))
      BY <2>4, <2>5, <2>6, <2>7
    <2>9. QED BY <2>5, <2>6, <2>8
  <1>10. CASE X = {}
    BY <1>2, <1>4, <1>6, <1>10
  <1>11. QED BY <1>9, <1>10

\* Between calls memory leaks only through cycles and a lost reference.
THEOREM CyclesAloneLeak == Spec => []OnlyCyclesLeak
  <1>1. IInv => OnlyCyclesLeak
    BY CountsLeaveCycles DEF IInv
  <1>2. QED BY <1>1, IInvHolds, PTL

-----------------------------------------------------------------------------
(* Deep copies.                                                             *)

\* The values A of a heap h that a deep copy of s made: they refer to each other
\* and are referred to by nothing else, each has one reference, and s is another.
Made(h, A, s) ==
    /\ A \subseteq Node /\ s \in Node \ A
    /\ \A n \in A :
          /\ h[n].refcount = 1
          /\ \A i \in DOMAIN h[n].content : h[n].content[i] \in A \cup {true}
    /\ \A c \in Node \ A : \A i \in DOMAIN h[c].content : h[c].content[i] \notin A

\* A value of A is what its original under g is, and has copies of members of it,
\* of all of them unless it is one of R, which are being made.
Mirrors(h, A, g, R) ==
    /\ g \in [A -> Node \ A]
    /\ \A n \in A :
          /\ h[n].kind = h[g[n]].kind /\ h[n].text = h[g[n]].text
          /\ DOMAIN h[n].content \subseteq DOMAIN h[g[n]].content
          /\ n \notin R => DOMAIN h[n].content = DOMAIN h[g[n]].content
          /\ \A i \in DOMAIN h[n].content :
                h[g[n]].content[i] =
                    IF h[n].content[i] = true THEN true ELSE g[h[n].content[i]]

\* The members P of what f copies are those which the copy has not.
Awaits(h, f, P) ==
    /\ DOMAIN h[f.from].content = DOMAIN h[f.to].content \cup P
    /\ DOMAIN h[f.to].content \cap P = {}

\* The first q calls of fs copy originals under g, and each but the last waits for
\* the member that the next one copies, which an array has before the others left.
Nest(h, g, fs, q) ==
    /\ \A j \in 1 .. q : g[fs[j].to] = fs[j].from
    /\ \A j, k \in 1 .. q : k = j + 1 =>
          /\ Awaits(h, fs[j], fs[j].rest \cup {fs[k].at})
          /\ h[fs[j].to].kind = "array" => \A x \in fs[j].rest : fs[k].at <= x
InTurn(h, g, fs) ==
    Nest(h, g, fs, Len(fs)) /\ Awaits(h, fs[Len(fs)], fs[Len(fs)].rest)

Making == {frames[j].to : j \in DOMAIN frames}

\* A copy is alone, and as far as it is whole it mirrors the original.
CopyInv ==
    /\ copied # None =>
          /\ Idle
          /\ \E A \in SUBSET Node :
                /\ Made(heap, A, copied.from) /\ copied.to \in A
                /\ whole => \E g \in [A -> Node] :
                               Mirrors(heap, A, g, {}) /\ g[copied.to] = copied.from
    /\ frames # <<>> =>
          \E A \in SUBSET Node :
             /\ Made(heap, A, frames[1].from) /\ Making \subseteq A
             /\ whole => /\ todo = <<>>
                         /\ \E g \in [A -> Node] :
                               Mirrors(heap, A, g, Making) /\ InTurn(heap, g, frames)

\* Whatever a deep copy made is allocated.
LEMMA MadeIsLive ==
    ASSUME Counted, NEW A, NEW s, Made(heap, A, s), NEW n \in A
    PROVE  n \in Node /\ heap[n].kind # "free"
  <1>1. n \in Node /\ heap[n].refcount = 1
    BY DEF Made
  <1>2. QED BY <1>1, PartsType DEF Counted

\* h is the heap with an empty value of the kind and text of v in n.
Fresh(h, n, v) ==
    /\ h[n].kind = heap[v].kind /\ h[n].text = heap[v].text
    /\ h[n].content = <<>> /\ h[n].refcount = 1
    /\ \A m \in Node : m # n => h[m] = heap[m]

\* A new value that nothing refers to is one more.
LEMMA MadeGrows ==
    ASSUME Counted, NEW A, NEW s, Made(heap, A, s), NEW n \in Node, heap[n].kind = "free",
           s # n, NEW h, NEW v, Fresh(h, n, v)
    PROVE  Made(h, A \cup {n}, s)
  <1>2. /\ h[n].content = <<>> /\ h[n].refcount = 1
        /\ \A m \in Node : m # n => h[m] = heap[m]
    BY DEF Fresh
  <1>3. A \cup {n} \subseteq Node /\ s \in Node \ (A \cup {n})
    BY DEF Made
  <1>4. ASSUME NEW m \in A \cup {n}
        PROVE  /\ h[m].refcount = 1
               /\ \A i \in DOMAIN h[m].content : h[m].content[i] \in (A \cup {n}) \cup {true}
    <2>1. CASE m = n
      BY <1>2, <2>1, EmptyContent
    <2>2. CASE m # n
      BY <1>2, <2>2 DEF Made
    <2>3. QED BY <2>1, <2>2
  <1>5. ASSUME NEW c \in Node \ (A \cup {n}), NEW i \in DOMAIN h[c].content
        PROVE  h[c].content[i] \notin A \cup {n}
    <2>1. h[c] = heap[c]
      BY <1>2
    <2>2. h[c].content[i] \notin A
      BY <2>1 DEF Made
    <2>3. h[c].content[i] # n
      BY <2>1, MemberIsLive, NodeIsNotTrue
    <2>4. QED BY <2>2, <2>3
  <1>6. QED BY <1>3, <1>4, <1>5 DEF Made

\* A copy that is given one of the values made, or true, is as alone as before.
LEMMA MadePut ==
    ASSUME NEW h, NEW A, NEW s, Made(h, A, s), NEW c \in A, NEW w \in A \cup {true},
           NEW f, NEW h2, SameButContent(h, h2, c, f),
           \A j \in DOMAIN f : f[j] = w \/ \E l \in DOMAIN h[c].content : f[j] = h[c].content[l]
    PROVE  Made(h2, A, s)
  <1>1. /\ A \subseteq Node /\ c \in Node /\ h2[c].content = f
        /\ \A m \in Node : h2[m].refcount = h[m].refcount
        /\ \A m \in Node : m # c => h2[m].content = h[m].content
    BY DEF Made, SameButContent
  <1>2. ASSUME NEW m \in A
        PROVE  /\ h2[m].refcount = 1
               /\ \A i \in DOMAIN h2[m].content : h2[m].content[i] \in A \cup {true}
    <2>1. CASE m = c
      BY <1>1, <2>1 DEF Made
    <2>2. CASE m # c
      BY <1>1, <2>2 DEF Made
    <2>3. QED BY <2>1, <2>2
  <1>3. \A m \in Node \ A : \A i \in DOMAIN h2[m].content : h2[m].content[i] \notin A
    BY <1>1 DEF Made
  <1>4. s \in Node \ A
    BY DEF Made
  <1>5. QED BY <1>1, <1>2, <1>3, <1>4 DEF Made

\* A value that is added is a member then, and what was a member stays one.
LEMMA AddedMembers ==
    ASSUME NEW c \in Node, NEW v \in Value, NEW i, heap \in Heaps,
           heap[c].kind \in {"object", "array"}
    PROVE  \A j \in DOMAIN Added(c, i, v) :
              \/ Added(c, i, v)[j] = v
              \/ \E l \in DOMAIN heap[c].content : Added(c, i, v)[j] = heap[c].content[l]
  <1>1. CASE heap[c].kind = "array"
    <2>1. PICK s \in Seq(Value) : s = heap[c].content
      BY <1>1 DEF Heaps, Shaped
    <2>2. Added(c, i, v) = Append(s, v)
      BY <1>1, <2>1, KindOfNode DEF Added, Content
    <2>3. /\ DOMAIN s = 1 .. Len(s) /\ DOMAIN Append(s, v) = 1 .. Len(s) + 1 /\ Len(s) \in Nat
          /\ \A j \in 1 .. Len(s) : Append(s, v)[j] = s[j]
          /\ Append(s, v)[Len(s) + 1] = v
      BY LenProperties
    <2>4. \A j \in 1 .. Len(s) + 1 : j \in 1 .. Len(s) \/ j = Len(s) + 1
      BY <2>3
    <2>5. QED BY <2>1, <2>2, <2>3, <2>4
  <1>2. CASE heap[c].kind = "object"
    BY <1>2, KindOfNode DEF Added, With, Content
  <1>3. QED BY <1>1, <1>2

\* f is e with w at i besides.
Extends(f, e, i, w) ==
    /\ DOMAIN f = DOMAIN e \cup {i} /\ i \notin DOMAIN e
    /\ f[i] = w
    /\ \A j \in DOMAIN e : f[j] = e[j]

\* The copy of the member that is next is put where the original has that member:
\* an array is copied from its first member on.
LEMMA AddedInTurn ==
    ASSUME heap \in Heaps, NEW f, f.from \in Node, f.to \in Node,
           heap[f.to].kind \in {"object", "array"}, heap[f.to].kind = heap[f.from].kind,
           NEW P, Awaits(heap, f, P), NEW i \in P,
           heap[f.to].kind = "array" => \A j \in P : i <= j,
           NEW w \in Value
    PROVE  Extends(Added(f.to, i, w), heap[f.to].content, i, w)
  <1>1. CASE heap[f.to].kind = "array"
    <2>1. PICK s \in Seq(Value) : s = heap[f.to].content
      BY <1>1 DEF Heaps, Shaped
    <2>2. PICK t \in Seq(Value) : t = heap[f.from].content
      BY <1>1 DEF Heaps, Shaped
    <2>3. Added(f.to, i, w) = Append(s, w)
      BY <1>1, <2>1, KindOfNode DEF Added, Content
    <2>4. PICK k \in Nat : k = Len(s) /\ DOMAIN s = 1 .. k
      BY LenProperties
    <2>5. PICK m \in Nat : m = Len(t) /\ DOMAIN t = 1 .. m
      BY LenProperties
    <2>6. 1 .. m = (1 .. k) \cup P /\ (1 .. k) \cap P = {}
      BY <2>1, <2>2, <2>4, <2>5 DEF Awaits
    <2>7. i \in 1 .. m /\ i \notin 1 .. k
      BY <2>6
    <2>8. k + 1 \in 1 .. m /\ k + 1 \notin 1 .. k
      BY <2>7
    <2>9. k + 1 \in P
      BY <2>6, <2>8
    <2>10. i <= k + 1
      BY <1>1, <2>9
    <2>11. i = k + 1
      BY <2>7, <2>10
    <2>12. /\ DOMAIN Append(s, w) = 1 .. k + 1 /\ Append(s, w)[k + 1] = w
           /\ \A j \in 1 .. k : Append(s, w)[j] = s[j]
      BY <2>4
    <2>13. Extends(Append(s, w), s, i, w)
      BY <2>4, <2>11, <2>12 DEF Extends
    <2>14. QED BY <2>1, <2>3, <2>13
  <1>2. CASE heap[f.to].kind = "object"
    <2>1. i \notin DOMAIN heap[f.to].content
      BY DEF Awaits
    <2>2. PICK e : e = heap[f.to].content
      OBVIOUS
    <2>3. Added(f.to, i, w) = With(e, i, w)
      BY <1>2, <2>2, KindOfNode DEF Added, Content
    <2>4. Extends(With(e, i, w), e, i, w)
      BY <2>1, <2>2 DEF Extends, With
    <2>5. QED BY <2>2, <2>3, <2>4
  <1>3. QED BY <1>1, <1>2

\* A new value made for v mirrors it, if it is still to be given members or v has none.
LEMMA MirrorsGrow ==
    ASSUME Counted, NEW A, NEW s, Made(heap, A, s), NEW g, NEW R, Mirrors(heap, A, g, R),
           NEW n \in Node, heap[n].kind = "free", NEW v \in Node \ A, v # n,
           NEW h, Fresh(h, n, v),
           NEW S, R \subseteq S, n \in S \/ DOMAIN heap[v].content = {}
    PROVE  Mirrors(h, A \cup {n}, With(g, n, v), S)
  <1>1. A \subseteq Node
    BY DEF Made
  <1>2. /\ h[n].kind = heap[v].kind /\ h[n].text = heap[v].text /\ h[n].content = <<>>
        /\ \A m \in Node : m # n => h[m] = heap[m]
    BY DEF Fresh
  <1>0. PICK g2 : g2 = With(g, n, v)
    OBVIOUS
  <1>9. g2 = [m \in A \cup {n} |-> IF m = n THEN v ELSE g[m]]
    BY <1>0 DEF With, Mirrors
  <1>3. ASSUME NEW m \in A
        PROVE  /\ m # n /\ g[m] \in Node \ A /\ g[m] # n /\ g2[m] = g[m]
               /\ h[m] = heap[m] /\ h[g[m]] = heap[g[m]]
    <2>1. m \in Node /\ heap[m].kind # "free"
      BY MadeIsLive
    <2>2. g[m] \in Node \ A /\ heap[m].kind = heap[g[m]].kind
      BY DEF Mirrors
    <2>3. m # n /\ g[m] # n
      BY <2>1, <2>2
    <2>4. QED BY <1>2, <1>9, <2>1, <2>2, <2>3
  <1>4. g2[n] = v /\ h[v] = heap[v]
    BY <1>2, <1>9
  <1>5. g2 \in [A \cup {n} -> Node \ (A \cup {n})]
    BY <1>3, <1>4, <1>9
  <1>6. ASSUME NEW m \in A
        PROVE  /\ h[m].kind = h[g2[m]].kind /\ h[m].text = h[g2[m]].text
               /\ DOMAIN h[m].content \subseteq DOMAIN h[g2[m]].content
               /\ m \notin S => DOMAIN h[m].content = DOMAIN h[g2[m]].content
               /\ \A i \in DOMAIN h[m].content :
                     h[g2[m]].content[i] =
                         IF h[m].content[i] = true THEN true ELSE g2[h[m].content[i]]
    <2>1. h[m] = heap[m] /\ h[g2[m]] = heap[g[m]]
      BY <1>3
    <2>2. /\ heap[m].kind = heap[g[m]].kind /\ heap[m].text = heap[g[m]].text
          /\ DOMAIN heap[m].content \subseteq DOMAIN heap[g[m]].content
          /\ m \notin S => DOMAIN heap[m].content = DOMAIN heap[g[m]].content
      BY DEF Mirrors
    <2>3. ASSUME NEW i \in DOMAIN heap[m].content
          PROVE  heap[g[m]].content[i] =
                     IF heap[m].content[i] = true THEN true ELSE g2[heap[m].content[i]]
      <3>1. heap[m].content[i] \in A \cup {true}
        BY DEF Made
      <3>2. heap[g[m]].content[i] =
                IF heap[m].content[i] = true THEN true ELSE g[heap[m].content[i]]
        BY DEF Mirrors
      <3>3. QED BY <1>3, <3>1, <3>2
    <2>4. ASSUME NEW i \in DOMAIN h[m].content
          PROVE  h[g2[m]].content[i] =
                     IF h[m].content[i] = true THEN true ELSE g2[h[m].content[i]]
      <3>1. i \in DOMAIN heap[m].content
        BY <2>1
      <3>2. heap[g[m]].content[i] =
                IF heap[m].content[i] = true THEN true ELSE g2[heap[m].content[i]]
        BY <2>3, <3>1, Zenon
      <3>3. h[m].content[i] = heap[m].content[i] /\ h[g2[m]].content[i] = heap[g[m]].content[i]
        BY <2>1
      <3>4. PICK y, z : y = heap[m].content[i] /\ z = heap[g[m]].content[i]
        OBVIOUS
      <3>5. z = IF y = true THEN true ELSE g2[y]
        BY <3>2, <3>4, Zenon
      <3>6. QED BY <3>3, <3>4, <3>5
    <2>5. /\ h[m].kind = h[g2[m]].kind /\ h[m].text = h[g2[m]].text
          /\ DOMAIN h[m].content \subseteq DOMAIN h[g2[m]].content
          /\ m \notin S => DOMAIN h[m].content = DOMAIN h[g2[m]].content
      BY <2>1, <2>2, Zenon
    <2>6. QED BY <2>4, <2>5, Zenon
  <1>7. /\ h[n].kind = h[g2[n]].kind /\ h[n].text = h[g2[n]].text
        /\ DOMAIN h[n].content = {}
        /\ n \notin S => DOMAIN h[n].content = DOMAIN h[g2[n]].content
    BY <1>2, <1>4, EmptyContent
  <1>8. Mirrors(h, A \cup {n}, g2, S)
    BY <1>5, <1>6, <1>7 DEF Mirrors
  <1>q. QED BY <1>0, <1>8

\* A copy that is given the copy of a member mirrors its original as before.
LEMMA MirrorsPut ==
    ASSUME NEW h, NEW A, NEW s, Made(h, A, s), NEW g, NEW R, Mirrors(h, A, g, R),
           NEW c \in A, c \in R, NEW f, NEW h2, SameButContent(h, h2, c, f),
           NEW i, NEW w, Extends(f, h[c].content, i, w), i \in DOMAIN h[g[c]].content,
           h[g[c]].content[i] = IF w = true THEN true ELSE g[w]
    PROVE  Mirrors(h2, A, g, R)
  <1>1. /\ A \subseteq Node /\ c \in Node /\ h2[c].content = f
        /\ \A m \in Node : h2[m].kind = h[m].kind /\ h2[m].text = h[m].text
        /\ \A m \in Node : m # c => h2[m].content = h[m].content
    BY DEF Made, SameButContent
  <1>2. g \in [A -> Node \ A]
    BY DEF Mirrors
  <1>3. ASSUME NEW m \in A
        PROVE  /\ h2[m].kind = h2[g[m]].kind /\ h2[m].text = h2[g[m]].text
               /\ DOMAIN h2[m].content \subseteq DOMAIN h2[g[m]].content
               /\ m \notin R => DOMAIN h2[m].content = DOMAIN h2[g[m]].content
               /\ \A j \in DOMAIN h2[m].content :
                     h2[g[m]].content[j] =
                         IF h2[m].content[j] = true THEN true ELSE g[h2[m].content[j]]
    <2>1. g[m] \in Node /\ g[m] # c /\ m \in Node
      BY <1>1, <1>2
    <2>2. /\ h[m].kind = h[g[m]].kind /\ h[m].text = h[g[m]].text
          /\ DOMAIN h[m].content \subseteq DOMAIN h[g[m]].content
          /\ m \notin R => DOMAIN h[m].content = DOMAIN h[g[m]].content
          /\ \A j \in DOMAIN h[m].content :
                h[g[m]].content[j] =
                    IF h[m].content[j] = true THEN true ELSE g[h[m].content[j]]
      BY DEF Mirrors
    <2>3. h2[g[m]].content = h[g[m]].content
      BY <1>1, <2>1
    <2>4. CASE m = c
      <3>1. /\ DOMAIN f = DOMAIN h[c].content \cup {i} /\ f[i] = w
            /\ \A j \in DOMAIN h[c].content : f[j] = h[c].content[j]
        BY DEF Extends
      <3>2. DOMAIN f \subseteq DOMAIN h[g[c]].content
        BY <2>2, <2>4, <3>1
      <3>3. ASSUME NEW j \in DOMAIN f
            PROVE  h[g[c]].content[j] = IF f[j] = true THEN true ELSE g[f[j]]
        <4>1. CASE j = i
          BY <3>1, <4>1
        <4>2. CASE j # i
          BY <2>2, <2>4, <3>1, <4>2
        <4>3. QED BY <4>1, <4>2
      <3>4. QED BY <1>1, <2>1, <2>2, <2>3, <2>4, <3>2, <3>3
    <2>5. CASE m # c
      BY <1>1, <2>1, <2>2, <2>3, <2>5
    <2>6. QED BY <2>4, <2>5
  <1>4. QED BY <1>2, <1>3 DEF Mirrors

\* The originals of what is being made have it in turn as before.
LEMMA NestGoes ==
    ASSUME NEW q \in DOMAIN frames, FramesInv, NEW g, NEW g2, NEW r, NEW x, NEW h2,
           Nest(heap, g, frames, q), Ahead(r, q, x),
           \A j \in 1 .. q :
              /\ g2[frames[j].to] = g[frames[j].to]
              /\ h2[frames[j].from].content = heap[frames[j].from].content
              /\ h2[frames[j].to].kind = heap[frames[j].to].kind
              /\ j # q => h2[frames[j].to].content = heap[frames[j].to].content
    PROVE  Nest(h2, g2, r, q)
  <1>1. q \in Nat
    BY LenProperties DEF FramesInv
  <1>2. \A j \in 1 .. q : /\ r[j].from = frames[j].from /\ r[j].to = frames[j].to
                          /\ r[j].at = frames[j].at
                          /\ j # q => r[j].rest = frames[j].rest
    BY DEF Ahead
  <1>3. \A j \in 1 .. q : g2[r[j].to] = r[j].from
    BY <1>2 DEF Nest
  <1>4. ASSUME NEW j \in 1 .. q, NEW k \in 1 .. q, k = j + 1
        PROVE  /\ Awaits(h2, r[j], r[j].rest \cup {r[k].at})
               /\ h2[r[j].to].kind = "array" => \A y \in r[j].rest : r[k].at <= y
    <2>1. j # q
      BY <1>1, <1>4
    <2>2. /\ Awaits(heap, frames[j], frames[j].rest \cup {frames[k].at})
          /\ heap[frames[j].to].kind = "array" => \A y \in frames[j].rest : frames[k].at <= y
      BY <1>4 DEF Nest
    <2>3. /\ r[j].rest = frames[j].rest /\ r[k].at = frames[k].at
          /\ h2[r[j].from].content = heap[frames[j].from].content
          /\ h2[r[j].to].content = heap[frames[j].to].content
          /\ h2[r[j].to].kind = heap[frames[j].to].kind
      BY <1>2, <2>1
    <2>4. QED BY <2>2, <2>3 DEF Awaits
  <1>5. QED BY <1>3, <1>4 DEF Nest

\* What json_decref releases of a failed copy leaves the rest of it alone.
LEMMA DecrefMade ==
    ASSUME Counted, Decref, NEW A, NEW s, Made(heap, A, s)
    PROVE  \E B \in SUBSET A : /\ Made(heap', B, s)
                               /\ \A n \in A : owned[n] > 0 => n \in B
  <1>1. heap \in [Node -> NodeRecord] /\ heap \in Heaps /\ todo \in Seq(Value) /\ todo # <<>>
    BY DEF Counted, Counts, Heaps, Decref
  <1>2. PICK v \in Value : v = Head(todo)
    BY <1>1
  <1>3. CASE heap' = heap
    BY <1>3
  <1>4. CASE v # true /\ heap[v].refcount > 1 /\ heap' = Ref(heap, v, -1)
    <2>1. SameButRefs(heap, heap', v, -1)
      BY <1>1, <1>4, RefEffect
    <2>2. v \notin A
      BY <1>4 DEF Made
    <2>3. \A n \in Node : /\ heap'[n].content = heap[n].content
                          /\ n \in A => heap'[n].refcount = heap[n].refcount
      BY <2>1, <2>2 DEF SameButRefs
    <2>4. Made(heap', A, s)
      BY <2>3 DEF Made
    <2>5. QED BY <2>4
  <1>5. CASE v # true /\ heap[v].refcount <= 1 /\ heap' = [heap EXCEPT ![v] = FreeNode]
    <2>1. /\ v \in Node /\ heap[v].refcount >= owned[v] + lost[v] + 1
          /\ heap[v].refcount = 1 => Cardinality(Places(heap, v)) = 0
      BY <1>1, <1>2, <1>5, TodoIsLive
    <2>2. owned[v] \in Nat /\ lost[v] \in Nat /\ heap[v].refcount \in Nat
      BY <2>1, PartsType DEF Counted
    <2>3. owned[v] = 0 /\ Cardinality(Places(heap, v)) = 0
      BY <1>5, <2>1, <2>2
    <2>4. heap'[v].content = <<>> /\ \A n \in Node : n # v => heap'[n] = heap[n]
      BY <1>1, <1>5, <2>1, FreeNodeType
    <2>5. PICK B : B = A \ {v}
      OBVIOUS
    <2>6. ASSUME NEW c \in Node, NEW i \in DOMAIN heap[c].content
          PROVE  heap[c].content[i] # v
      BY <1>1, <2>3, MemberIsPlaced
    <2>7. ASSUME NEW n \in B
          PROVE  /\ heap'[n].refcount = 1
                 /\ \A i \in DOMAIN heap'[n].content : heap'[n].content[i] \in B \cup {true}
      <3>1. n \in A /\ n \in Node /\ heap'[n] = heap[n]
        BY <2>4, <2>5 DEF Made
      <3>2. /\ heap[n].refcount = 1
            /\ \A i \in DOMAIN heap[n].content : heap[n].content[i] \in A \cup {true}
        BY <3>1 DEF Made
      <3>3. QED BY <2>5, <2>6, <3>1, <3>2
    <2>8. ASSUME NEW c \in Node \ B, NEW i \in DOMAIN heap'[c].content
          PROVE  heap'[c].content[i] \notin B
      <3>1. c # v
        BY <2>4, EmptyContent
      <3>2. c \in Node \ A /\ heap'[c] = heap[c]
        BY <2>4, <2>5, <3>1
      <3>3. QED BY <2>5, <3>2 DEF Made
    <2>9. B \subseteq Node /\ s \in Node \ B
      BY <2>5 DEF Made
    <2>10. Made(heap', B, s)
      BY <2>7, <2>8, <2>9 DEF Made
    <2>11. \A n \in A : owned[n] > 0 => n \in B
      BY <2>3, <2>5
    <2>12. QED BY <2>5, <2>10, <2>11
  <1>6. QED BY <1>2, <1>3, <1>4, <1>5 DEF Decref

\* What the calls copy and make is allocated, and no original is a copy being made.
LEMMA FramesAreLive ==
    ASSUME Counted, FramesInv, NEW j \in DOMAIN frames
    PROVE  /\ frames[j].from \in Node /\ frames[j].to \in Node
           /\ heap[frames[j].from].kind # "free" /\ heap[frames[j].to].kind # "free"
           /\ \A k \in DOMAIN frames : frames[k].to # frames[j].from
  <1>1. FrameOK(frames[j])
    BY DEF FramesInv
  <1>2. QED BY <1>1, FromIsApart DEF FrameOK

\* The member that is next is put into the copy, as true or as a copy w of it.
LEMMA MemberPut ==
    ASSUME Counted, FramesInv, frames # <<>>, NEW f, f = Last(frames),
           NEW i \in f.rest, IsNext(i, f.rest, f.from),
           NEW h \in Heaps, \A m \in Node : heap[m].kind # "free" => h[m] = heap[m],
           NEW B, NEW s, Made(h, B, s), Making \subseteq B, NEW w \in B \cup {true},
           NEW h2, h2 = Put(h, f.to, i, w), NEW r, r = Past(i)
    PROVE  /\ Made(h2, B, s)
           /\ \A g : /\ Mirrors(h, B, g, Making) /\ InTurn(heap, g, frames)
                     /\ heap[f.from].content[i] = IF w = true THEN true ELSE g[w]
                     => Mirrors(h2, B, g, Making) /\ InTurn(h2, g, r)
  <1>1. /\ f.from \in Node /\ f.to \in Node /\ FrameOK(f)
        /\ heap[f.to].kind \in {"object", "array"}
        /\ i \in DOMAIN heap[f.from].content
        /\ heap[f.to].kind = "object" => i \in Key
    BY InnermostFrame
  <1>2. PICK q : q = Len(frames)
    OBVIOUS
  <1>3. /\ q \in Nat /\ q >= 1 /\ q \in DOMAIN frames /\ f = frames[q]
        /\ r \in Seq(FrameType) /\ Len(r) = q /\ Ahead(r, q, i)
        /\ r[q].rest = f.rest \ {i} /\ r[q].from = f.from /\ r[q].to = f.to
        /\ DOMAIN frames = 1 .. q
    BY <1>2, Behind, Innermost DEF FramesInv
  <1>4. heap \in Heaps /\ w \in Value /\ f.to \in B /\ f.to \in Making
    BY <1>3 DEF Made, Making, Value, Counted, Counts
  <1>5. h[f.to] = heap[f.to] /\ h[f.from] = heap[f.from]
    BY <1>1 DEF FrameOK
  <1>6. PICK a : a = Added(f.to, i, w)
    OBVIOUS
  <1>7. SameButContent(h, h2, f.to, a)
    BY <1>1, <1>4, <1>5, <1>6, PutEffect DEF Content
  <1>8. Made(h2, B, s)
    <2>1. \A j \in DOMAIN a : \/ a[j] = w
                              \/ \E l \in DOMAIN h[f.to].content : a[j] = h[f.to].content[l]
      BY <1>1, <1>4, <1>5, <1>6, AddedMembers
    <2>2. f.to \in B /\ Made(h, B, s) /\ w \in B \cup {true}
      BY <1>4
    <2>3. QED BY ONLY <1>7, <2>1, <2>2, MadePut
  <1>9. ASSUME NEW g, Mirrors(h, B, g, Making), InTurn(heap, g, frames),
               heap[f.from].content[i] = IF w = true THEN true ELSE g[w]
        PROVE  Mirrors(h2, B, g, Making) /\ InTurn(h2, g, r)
    <2>1. Nest(heap, g, frames, q) /\ Awaits(heap, f, f.rest)
      BY <1>2, <1>3, <1>9 DEF InTurn
    <2>2. g[f.to] = f.from
      BY <1>3, <2>1 DEF Nest
    <2>3. Extends(a, heap[f.to].content, i, w)
      <3>1. heap[f.to].kind = heap[f.from].kind
        BY <1>1 DEF FrameOK
      <3>2. heap[f.to].kind = "array" => \A j \in f.rest : i <= j
        BY <1>1, <3>1, KindOfNode DEF IsNext
      <3>3. QED BY <1>1, <1>4, <1>6, <2>1, <3>1, <3>2, AddedInTurn
    <2>4. Mirrors(h2, B, g, Making)
      <3>1. Extends(a, h[f.to].content, i, w)
        BY <1>5, <2>3
      <3>2. /\ i \in DOMAIN h[g[f.to]].content
            /\ h[g[f.to]].content[i] = IF w = true THEN true ELSE g[w]
        BY <1>1, <1>5, <1>9, <2>2
      <3>3. QED BY <1>4, <1>7, <1>9, <3>1, <3>2, MirrorsPut
    <2>5. ASSUME NEW j \in 1 .. q
          PROVE  /\ h2[frames[j].from].content = heap[frames[j].from].content
                 /\ h2[frames[j].to].kind = heap[frames[j].to].kind
                 /\ j # q => h2[frames[j].to].content = heap[frames[j].to].content
      <3>1. /\ frames[j].from \in Node /\ frames[j].to \in Node
            /\ frames[j].from # f.to /\ (j # q => frames[j].to # f.to)
            /\ h[frames[j].from] = heap[frames[j].from] /\ h[frames[j].to] = heap[frames[j].to]
        <4>1. j \in DOMAIN frames
          BY <1>3
        <4>2. /\ frames[j].from \in Node /\ frames[j].to \in Node
              /\ heap[frames[j].from].kind # "free" /\ heap[frames[j].to].kind # "free"
              /\ frames[q].to # frames[j].from
          BY <1>3, <4>1, FramesAreLive
        <4>3. j # q => frames[j].to # frames[q].to
          BY <1>3, <4>1 DEF FramesInv
        <4>4. QED BY <1>3, <4>2, <4>3
      <3>2. QED BY <1>7, <3>1 DEF SameButContent
    <2>6. Nest(h2, g, r, q)
      <3>1. \A j \in 1 .. q : g[frames[j].to] = g[frames[j].to]
        OBVIOUS
      <3>2. q \in DOMAIN frames /\ Ahead(r, q, i)
        BY <1>3
      <3>3. QED BY ONLY FramesInv, <2>1, <2>5, <3>1, <3>2, NestGoes
    <2>7. Awaits(h2, r[q], r[q].rest)
      <3>1. h2[f.to].content = a /\ h2[f.from].content = heap[f.from].content
        BY <1>3, <1>7, <2>5 DEF SameButContent
      <3>2. Awaits(h2, f, f.rest \ {i})
        BY <2>1, <2>3, <3>1 DEF Awaits, Extends
      <3>3. QED BY <1>3, <3>2 DEF Awaits
    <2>8. QED BY <1>3, <2>4, <2>6, <2>7 DEF InTurn
  <1>10. QED BY <1>8, <1>9

\* A call is made for the member that is next, with a container for its copy.
LEMMA NestedBegins ==
    ASSUME Counted, FramesInv, frames # <<>>, NEW f, f = Last(frames),
           NEW i \in f.rest, IsNext(i, f.rest, f.from),
           NEW v, v = heap[f.from].content[i], v \in Node,
           NEW n \in Node, heap[n].kind = "free",
           NEW A, NEW s, Made(heap, A, s), Making \subseteq A, s # n,
           NEW h2, Fresh(h2, n, v), NEW r, r = Append(Past(i), Frame(v, n, i))
    PROVE  /\ Made(h2, A \cup {n}, s)
           /\ \A g : Mirrors(heap, A, g, Making) /\ InTurn(heap, g, frames) =>
                \E g2 \in [A \cup {n} -> Node] :
                   Mirrors(h2, A \cup {n}, g2, Making \cup {n}) /\ InTurn(h2, g2, r)
  <1>1. /\ f.from \in Node /\ f.to \in Node /\ FrameOK(f)
        /\ i \in DOMAIN heap[f.from].content
    BY InnermostFrame
  <1>2. PICK p, q : p = Past(i) /\ q = Len(frames)
    OBVIOUS
  <1>3. /\ q \in Nat /\ q >= 1 /\ q \in DOMAIN frames /\ f = frames[q]
        /\ p \in Seq(FrameType) /\ Len(p) = q /\ Ahead(p, q, i)
        /\ p[q].rest = f.rest \ {i} /\ p[q].from = f.from /\ p[q].to = f.to
        /\ DOMAIN frames = 1 .. q
    BY <1>2, Behind, Innermost DEF FramesInv
  <1>4. heap \in [Node -> NodeRecord] /\ heap \in Heaps
    BY DEF Counted, Counts, Heaps
  <1>5. h2[n].content = <<>> /\ \A m \in Node : m # n => h2[m] = heap[m]
    BY DEF Fresh
  <1>6. Made(h2, A \cup {n}, s)
    BY MadeGrows
  <1>7. PICK k : k = Frame(v, n, i)
    OBVIOUS
  <1>8. k.from = v /\ k.to = n /\ k.at = i /\ k.rest = DOMAIN heap[v].content
    BY <1>7 DEF Frame, Content
  <1>9. PICK z \in Nat : z = q + 1
    BY <1>3
  <1>10. Len(r) = z /\ r[z] = k /\ \A j \in 1 .. q : r[j] = p[j]
    <2>1. k \in {k} /\ p \in Seq(FrameType \cup {k})
      BY <1>3
    <2>2. r = Append(p, k)
      BY <1>2, <1>7
    <2>3. Len(r) = Len(p) + 1 /\ r[Len(p) + 1] = k /\ \A j \in 1 .. Len(p) : r[j] = p[j]
      BY <2>1, <2>2
    <2>4. QED BY <1>3, <1>9, <2>3
  <1>11. ASSUME NEW g, Mirrors(heap, A, g, Making), InTurn(heap, g, frames)
         PROVE  \E g2 \in [A \cup {n} -> Node] :
                   Mirrors(h2, A \cup {n}, g2, Making \cup {n}) /\ InTurn(h2, g2, r)
    <2>1. Nest(heap, g, frames, q) /\ Awaits(heap, f, f.rest)
      BY <1>2, <1>3, <1>11 DEF InTurn
    <2>2. g[f.to] = f.from /\ f.to \in A
      BY <1>3, <2>1 DEF Nest, Making
    <2>3. f.from \in Node \ A
      BY <1>11, <2>2 DEF Mirrors
    <2>4. v \in Node \ A /\ v # n
      <3>1. v \notin A
        BY <1>1, <2>3 DEF Made
      <3>2. heap[v].kind # "free"
        BY <1>1, NodeIsNotTrue, MemberIsLive
      <3>3. QED BY <3>1, <3>2
    <2>5. PICK g2 : g2 = With(g, n, v)
      OBVIOUS
    <2>e. g2 = [m \in A \cup {n} |-> IF m = n THEN v ELSE g[m]]
      BY <1>11, <2>5 DEF With, Mirrors
    <2>6. Mirrors(h2, A \cup {n}, g2, Making \cup {n})
      <3>1. Making \subseteq Making \cup {n} /\ n \in Making \cup {n}
        OBVIOUS
      <3>2. QED BY <1>11, <2>4, <2>5, <3>1, MirrorsGrow
    <2>7. g2 \in [A \cup {n} -> Node]
      BY <2>6 DEF Mirrors
    <2>8. ASSUME NEW j \in 1 .. q
          PROVE  /\ g2[frames[j].to] = g[frames[j].to]
                 /\ h2[frames[j].from] = heap[frames[j].from]
                 /\ h2[frames[j].to] = heap[frames[j].to]
      <3>1. /\ frames[j].from \in Node /\ frames[j].to \in Node
            /\ frames[j].from # n /\ frames[j].to # n /\ frames[j].to \in A
        BY <1>3, FramesAreLive DEF Making
      <3>2. QED BY <1>5, <2>e, <3>1
    <2>9. Nest(h2, g2, p, q)
      BY <1>3, <2>1, <2>8, NestGoes
    <2>10. \A j \in 1 .. z : g2[r[j].to] = r[j].from
      <3>1. ASSUME NEW j \in 1 .. q PROVE g2[r[j].to] = r[j].from
        BY <1>10, <2>9 DEF Nest
      <3>2. g2[r[z].to] = r[z].from
        BY <1>8, <1>10, <2>e
      <3>3. \A j \in 1 .. z : j \in 1 .. q \/ j = z
        BY <1>3, <1>9
      <3>4. QED BY <3>1, <3>2, <3>3
    <2>11. Awaits(h2, p[q], p[q].rest \cup {i})
      <3>1. f.rest = (f.rest \ {i}) \cup {i}
        OBVIOUS
      <3>2. h2[f.from] = heap[f.from] /\ h2[f.to] = heap[f.to]
        BY <1>3, <2>8
      <3>3. QED BY <1>3, <2>1, <3>1, <3>2 DEF Awaits
    <2>12. h2[p[q].to].kind = "array" => \A y \in p[q].rest : i <= y
      <3>1. h2[f.to] = heap[f.to] /\ heap[f.to].kind = heap[f.from].kind
        BY <1>1, <1>3, <2>8 DEF FrameOK
      <3>2. QED BY <1>1, <1>3, <3>1, KindOfNode DEF IsNext
    <2>13. Nest(h2, g2, r, z)
      <3>1. ASSUME NEW j \in 1 .. z, NEW l \in 1 .. z, l = j + 1
            PROVE  /\ Awaits(h2, r[j], r[j].rest \cup {r[l].at})
                   /\ h2[r[j].to].kind = "array" => \A y \in r[j].rest : r[l].at <= y
        <4>1. CASE l = z
          <5>1. j = q
            BY <1>3, <1>9, <3>1, <4>1
          <5>2. r[j] = p[q] /\ r[l].at = i
            BY <1>3, <1>8, <1>10, <4>1, <5>1
          <5>3. QED BY <2>11, <2>12, <5>2
        <4>2. CASE l # z
          <5>1. j \in 1 .. q /\ l \in 1 .. q
            BY <1>3, <1>9, <3>1, <4>2
          <5>2. r[j] = p[j] /\ r[l] = p[l]
            BY <1>10, <5>1
          <5>3. QED BY <2>9, <3>1, <5>1, <5>2 DEF Nest
        <4>3. QED BY <4>1, <4>2
      <3>2. QED BY <2>10, <3>1 DEF Nest
    <2>14. Awaits(h2, r[z], r[z].rest)
      <3>1. h2[v] = heap[v] /\ h2[n].content = <<>>
        BY <1>5, <2>4
      <3>2. /\ r[z].from = v /\ r[z].to = n /\ r[z].rest = DOMAIN heap[v].content
        BY <1>8, <1>10
      <3>3. h2[r[z].from].content = heap[v].content /\ DOMAIN h2[r[z].to].content = {}
        BY <3>1, <3>2, EmptyContent
      <3>4. QED BY <3>2, <3>3 DEF Awaits
    <2>15. QED BY <1>10, <2>6, <2>7, <2>13, <2>14 DEF InTurn
  <1>12. QED BY <1>6, <1>11

\* A call returns, and the copy is put where the original is.
LEMMA NestedReturns ==
    ASSUME Counted, FramesInv, frames # <<>>, NEW f, f = Last(frames), f.rest = {},
           NEW r, r = Front(frames), r # <<>>, NEW e, e = Last(r),
           NEW A, NEW s, Made(heap, A, s), Making \subseteq A,
           NEW h2, h2 = Put(heap, e.to, f.at, f.to)
    PROVE  /\ Made(h2, A, s)
           /\ \A g : Mirrors(heap, A, g, Making) /\ InTurn(heap, g, frames) =>
                Mirrors(h2, A, g, Making \ {f.to}) /\ InTurn(h2, g, r)
  <1>1. PICK q : q = Len(frames) - 1
    OBVIOUS
  <1>2. /\ q \in DOMAIN frames /\ e = frames[q] /\ q >= 1 /\ q \in Nat
        /\ Len(frames) = q + 1 /\ f = frames[q + 1] /\ q + 1 \in DOMAIN frames
        /\ FrameOK(e) /\ Nested(e, f) /\ e.from \in Node /\ e.to \in Node /\ e.to # f.to
        /\ heap[e.to].kind \in {"object", "array"}
        /\ heap[e.to].kind = "object" => f.at \in Key
    <2>1. /\ q \in DOMAIN frames /\ e = frames[q] /\ q >= 1
          /\ f = frames[Len(frames)] /\ Len(frames) \in DOMAIN frames
          /\ FrameOK(e) /\ Nested(e, f) /\ Len(frames) \in Nat
          /\ e.from \in Node /\ e.to \in Node /\ e.to # f.to
          /\ heap[e.to].kind \in {"object", "array"}
          /\ heap[e.to].kind = "object" => f.at \in Key
      BY <1>1, OuterFrame
    <2>2. q \in Nat /\ Len(frames) = q + 1
      BY <1>1, <2>1
    <2>3. QED BY <2>1, <2>2
  <1>3. /\ r \in Seq(FrameType) /\ Len(r) = q /\ DOMAIN frames = 1 .. q + 1
        /\ \A j \in 1 .. q : r[j] = frames[j]
    BY <1>1, <1>2, Innermost DEF FramesInv
  <1>4. /\ heap \in Heaps /\ f.to \in Value /\ f.to \in Node /\ f.to # true
        /\ e.to \in A /\ f.to \in A /\ e.to \in Making \ {f.to}
    <2>1. f.to \in Node /\ f.to # true
      BY InnermostFrame, NodeIsNotTrue
    <2>2. QED BY <1>2, <2>1 DEF Making, Value, Counted, Counts
  <1>5. PICK a : a = Added(e.to, f.at, f.to)
    OBVIOUS
  <1>6. SameButContent(heap, h2, e.to, a)
    BY <1>2, <1>4, <1>5, PutEffect DEF Content
  <1>7. Made(h2, A, s)
    <2>1. \A j \in DOMAIN a :
             a[j] = f.to \/ \E l \in DOMAIN heap[e.to].content : a[j] = heap[e.to].content[l]
      <3>1. /\ e.to \in Node /\ f.to \in Value /\ heap \in Heaps
            /\ heap[e.to].kind \in {"object", "array"}
        BY <1>2, <1>4
      <3>2. \A j \in DOMAIN Added(e.to, f.at, f.to) :
               \/ Added(e.to, f.at, f.to)[j] = f.to
               \/ \E l \in DOMAIN heap[e.to].content :
                     Added(e.to, f.at, f.to)[j] = heap[e.to].content[l]
        BY ONLY <3>1, AddedMembers
      <3>3. QED BY <1>5, <3>2
    <2>2. QED BY <1>4, <1>6, <2>1, MadePut
  <1>8. ASSUME NEW g, Mirrors(heap, A, g, Making), InTurn(heap, g, frames)
        PROVE  Mirrors(h2, A, g, Making \ {f.to}) /\ InTurn(h2, g, r)
    <2>1. Nest(heap, g, frames, q + 1) /\ Awaits(heap, f, {})
      BY <1>2, <1>8 DEF InTurn
    <2>2. g[f.to] = f.from /\ g[e.to] = e.from
      BY <1>2, <1>3, <2>1 DEF Nest
    <2>3. Mirrors(heap, A, g, Making \ {f.to})
      <3>1. DOMAIN heap[f.to].content = DOMAIN heap[g[f.to]].content
        BY <2>1, <2>2 DEF Awaits
      <3>2. \A m \in A : m \notin Making \ {f.to} =>
               DOMAIN heap[m].content = DOMAIN heap[g[m]].content
        BY <1>8, <3>1 DEF Mirrors
      <3>3. QED BY <1>8, <3>2 DEF Mirrors
    <2>4. PICK P : P = e.rest \cup {f.at}
      OBVIOUS
    <2>5. /\ Awaits(heap, e, P)
          /\ heap[e.to].kind = "array" => \A y \in e.rest : f.at <= y
      BY <1>2, <1>3, <2>1, <2>4 DEF Nest
    <2>6. Extends(a, heap[e.to].content, f.at, f.to)
      <3>1. heap[e.to].kind = heap[e.from].kind
        BY <1>2 DEF FrameOK
      <3>2. heap[e.to].kind = "array" => f.at \in Nat
        BY <1>2, <1>4, <3>1, HasMembers DEF Nested
      <3>3. heap[e.to].kind = "array" => \A y \in P : f.at <= y
        BY <2>4, <2>5, <3>2
      <3>4. f.at \in P
        BY <2>4
      <3>5. QED BY <1>2, <1>4, <1>5, <2>5, <3>1, <3>3, <3>4, AddedInTurn
    <2>7. Mirrors(h2, A, g, Making \ {f.to})
      <3>1. /\ f.at \in DOMAIN heap[g[e.to]].content
            /\ heap[g[e.to]].content[f.at] = IF f.to = true THEN true ELSE g[f.to]
        BY <1>2, <1>4, <2>2 DEF Nested
      <3>2. QED BY <1>4, <1>6, <2>3, <2>6, <3>1, MirrorsPut
    <2>8. Ahead(r, q, f.at)
      <3>1. ASSUME NEW j \in 1 .. q
            PROVE  /\ r[j] \in FrameType
                   /\ r[j].from = frames[j].from /\ r[j].to = frames[j].to
                   /\ r[j].at = frames[j].at
                   /\ r[j].rest = IF j = q THEN frames[j].rest \ {f.at} ELSE frames[j].rest
        <4>1. r[j] = frames[j] /\ r[j] \in FrameType
          BY <1>3, ElementOfSeq
        <4>2. j = q => frames[j].rest = frames[j].rest \ {f.at}
          BY <1>2 DEF Nested
        <4>3. QED BY <4>1, <4>2
      <3>2. QED BY <3>1 DEF Ahead
    <2>9. ASSUME NEW j \in 1 .. q
          PROVE  /\ h2[frames[j].from].content = heap[frames[j].from].content
                 /\ h2[frames[j].to].kind = heap[frames[j].to].kind
                 /\ j # q => h2[frames[j].to].content = heap[frames[j].to].content
      <3>1. j \in DOMAIN frames
        BY <1>2, <1>3
      <3>2. /\ frames[j].from \in Node /\ frames[j].to \in Node
            /\ frames[j].from # e.to /\ (j # q => frames[j].to # e.to)
        BY <1>2, <3>1, FramesAreLive DEF FramesInv
      <3>3. QED BY <1>6, <3>2 DEF SameButContent
    <2>10. Nest(heap, g, frames, q)
      <3>1. \A j \in 1 .. q : j \in 1 .. q + 1
        BY <1>2
      <3>2. QED BY <2>1, <3>1 DEF Nest
    <2>11. Nest(h2, g, r, q)
      <3>1. \A j \in 1 .. q : g[frames[j].to] = g[frames[j].to]
        OBVIOUS
      <3>2. q \in DOMAIN frames
        BY <1>2
      <3>3. QED BY ONLY FramesInv, <2>8, <2>9, <2>10, <3>1, <3>2, NestGoes
    <2>12. Awaits(h2, e, e.rest)
      <3>1. h2[e.to].content = a /\ h2[e.from].content = heap[e.from].content
        BY <1>2, <1>6, <2>9 DEF SameButContent
      <3>2. e.rest = P \ {f.at}
        BY <1>2, <2>4 DEF Nested
      <3>3. /\ DOMAIN heap[e.from].content = DOMAIN heap[e.to].content \cup P
            /\ DOMAIN heap[e.to].content \cap P = {}
        BY <2>5 DEF Awaits
      <3>4. DOMAIN a = DOMAIN heap[e.to].content \cup {f.at} /\ f.at \in P
        BY <2>4, <2>6 DEF Extends
      <3>5. DOMAIN heap[e.from].content = DOMAIN a \cup e.rest /\ DOMAIN a \cap e.rest = {}
        BY <3>2, <3>3, <3>4
      <3>6. QED BY <3>1, <3>5 DEF Awaits
    <2>13. r[q] = e
      BY <1>2, <1>3
    <2>14. QED BY <1>3, <2>7, <2>11, <2>12, <2>13 DEF InTurn
  <1>9. QED BY <1>7, <1>8

\* What has been made stays alone when a value is released, and a call that goes on
\* after that has failed before.
LEMMA DecrefCopies == ASSUME IInv, CopyInv, Decref PROVE CopyInv'
  <1>1. /\ todo # <<>> /\ owned' = owned /\ frames' = frames /\ whole' = whole
        /\ copied' = copied
    BY DEF Decref, calls
  <1>2. copied = None
    BY <1>1 DEF CopyInv, Idle
  <1>3. ASSUME frames # <<>>
        PROVE  \E A \in SUBSET Node :
                  Made(heap', A, frames[1].from) /\ Making \subseteq A /\ ~whole
    <2>1. PICK A \in SUBSET Node :
             /\ Made(heap, A, frames[1].from) /\ Making \subseteq A
             /\ whole => todo = <<>>
      BY <1>3 DEF CopyInv
    <2>2. PICK B \in SUBSET A : /\ Made(heap', B, frames[1].from)
                                /\ \A n \in A : owned[n] > 0 => n \in B
      BY <2>1, DecrefMade DEF IInv
    <2>3. ASSUME NEW j \in DOMAIN frames PROVE frames[j].to \in B
      <3>1. owned[frames[j].to] = 1 /\ frames[j].to \in A
        BY <2>1 DEF IInv, FramesInv, FrameOK, Making
      <3>2. QED BY <2>2, <3>1
    <2>4. Making \subseteq B
      BY <2>3 DEF Making
    <2>5. B \in SUBSET Node
      BY <2>1
    <2>6. QED BY <1>1, <2>1, <2>2, <2>4, <2>5
  <1>4. CASE frames = <<>>
    BY <1>1, <1>2, <1>4 DEF CopyInv
  <1>5. CASE frames # <<>>
    <2>1. PICK A \in SUBSET Node : Made(heap', A, frames[1].from) /\ Making \subseteq A /\ ~whole
      BY <1>3, <1>5
    <2>2. Making' = Making
      BY <1>1 DEF Making
    <2>3. QED BY <1>1, <1>2, <2>1, <2>2 DEF CopyInv
  <1>6. QED BY <1>4, <1>5

\* What NewNode makes for a copy of v.
LEMMA NewIsFresh ==
    ASSUME Counted, NEW v \in Node, NEW n \in Node,
           heap[v].kind \in {"object", "array", "scalar"},
           NEW h, h = [heap EXCEPT ![n] = NewNode(heap[v].kind, heap[v].text)]
    PROVE  Fresh(h, n, v) /\ h \in Heaps
  <1>1. /\ heap \in [Node -> NodeRecord] /\ \A m \in Node : Shaped(heap[m])
    BY DEF Counted, Counts, Heaps
  <1>2. PICK kind, t, r : kind = heap[v].kind /\ t = heap[v].text /\ r = NewNode(kind, t)
    OBVIOUS
  <1>3. kind \in {"object", "array", "scalar"} /\ t \in IF kind = "scalar" THEN Text ELSE {None}
    BY <1>1, <1>2 DEF Shaped
  <1>4. /\ r \in NodeRecord /\ Shaped(r) /\ r.kind = kind /\ r.content = <<>>
        /\ r.text = t /\ r.refcount = 1
    BY <1>2, <1>3, NewNodeType
  <1>5. h = [heap EXCEPT ![n] = r]
    BY <1>2
  <1>6. h[n] = r /\ \A m \in Node : m # n => h[m] = heap[m]
    BY <1>1, <1>5
  <1>7. Fresh(h, n, v)
    BY <1>2, <1>4, <1>6 DEF Fresh
  <1>8. h \in Heaps
    BY <1>1, <1>4, <1>5 DEF Heaps
  <1>9. QED BY <1>7, <1>8

\* An object or an array has no text.
LEMMA ContainerText ==
    ASSUME Counted, NEW v \in Node, heap[v].kind \in {"object", "array"}
    PROVE  heap[v].text = None
  <1>1. Shaped(heap[v])
    BY DEF Counted, Counts, Heaps
  <1>2. QED BY <1>1 DEF Shaped

\* A deep copy begins with an empty container of the original's kind.
LEMMA DeepCopyMakes ==
    ASSUME Counted, Idle, NEW a \in Node, NEW b \in Free, BeginDeepCopy(a, b)
    PROVE  CopyInv'
  <1>1. /\ owned[a] > 0 /\ heap[a].kind \in {"object", "array"}
        /\ frames' = <<Frame(a, b, None)>> /\ copied' = None /\ todo' = <<>>
        /\ heap' = [heap EXCEPT ![b] = NewNode(KindOf(a), None)]
    BY KindOfNode DEF Idle, BeginDeepCopy, Containers
  <1>2. b \in Node /\ heap[b].kind = "free" /\ a # b
    <2>1. b \in Node /\ heap[b].kind = "free"
      BY KindOfNode DEF Free
    <2>2. QED BY <1>1, <2>1
  <1>3. heap' = [heap EXCEPT ![b] = NewNode(heap[a].kind, heap[a].text)]
    BY <1>1, KindOfNode, ContainerText
  <1>4. Fresh(heap', b, a)
    BY <1>1, <1>2, <1>3, NewIsFresh
  <1>5. PICK E : E = {}
    OBVIOUS
  <1>6. Made(heap, E, a)
    BY <1>5 DEF Made
  <1>7. PICK g : g = [x \in E |-> a]
    OBVIOUS
  <1>8. Mirrors(heap, E, g, E)
    BY <1>5, <1>7 DEF Mirrors
  <1>9. Made(heap', E \cup {b}, a)
    BY <1>2, <1>4, <1>6, MadeGrows
  <1>10. PICK B, g2 : B = E \cup {b} /\ g2 = With(g, b, a)
    OBVIOUS
  <1>11. Mirrors(heap', B, g2, B)
    <2>1. a \in Node \ E /\ E \subseteq B /\ b \in B
      BY <1>5, <1>10
    <2>2. QED BY <1>2, <1>4, <1>6, <1>8, <1>10, <2>1, MirrorsGrow
  <1>12. B \in SUBSET Node /\ g2 \in [B -> Node] /\ B = {b} /\ g2[b] = a
    <2>1. B \in SUBSET Node /\ B = {b}
      BY <1>2, <1>5, <1>10
    <2>2. g2 \in [B -> Node]
      BY <1>11 DEF Mirrors
    <2>3. g2[b] = a
      BY <1>10 DEF With
    <2>4. QED BY <2>1, <2>2, <2>3
  <1>13. PICK f : f = Frame(a, b, None)
    OBVIOUS
  <1>14. f.from = a /\ f.to = b /\ f.rest = DOMAIN heap[a].content
    BY <1>13 DEF Frame, Content
  <1>15. frames' = <<f>> /\ Len(frames') = 1 /\ frames'[1] = f /\ DOMAIN frames' = {1}
    BY <1>1, <1>13
  <1>16. Making' = B
    BY <1>12, <1>14, <1>15 DEF Making
  <1>17. InTurn(heap', g2, frames')
    <2>1. \A j \in 1 .. 1 : j = 1
      OBVIOUS
    <2>2. \A j, k \in 1 .. 1 : ~(k = j + 1)
      OBVIOUS
    <2>3. Nest(heap', g2, frames', 1)
      BY <1>12, <1>14, <1>15, <2>1, <2>2 DEF Nest
    <2>4. heap'[a] = heap[a] /\ heap'[b].content = <<>>
      BY <1>2, <1>4 DEF Fresh
    <2>5. Awaits(heap', f, f.rest)
      BY <1>14, <2>4, EmptyContent DEF Awaits
    <2>6. QED BY <1>15, <2>3, <2>5 DEF InTurn
  <1>18. Made(heap', B, frames'[1].from)
    BY <1>9, <1>10, <1>14, <1>15
  <1>19. /\ copied' = None
         /\ \E A \in SUBSET Node :
               /\ Made(heap', A, frames'[1].from) /\ Making' \subseteq A
               /\ whole' => /\ todo' = <<>>
                            /\ \E m \in [A -> Node] :
                                  Mirrors(heap', A, m, Making') /\ InTurn(heap', m, frames')
    BY <1>1, <1>11, <1>12, <1>16, <1>17, <1>18
  <1>20. QED BY <1>19 DEF CopyInv

\* The calls with a member behind make the same copies.
LEMMA BehindMakes ==
    ASSUME FramesInv, frames # <<>>, NEW i, NEW r, r = Past(i)
    PROVE  /\ {r[j].to : j \in DOMAIN r} = Making
           /\ Len(r) = Len(frames) /\ r # <<>> /\ r[1].from = frames[1].from
  <1>1. PICK f, q : f = Last(frames) /\ q = Len(frames)
    OBVIOUS
  <1>2. /\ q \in Nat /\ q >= 1 /\ r \in Seq(FrameType) /\ Len(r) = q /\ Ahead(r, q, i)
    BY <1>1, Behind
  <1>3. DOMAIN r = 1 .. q /\ DOMAIN frames = 1 .. q /\ 1 \in 1 .. q
    BY <1>1, <1>2, LenProperties DEF FramesInv
  <1>4. \A j \in 1 .. q : r[j].to = frames[j].to /\ r[j].from = frames[j].from
    BY <1>2 DEF Ahead
  <1>5. {r[j].to : j \in DOMAIN r} = Making
    BY <1>3, <1>4 DEF Making
  <1>6. r # <<>>
    BY <1>3
  <1>7. QED BY <1>1, <1>2, <1>3, <1>4, <1>5, <1>6

\* What the invariant says while calls are made.
LEMMA CopiesAre ==
    ASSUME CopyInv, frames # <<>>
    PROVE  /\ copied = None
           /\ \E A \in SUBSET Node :
                 /\ Made(heap, A, frames[1].from) /\ Making \subseteq A
                 /\ whole => \E g \in [A -> Node] :
                                Mirrors(heap, A, g, Making) /\ InTurn(heap, g, frames)
  BY DEF CopyInv, Idle

\* What is to be shown of a step after which calls are still made.
LEMMA CopiesGoOn ==
    ASSUME copied' = None, NEW A \in SUBSET Node, frames' # <<>>,
           Made(heap', A, frames'[1].from), Making' \subseteq A,
           whole' => /\ todo' = <<>>
                     /\ \E g \in [A -> Node] :
                           Mirrors(heap', A, g, Making') /\ InTurn(heap', g, frames')
    PROVE  CopyInv'
  BY DEF CopyInv

\* A member is passed over, put, or copied by another call.
LEMMA MemberCopies == ASSUME IInv, CopyInv, DeepCopyMember PROVE CopyInv'
  <1>1. /\ todo = <<>> /\ frames # <<>> /\ todo' = <<>> /\ copied' = copied
        /\ Counted /\ FramesInv /\ whole \in BOOLEAN
        /\ heap \in Heaps /\ heap \in [Node -> NodeRecord]
    BY DEF IInv, DeepCopyMember, Counted, Counts, Heaps
  <1>2. copied' = None
    BY <1>1, CopiesAre
  <1>3. PICK A \in SUBSET Node :
           /\ Made(heap, A, frames[1].from) /\ Making \subseteq A
           /\ whole => \E g \in [A -> Node] :
                          Mirrors(heap, A, g, Making) /\ InTurn(heap, g, frames)
    BY <1>1, CopiesAre
  <1>4. PICK s : s = frames[1].from
    OBVIOUS
  <1>5. PICK f : f = Last(frames)
    OBVIOUS
  <1>6. /\ f.from \in Node /\ f.to \in Node /\ f.to \in Making
        /\ \A i \in f.rest : i \in DOMAIN heap[f.from].content
        /\ 1 \in DOMAIN frames
    <2>1. Len(frames) \in DOMAIN frames /\ f = frames[Len(frames)] /\ 1 \in DOMAIN frames
      <3>1. frames \in Seq(FrameType)
        BY <1>1 DEF FramesInv
      <3>2. /\ Len(frames) \in Nat /\ Len(frames) >= 1 /\ Len(frames) \in DOMAIN frames
            /\ DOMAIN frames = 1 .. Len(frames) /\ f = frames[Len(frames)]
        BY <1>1, <1>5, <3>1, Innermost
      <3>3. QED BY <3>2
    <2>2. QED BY <1>1, <1>5, <2>1, InnermostFrame DEF Making
  <1>7. \A n \in Node : heap[n].kind = "free" => s # n
    BY <1>1, <1>4, <1>6, CopiesAreLive
  <1>8. ASSUME NEW i \in f.rest, frames' = Past(i), heap' = heap, whole' = FALSE
        PROVE  CopyInv'
    <2>1. Making' = Making /\ frames' # <<>> /\ frames'[1].from = frames[1].from
      <3>1. PICK r : r = Past(i)
        OBVIOUS
      <3>2. /\ {r[j].to : j \in DOMAIN r} = Making
            /\ r # <<>> /\ r[1].from = frames[1].from
        BY <1>1, <3>1, BehindMakes
      <3>3. frames' = r
        BY <1>8, <3>1
      <3>4. Making' = Making
        BY <3>2, <3>3 DEF Making
      <3>5. QED BY <3>2, <3>3, <3>4
    <2>2. QED BY <1>2, <1>3, <1>8, <2>1, CopiesGoOn
  <1>9. ASSUME NEW i \in f.rest, IsNext(i, f.rest, f.from), frames' = Past(i), whole' = whole,
               NEW h \in Heaps, \A m \in Node : heap[m].kind # "free" => h[m] = heap[m],
               NEW B \in SUBSET Node, A \subseteq B, Made(h, B, s), NEW w \in B \cup {true},
               heap' = Put(h, f.to, i, w),
               whole => \E g \in [B -> Node] :
                           /\ Mirrors(h, B, g, Making) /\ InTurn(heap, g, frames)
                           /\ heap[f.from].content[i] = IF w = true THEN true ELSE g[w]
        PROVE  CopyInv'
    <2>1. Making' = Making /\ frames' # <<>> /\ frames'[1].from = s
      <3>1. PICK r : r = Past(i)
        OBVIOUS
      <3>2. /\ {r[j].to : j \in DOMAIN r} = Making
            /\ r # <<>> /\ r[1].from = frames[1].from
        BY <1>1, <3>1, BehindMakes
      <3>3. frames' = r
        BY <1>9, <3>1
      <3>4. Making' = Making
        BY <3>2, <3>3 DEF Making
      <3>5. QED BY <1>4, <3>2, <3>3, <3>4
    <2>2. Making \subseteq B
      BY <1>3, <1>9
    <2>3. /\ Made(heap', B, s)
          /\ \A g : /\ Mirrors(h, B, g, Making) /\ InTurn(heap, g, frames)
                    /\ heap[f.from].content[i] = IF w = true THEN true ELSE g[w]
                    => Mirrors(heap', B, g, Making) /\ InTurn(heap', g, frames')
      BY <1>1, <1>5, <1>9, <2>2, MemberPut
    <2>4. whole' => \E g \in [B -> Node] :
                       Mirrors(heap', B, g, Making') /\ InTurn(heap', g, frames')
      BY <1>9, <2>1, <2>3
    <2>5. QED BY <1>1, <1>2, <2>1, <2>2, <2>3, <2>4, CopiesGoOn
  <1>10. ASSUME NEW i \in f.rest, IsNext(i, f.rest, f.from), frames' = Past(i), whole' = whole,
                heap[f.from].content[i] = true, heap' = Put(heap, f.to, i, true)
         PROVE  CopyInv'
    <2>1. whole => \E g \in [A -> Node] :
                      /\ Mirrors(heap, A, g, Making) /\ InTurn(heap, g, frames)
                      /\ heap[f.from].content[i] = IF true = true THEN true ELSE g[true]
      BY <1>3, <1>10
    <2>2. true \in A \cup {true} /\ A \subseteq A
      OBVIOUS
    <2>3. PICK w : w = true
      OBVIOUS
    <2>4. QED BY <1>1, <1>3, <1>4, <1>9, <1>10, <2>1, <2>2, <2>3
  <1>11. ASSUME NEW i \in f.rest, IsNext(i, f.rest, f.from), frames' = Past(i), whole' = whole,
                NEW v, v = heap[f.from].content[i], NEW n \in Free, KindOf(v) = "scalar",
                heap' = Put([heap EXCEPT ![n] = NewNode("scalar", heap[v].text)], f.to, i, n)
         PROVE  CopyInv'
    <2>1. v \in Node /\ heap[v].kind = "scalar"
      <3>1. v \in Value
        BY <1>1, <1>6, <1>11, HeapCountable
      <3>2. v # true
        BY <1>11 DEF KindOf
      <3>3. QED BY <1>11, <3>1, <3>2 DEF KindOf, Value
    <2>2. n \in Node /\ heap[n].kind = "free" /\ v # n /\ n # true
      BY <2>1, KindOfNode, NodeIsNotTrue DEF Free
    <2>3. PICK h : h = [heap EXCEPT ![n] = NewNode(heap[v].kind, heap[v].text)]
      OBVIOUS
    <2>4. Fresh(h, n, v) /\ h \in Heaps
      BY <1>1, <2>1, <2>2, <2>3, NewIsFresh
    <2>5. heap' = Put(h, f.to, i, n)
      BY <1>11, <2>1, <2>3
    <2>6. Made(h, A \cup {n}, s)
      BY <1>1, <1>3, <1>4, <1>7, <2>2, <2>4, MadeGrows
    <2>7. PICK B : B = A \cup {n}
      OBVIOUS
    <2>8. ASSUME whole
          PROVE  \E g \in [B -> Node] :
                    /\ Mirrors(h, B, g, Making) /\ InTurn(heap, g, frames)
                    /\ heap[f.from].content[i] = IF n = true THEN true ELSE g[n]
      <3>1. PICK g \in [A -> Node] : Mirrors(heap, A, g, Making) /\ InTurn(heap, g, frames)
        BY <1>3, <2>8
      <3>2. PICK q : q = Len(frames)
        OBVIOUS
      <3>3. q \in Nat /\ q \in 1 .. q /\ f = frames[q] /\ DOMAIN frames = 1 .. q
        BY <1>1, <1>5, <3>2, Innermost DEF FramesInv
      <3>4. g[f.to] = f.from /\ f.to \in A
        BY <1>3, <1>6, <3>1, <3>2, <3>3 DEF InTurn, Nest
      <3>5. f.from \in Node \ A
        BY <3>1, <3>4 DEF Mirrors
      <3>6. v \in Node \ A
        BY <1>3, <1>6, <1>11, <2>1, <3>5 DEF Made
      <3>7. DOMAIN heap[v].content = {}
        BY <1>1, <2>1, EmptyContent DEF Heaps, Shaped
      <3>8. Made(heap, A, s) /\ Making \subseteq Making
        BY <1>3, <1>4
      <3>9. PICK g2 : g2 = With(g, n, v)
        OBVIOUS
      <3>10. Mirrors(h, B, g2, Making)
        BY <1>1, <2>2, <2>4, <2>7, <3>1, <3>6, <3>7, <3>8, <3>9, MirrorsGrow
      <3>11. g2 \in [B -> Node]
        BY <3>10 DEF Mirrors
      <3>12. g2[n] = v /\ \A m \in A : m # n => g2[m] = g[m]
        BY <3>1, <3>9 DEF With
      <3>13. \A j \in 1 .. q : frames[j].to \in A /\ frames[j].to # n
        BY <1>1, <1>3, <2>2, <3>3, CopiesAreLive DEF Making
      <3>14. \A j \in 1 .. q : g2[frames[j].to] = g[frames[j].to]
        BY <3>12, <3>13
      <3>15. InTurn(heap, g2, frames)
        BY <3>1, <3>2, <3>14 DEF InTurn, Nest
      <3>16. QED BY <1>11, <2>2, <3>10, <3>11, <3>12, <3>15
    <2>9. /\ B \in SUBSET Node /\ A \subseteq B /\ Made(h, B, s) /\ n \in B \cup {true}
          /\ \A m \in Node : heap[m].kind # "free" => h[m] = heap[m]
      BY <2>2, <2>4, <2>6, <2>7 DEF Fresh
    <2>10. QED BY <1>9, <1>11, <2>4, <2>5, <2>8, <2>9
  <1>12. ASSUME NEW i \in f.rest, IsNext(i, f.rest, f.from), whole' = whole,
                NEW v, v = heap[f.from].content[i], NEW n \in Free, v \in Containers,
                heap' = [heap EXCEPT ![n] = NewNode(KindOf(v), None)],
                frames' = Append(Past(i), Frame(v, n, i))
         PROVE  CopyInv'
    <2>1. /\ v \in Node /\ heap[v].kind \in {"object", "array"}
          /\ n \in Node /\ heap[n].kind = "free"
      BY <1>12, KindOfNode DEF Containers, Free
    <2>2. heap' = [heap EXCEPT ![n] = NewNode(heap[v].kind, heap[v].text)]
      BY <1>1, <1>12, <2>1, KindOfNode, ContainerText
    <2>3. Fresh(heap', n, v)
      BY <1>1, <2>1, <2>2, NewIsFresh
    <2>4. /\ Made(heap', A \cup {n}, s)
          /\ \A g : Mirrors(heap, A, g, Making) /\ InTurn(heap, g, frames) =>
               \E g2 \in [A \cup {n} -> Node] :
                  Mirrors(heap', A \cup {n}, g2, Making \cup {n}) /\ InTurn(heap', g2, frames')
      <3>1. Made(heap, A, s) /\ Making \subseteq A /\ s # n
        BY <1>3, <1>4, <1>7, <2>1
      <3>2. QED BY <1>1, <1>5, <1>12, <2>1, <2>3, <3>1, NestedBegins
    <2>5. PICK p, k : p = Past(i) /\ k = Frame(v, n, i)
      OBVIOUS
    <2>6. /\ {p[j].to : j \in DOMAIN p} = Making
          /\ Len(p) = Len(frames) /\ p # <<>> /\ p[1].from = s /\ p \in Seq(FrameType)
      BY <1>1, <1>4, <1>5, <2>5, BehindMakes, Behind
    <2>7. k.to = n
      BY <2>5 DEF Frame
    <2>8. PICK q \in Nat : q = Len(p) /\ DOMAIN p = 1 .. q /\ q >= 1
      BY <2>6, LenProperties, EmptySeq
    <2>9. /\ DOMAIN frames' = 1 .. q + 1 /\ frames'[q + 1] = k
          /\ \A j \in 1 .. q : frames'[j] = p[j]
      <3>1. p \in Seq(FrameType \cup {k}) /\ k \in FrameType \cup {k} /\ frames' = Append(p, k)
        BY <1>12, <2>5, <2>6
      <3>2. QED BY <2>8, <3>1
    <2>10. Making' = Making \cup {n}
      <3>1. \A j \in 1 .. q + 1 : j \in 1 .. q \/ j = q + 1
        BY <2>8
      <3>2. \A j \in 1 .. q : j \in 1 .. q + 1
        BY <2>8
      <3>3. Making' = {frames'[j].to : j \in DOMAIN frames'}
        BY DEF Making
      <3>4. q + 1 \in 1 .. q + 1
        BY <2>8
      <3>5. \A m : m \in Making' <=> m \in Making \/ m = n
        BY <2>6, <2>7, <2>8, <2>9, <3>1, <3>2, <3>3, <3>4
      <3>6. QED BY <3>5
    <2>11. frames' # <<>> /\ frames'[1].from = s
      BY <2>6, <2>8, <2>9
    <2>12. Making' \subseteq A \cup {n} /\ A \cup {n} \in SUBSET Node
      BY <1>3, <2>1, <2>10
    <2>13. whole' => \E g \in [A \cup {n} -> Node] :
                        Mirrors(heap', A \cup {n}, g, Making') /\ InTurn(heap', g, frames')
      BY <1>3, <1>12, <2>4, <2>10
    <2>14. QED BY <1>1, <1>2, <2>4, <2>11, <2>12, <2>13, CopiesGoOn
  <1>13. QED
    <2>1. PICK i \in f.rest :
            LET v == Content(f.from)[i]
                rest == Append(Front(frames), [f EXCEPT !.rest = @ \ {i}])
            IN  /\ IsNext(i, f.rest, f.from)
                /\ \/ /\ v # true \/ PutMayFail(f.to, i)
                      /\ frames' = rest /\ whole' = FALSE
                      /\ UNCHANGED <<heap, owned>>
                   \/ /\ v = true
                      /\ heap' = Put(heap, f.to, i, true)
                      /\ frames' = rest /\ UNCHANGED <<owned, whole>>
                   \/ \E n \in Free :
                        /\ KindOf(v) = "scalar"
                        /\ heap' = Put([heap EXCEPT ![n] = NewNode("scalar", heap[v].text)],
                                       f.to, i, n)
                        /\ frames' = rest /\ UNCHANGED <<owned, whole>>
                   \/ \E n \in Free :
                        /\ v \in Containers
                        /\ heap' = [heap EXCEPT ![n] = NewNode(KindOf(v), None)]
                        /\ owned' = Own(n, 1)
                        /\ frames' = Append(rest, Frame(v, n, i))
                        /\ UNCHANGED whole
      BY <1>5 DEF DeepCopyMember
    <2>2. PICK v : v = heap[f.from].content[i]
      OBVIOUS
    <2>3. PICK rest : rest = Past(i)
      OBVIOUS
    <2>4. /\ IsNext(i, f.rest, f.from)
          /\ \/ frames' = rest /\ heap' = heap /\ whole' = FALSE
             \/ /\ v = true /\ heap' = Put(heap, f.to, i, true)
                /\ frames' = rest /\ whole' = whole
             \/ \E n \in Free :
                  /\ KindOf(v) = "scalar"
                  /\ heap' = Put([heap EXCEPT ![n] = NewNode("scalar", heap[v].text)], f.to, i, n)
                  /\ frames' = rest /\ whole' = whole
             \/ \E n \in Free :
                  /\ v \in Containers
                  /\ heap' = [heap EXCEPT ![n] = NewNode(KindOf(v), None)]
                  /\ frames' = Append(rest, Frame(v, n, i)) /\ whole' = whole
      BY <1>5, <2>1, <2>2, <2>3 DEF Content, Past
    <2>5. QED BY <1>8, <1>10, <1>11, <1>12, <2>2, <2>3, <2>4

\* The innermost call returns its copy, to the program if there is no other call.
LEMMA ReturnCopies == ASSUME IInv, CopyInv, DeepCopyReturn PROVE CopyInv'
  <1>1. /\ todo = <<>> /\ frames # <<>> /\ frames' = Front(frames) /\ loop' = loop
        /\ Counted /\ FramesInv /\ whole \in BOOLEAN /\ loop = None
        /\ frames \in Seq(FrameType)
    BY DEF IInv, LoopInv, DeepCopyReturn, FramesInv
  <1>2. copied = None
    BY <1>1, CopiesAre
  <1>3. PICK A \in SUBSET Node :
           /\ Made(heap, A, frames[1].from) /\ Making \subseteq A
           /\ whole => \E g \in [A -> Node] :
                          Mirrors(heap, A, g, Making) /\ InTurn(heap, g, frames)
    BY <1>1, CopiesAre
  <1>4. PICK f, r, q : f = Last(frames) /\ r = Front(frames) /\ q = Len(frames)
    OBVIOUS
  <1>5. /\ q \in Nat /\ q >= 1 /\ q \in DOMAIN frames /\ f = frames[q] /\ DOMAIN frames = 1 .. q
        /\ DOMAIN r = 1 .. q - 1 /\ \A j \in 1 .. q - 1 : r[j] = frames[j]
        /\ Len(r) = q - 1
    BY <1>1, <1>4, Innermost
  <1>6. f.rest = {}
    BY <1>4 DEF DeepCopyReturn
  <1>7. CASE r = <<>>
    <2>1. /\ copied' = [from |-> f.from, to |-> f.to]
          /\ heap' = heap /\ todo' = todo /\ whole' = whole /\ frames' = <<>>
      BY <1>1, <1>4, <1>7 DEF DeepCopyReturn
    <2>2. q = 1 /\ f = frames[1] /\ DOMAIN frames = {1}
      BY <1>5, <1>7
    <2>3. copied'.from = f.from /\ copied'.to = f.to
      BY <2>1
    <2>4. f.to \in A /\ Making = {f.to}
      BY <1>3, <2>2 DEF Making
    <2>5. whole => \E g \in [A -> Node] : Mirrors(heap, A, g, {}) /\ g[f.to] = f.from
      <3>1. SUFFICES ASSUME whole
                     PROVE  \E g \in [A -> Node] : Mirrors(heap, A, g, {}) /\ g[f.to] = f.from
        OBVIOUS
      <3>2. PICK g \in [A -> Node] : Mirrors(heap, A, g, Making) /\ InTurn(heap, g, frames)
        BY <1>3, <3>1
      <3>3. Nest(heap, g, frames, q) /\ Awaits(heap, f, {})
        BY <1>4, <1>5, <1>6, <3>2 DEF InTurn
      <3>4. g[f.to] = f.from
        BY <1>5, <3>3 DEF Nest
      <3>5. DOMAIN heap[f.to].content = DOMAIN heap[g[f.to]].content
        BY <3>3, <3>4 DEF Awaits
      <3>6. \A n \in A : DOMAIN heap[n].content = DOMAIN heap[g[n]].content
        BY <2>4, <3>2, <3>5 DEF Mirrors
      <3>7. Mirrors(heap, A, g, {})
        BY <3>2, <3>6 DEF Mirrors
      <3>8. QED BY <3>4, <3>7
    <2>6. Idle'
      BY <1>1, <2>1 DEF Idle
    <2>7. Made(heap, A, f.from)
      BY <1>3, <2>2
    <2>8. \E B \in SUBSET Node :
             /\ Made(heap', B, copied'.from) /\ copied'.to \in B
             /\ whole' => \E g \in [B -> Node] :
                             Mirrors(heap', B, g, {}) /\ g[copied'.to] = copied'.from
      BY <2>1, <2>3, <2>4, <2>5, <2>7
    <2>9. QED BY <2>1, <2>6, <2>8 DEF CopyInv
  <1>8. CASE r # <<>>
    <2>1. PICK e : e = Last(r)
      OBVIOUS
    <2>2. 1 \in 1 .. q - 1 /\ frames'[1].from = frames[1].from
      <3>1. q - 1 # 0
        BY <1>5, <1>8
      <3>2. 1 \in 1 .. q - 1
        BY <1>5, <3>1
      <3>3. QED BY <1>1, <1>4, <1>5, <3>2
    <2>3. Making' = Making \ {f.to}
      <3>1. Making' = {r[j].to : j \in DOMAIN r}
        BY <1>1, <1>4 DEF Making
      <3>2. \A j \in 1 .. q - 1 : j \in 1 .. q /\ j # q /\ frames[j].to # f.to
        <4>1. ASSUME NEW j \in 1 .. q - 1 PROVE j \in 1 .. q /\ j # q
          BY <1>5
        <4>2. QED BY <1>5, <4>1 DEF FramesInv, IInv
      <3>3. \A j \in 1 .. q : j \in 1 .. q - 1 \/ j = q
        BY <1>5
      <3>4. \A m : m \in Making' <=> m \in Making /\ m # f.to
        BY <1>5, <3>1, <3>2, <3>3 DEF Making
      <3>5. QED BY <3>4
    <2>4. Making' \subseteq A
      BY <1>3, <2>3
    <2>5. copied' = copied
      BY <1>4, <1>8 DEF DeepCopyReturn
    <2>6. frames' # <<>>
      BY <1>1, <1>4, <1>8
    <2>7. CASE heap' = heap /\ whole' = FALSE
      BY <1>2, <1>3, <2>2, <2>4, <2>5, <2>6, <2>7, CopiesGoOn
    <2>8. CASE heap' = Put(heap, e.to, f.at, f.to) /\ todo' = todo /\ whole' = whole
      <3>1. /\ Made(heap', A, frames[1].from)
            /\ \A g : Mirrors(heap, A, g, Making) /\ InTurn(heap, g, frames) =>
                  Mirrors(heap', A, g, Making \ {f.to}) /\ InTurn(heap', g, frames')
        BY <1>1, <1>3, <1>4, <1>6, <1>8, <2>1, <2>8, NestedReturns
      <3>2. whole' => \E g \in [A -> Node] :
                         Mirrors(heap', A, g, Making') /\ InTurn(heap', g, frames')
        BY <1>3, <2>3, <2>8, <3>1
      <3>3. QED BY <1>1, <1>2, <2>2, <2>4, <2>5, <2>6, <2>8, <3>1, <3>2, CopiesGoOn
    <2>9. QED BY <1>4, <1>8, <2>1, <2>7, <2>8 DEF DeepCopyReturn
  <1>9. QED BY <1>7, <1>8

\* Nothing is claimed while no copy is made and none has just returned.
LEMMA NoCopies == ASSUME copied' = None, frames' = <<>> PROVE CopyInv'
  BY DEF CopyInv

\* Every step keeps what is claimed of deep copies.
LEMMA NextKeepsCopies == ASSUME IInv, CopyInv, [Next]_vars PROVE CopyInv'
  <1>1. ASSUME Idle, NoCall PROVE CopyInv'
    BY <1>1, NoCopies DEF Idle, NoCall
  <1>2. CASE LoopStep \/ LoopEnd
    <2>1. loop # None /\ frames' = frames /\ copied' = copied
      BY <1>2 DEF LoopStep, LoopEnd
    <2>2. frames = <<>> /\ copied = None
      BY <2>1 DEF IInv, LoopInv, CopyInv, Idle
    <2>3. QED BY <2>1, <2>2, NoCopies
  <1>3. CASE Call
    <2>1. Idle
      BY <1>3 DEF Call
    <2>2. ASSUME NEW a \in Node, NEW b \in Free, BeginDeepCopy(a, b) PROVE CopyInv'
      BY <2>1, <2>2, DeepCopyMakes DEF IInv
    <2>3. ASSUME NEW a \in Node, NEW b \in Free, BeginCopy(a, b) PROVE CopyInv'
      BY <2>1, <2>3, NoCopies DEF BeginCopy, Idle
    <2>4. ASSUME NEW op, NEW a \in Node, NEW b \in Node, BeginUpdate(op, a, b) PROVE CopyInv'
      BY <2>1, <2>4, NoCopies DEF BeginUpdate, Idle
    <2>5. ASSUME NEW c \in Node, NEW v \in Held, NEW taken \in BOOLEAN, NEW i,
                 \/ ObjectSetNew(c, i, v, taken) \/ IterSetNew(c, i, v, taken)
                 \/ ArrayAppendNew(c, v, taken) \/ ArraySetNew(c, i, v, taken)
                 \/ ArrayInsertNew(c, i, v, taken)
          PROVE  CopyInv'
      <3>1. NoCall
        BY <2>5 DEF ObjectSetNew, IterSetNew, ArrayAppendNew, ArraySetNew, ArrayInsertNew, Passing
      <3>2. QED BY <1>1, <2>1, <3>1
    <2>6. ASSUME NEW n, NEW kind, NEW t,
                 New(n, kind, t) \/ ScalarSet(n, t) \/ Take(n, t) \/ ArrayExtend(n, t)
          PROVE  CopyInv'
      <3>1. NoCall
        BY <2>6 DEF New, ScalarSet, Take, ArrayExtend
      <3>2. QED BY <1>1, <2>1, <3>1
    <2>7. QED BY <1>3, <2>2, <2>3, <2>4, <2>5, <2>6 DEF Call
  <1>4. ASSUME Idle, NEW n, NEW i, Drop(n) \/ Clear(n) \/ RemoveMember(n, i) PROVE CopyInv'
    <2>1. NoCall
      BY <1>4 DEF Drop, Clear, RemoveMember
    <2>2. QED BY <1>1, <1>4, <2>1
  <1>5. CASE UNCHANGED vars
    <2>1. /\ heap' = heap /\ todo' = todo /\ loop' = loop /\ frames' = frames
          /\ whole' = whole /\ copied' = copied
      BY <1>5 DEF vars, calls
    <2>2. Idle' = Idle /\ Making' = Making
      BY <2>1 DEF Idle, Making
    <2>3. QED BY <2>1, <2>2 DEF CopyInv
  <1>6. QED
    BY <1>2, <1>3, <1>4, <1>5, DecrefCopies, MemberCopies, ReturnCopies DEF Next

-----------------------------------------------------------------------------
(* Equal values.                                                            *)

\* What holds of 0 and of the next number of each holds of all up to K.
LEMMA UpTo ==
    ASSUME NEW K \in Nat, NEW X, 0 \in X, \A k \in X \cap (0 .. K) : k < K => k + 1 \in X
    PROVE  0 .. K \subseteq X
  <1>1. PICK S : S = 0 .. K
    OBVIOUS
  <1>2. PICK T : T = {0 .. k : k \in {k \in S : 0 .. k \subseteq X}}
    OBVIOUS
  <1>3. IsFiniteSet(S)
    BY <1>1, FS_Interval
  <1>4. T \in SUBSET SUBSET S /\ T # {}
    <2>1. \A k \in S : 0 .. k \in SUBSET S
      BY <1>1
    <2>2. 0 \in S /\ 0 .. 0 \subseteq X
      BY <1>1
    <2>3. 0 .. 0 \in T
      BY <1>2, <2>2
    <2>4. T \subseteq SUBSET S
      BY <1>2, <2>1
    <2>5. QED BY <2>3, <2>4
  <1>5. PICK Y \in T : \A Z \in T : Y \subseteq Z => Y = Z
    BY <1>3, <1>4, Maximal
  <1>6. PICK k \in S : 0 .. k \subseteq X /\ Y = 0 .. k
    BY <1>2
  <1>7. CASE k = K
    BY <1>6, <1>7
  <1>8. CASE k # K
    <2>1. k \in X \cap (0 .. K) /\ k < K
      BY <1>1, <1>6, <1>8
    <2>2. k + 1 \in X
      BY <2>1
    <2>3. k + 1 \in S /\ 0 .. k + 1 \subseteq X
      BY <1>1, <1>6, <2>1, <2>2
    <2>4. 0 .. k + 1 \in T
      BY <1>2, <2>3
    <2>5. 0 .. k \subseteq 0 .. k + 1
      BY <1>1
    <2>6. 0 .. k = 0 .. k + 1
      BY <1>5, <1>6, <2>4, <2>5
    <2>7. k + 1 \in 0 .. k + 1 /\ k + 1 \notin 0 .. k
      BY <1>1
    <2>8. QED BY <2>6, <2>7
  <1>9. QED BY <1>7, <1>8

\* The pairs that are alike as far as those of their members that are in D are.
AlikeIf(d, D) ==
    {p \in Value \X Value :
        \/ p[1] = p[2]
        \/ /\ true \notin {p[1], p[2]} /\ KindOf(p[1]) = KindOf(p[2])
           /\ heap[p[1]].text = heap[p[2]].text
           /\ DOMAIN Content(p[1]) = DOMAIN Content(p[2])
           /\ d > 0 => \A i \in DOMAIN Content(p[1]) :
                          <<Content(p[1])[i], Content(p[2])[i]>> \in D}
Solves(F, K) == F = [d \in 0 .. K |-> AlikeIf(d, F[d - 1])]

\* The equations that Equal is defined by have a solution.
LEMMA SomeSolve == ASSUME NEW K \in Nat PROVE \E F : Solves(F, K)
  <1>1. PICK X : X = {k \in 0 .. K : \E F : Solves(F, k)}
    OBVIOUS
  <1>2. \A D, E : AlikeIf(0, D) = AlikeIf(0, E)
    BY DEF AlikeIf
  <1>3. 0 \in X
    <2>1. PICK F : F = [d \in 0 .. 0 |-> AlikeIf(0, {})]
      OBVIOUS
    <2>2. AlikeIf(0, F[0 - 1]) = AlikeIf(0, {})
      BY <1>2
    <2>3. F = [d \in 0 .. 0 |-> AlikeIf(d, F[d - 1])]
      BY <2>1, <2>2
    <2>4. QED BY <1>1, <2>3 DEF Solves
  <1>4. ASSUME NEW k \in X \cap (0 .. K), k < K PROVE k + 1 \in X
    <2>1. PICK F : Solves(F, k)
      BY <1>1
    <2>2. F = [d \in 0 .. k |-> AlikeIf(d, F[d - 1])] /\ k \in Nat
      BY <2>1 DEF Solves
    <2>3. PICK G : G = [d \in 0 .. k + 1 |-> IF d = k + 1 THEN AlikeIf(k + 1, F[k]) ELSE F[d]]
      OBVIOUS
    <2>4. ASSUME NEW d \in 0 .. k + 1 PROVE G[d] = AlikeIf(d, G[d - 1])
      <3>1. CASE d = k + 1
        <4>1. d - 1 = k /\ k \in 0 .. k + 1 /\ k # k + 1
          BY <2>2, <3>1
        <4>2. G[d - 1] = F[k]
          BY <2>3, <4>1
        <4>3. G[d] = AlikeIf(k + 1, F[k])
          BY <2>3, <3>1
        <4>4. QED BY <3>1, <4>2, <4>3
      <3>2. CASE d # k + 1 /\ d # 0
        <4>1. d \in 0 .. k /\ d - 1 \in 0 .. k + 1 /\ d - 1 # k + 1
          BY <2>2, <3>2
        <4>2. G[d - 1] = F[d - 1] /\ G[d] = F[d]
          BY <2>3, <3>2, <4>1
        <4>3. F[d] = AlikeIf(d, F[d - 1])
          BY <2>2, <4>1
        <4>4. QED BY <4>2, <4>3
      <3>3. CASE d = 0
        <4>1. d \in 0 .. k /\ d # k + 1
          BY <2>2, <3>3
        <4>2. G[d] = AlikeIf(d, F[d - 1])
          BY <2>2, <2>3, <4>1
        <4>3. QED BY <1>2, <3>3, <4>2
      <3>4. QED BY <3>1, <3>2, <3>3
    <2>5. G = [d \in 0 .. k + 1 |-> AlikeIf(d, G[d - 1])]
      BY <2>3, <2>4
    <2>6. k + 1 \in 0 .. K
      BY <1>4, <2>2
    <2>7. \E H : Solves(H, k + 1)
      BY <2>5 DEF Solves
    <2>8. QED BY <1>1, <2>6, <2>7
  <1>5. K \in X
    <2>1. 0 .. K \subseteq X
      BY <1>3, <1>4, UpTo
    <2>2. QED BY <2>1
  <1>6. QED BY <1>1, <1>5

\* Equal goes as deep as there are values.
LEMMA EqualIs ==
    ASSUME NEW v, NEW w
    PROVE  \E F, K : K \in Nat /\ Solves(F, K) /\ Equal(v, w) = (<<v, w>> \in F[K])
  <1>1. PICK K : K = Cardinality(Node)
    OBVIOUS
  <1>2. K \in Nat
    BY <1>1, JsonValueAssumption, FS_CardinalityType
  <1>3. PICK E : E = CHOOSE F : Solves(F, K)
    OBVIOUS
  <1>4. Solves(E, K)
    BY <1>2, <1>3, SomeSolve
  <1>5. Equal(v, w) = (<<v, w>> \in E[K])
    BY <1>1, <1>3 DEF Equal, Solves, AlikeIf
  <1>6. QED BY <1>2, <1>4, <1>5

\* A copy that mirrors its original in every value equals it.
LEMMA MirrorsAreEqual ==
    ASSUME Counted, NEW A, NEW s, Made(heap, A, s), NEW g, Mirrors(heap, A, g, {}), NEW n \in A
    PROVE  Equal(g[n], n)
  <1>1. PICK F, K : K \in Nat /\ Solves(F, K) /\ Equal(g[n], n) = (<<g[n], n>> \in F[K])
    BY EqualIs
  <1>2. F = [d \in 0 .. K |-> AlikeIf(d, F[d - 1])]
    BY <1>1 DEF Solves
  <1>3. PICK X : X = {k \in 0 .. K : <<true, true>> \in F[k] /\ \A m \in A : <<g[m], m>> \in F[k]}
    OBVIOUS
  <1>4. ASSUME NEW d \in Nat, NEW D,
               d > 0 => <<true, true>> \in D /\ \A m \in A : <<g[m], m>> \in D
        PROVE  <<true, true>> \in AlikeIf(d, D) /\ \A m \in A : <<g[m], m>> \in AlikeIf(d, D)
    <2>1. <<true, true>> \in AlikeIf(d, D)
      BY DEF AlikeIf, Value
    <2>2. ASSUME NEW m \in A PROVE <<g[m], m>> \in AlikeIf(d, D)
      <3>1. /\ m \in Node /\ g[m] \in Node /\ m # true /\ g[m] # true
            /\ m \in Value /\ g[m] \in Value
            /\ KindOf(m) = heap[m].kind /\ KindOf(g[m]) = heap[g[m]].kind
        BY NodeIsNotTrue, KindOfNode DEF Made, Mirrors
      <3>2. /\ heap[m].kind = heap[g[m]].kind /\ heap[m].text = heap[g[m]].text
            /\ DOMAIN heap[m].content = DOMAIN heap[g[m]].content
            /\ \A i \in DOMAIN heap[m].content :
                  heap[g[m]].content[i] =
                      IF heap[m].content[i] = true THEN true ELSE g[heap[m].content[i]]
        BY DEF Mirrors
      <3>3. ASSUME d > 0, NEW i \in DOMAIN heap[m].content
            PROVE  <<heap[g[m]].content[i], heap[m].content[i]>> \in D
        <4>1. heap[m].content[i] \in A \cup {true}
          BY DEF Made
        <4>2. PICK y, z : y = heap[m].content[i] /\ z = heap[g[m]].content[i]
          OBVIOUS
        <4>3. z = IF y = true THEN true ELSE g[y]
          BY <3>2, <4>2
        <4>4. y \in A \cup {true}
          BY <4>1, <4>2
        <4>5. <<z, y>> \in D
          BY <1>4, <3>3, <4>3, <4>4
        <4>6. QED BY <4>2, <4>5
      <3>4. PICK p : p = <<g[m], m>>
        OBVIOUS
      <3>5. p \in Value \X Value /\ p[1] = g[m] /\ p[2] = m
        BY <3>1, <3>4
      <3>6. /\ true \notin {p[1], p[2]} /\ KindOf(p[1]) = KindOf(p[2])
            /\ heap[p[1]].text = heap[p[2]].text
            /\ DOMAIN Content(p[1]) = DOMAIN Content(p[2])
        BY <3>1, <3>2, <3>5 DEF Content
      <3>7. d > 0 => \A i \in DOMAIN Content(p[1]) :
                        <<Content(p[1])[i], Content(p[2])[i]>> \in D
        BY <3>2, <3>3, <3>5 DEF Content
      <3>8. p \in AlikeIf(d, D)
        BY <3>5, <3>6, <3>7 DEF AlikeIf
      <3>9. QED BY <3>4, <3>8
    <2>3. QED BY <2>1, <2>2
  <1>5. 0 \in X
    <2>1. PICK d \in Nat : d = 0
      OBVIOUS
    <2>2. ~(d > 0) /\ d \in 0 .. K
      BY <1>1, <2>1
    <2>3. F[d] = AlikeIf(d, F[d - 1])
      BY <1>2, <2>2
    <2>4. QED BY <1>3, <1>4, <2>1, <2>2, <2>3
  <1>6. ASSUME NEW k \in X \cap (0 .. K), k < K PROVE k + 1 \in X
    <2>1. PICK d \in Nat : d = k + 1 /\ d \in 0 .. K /\ d - 1 = k
      <3>1. k + 1 \in Nat /\ k + 1 \in 0 .. K /\ (k + 1) - 1 = k
        BY <1>1, <1>6
      <3>2. QED BY <3>1
    <2>2. F[d] = AlikeIf(d, F[k])
      BY <1>2, <2>1
    <2>3. <<true, true>> \in F[k] /\ \A m \in A : <<g[m], m>> \in F[k]
      BY <1>3
    <2>4. QED BY <1>3, <1>4, <2>1, <2>2, <2>3
  <1>7. K \in X
    <2>1. 0 .. K \subseteq X
      BY <1>1, <1>5, <1>6, UpTo
    <2>2. QED BY <1>1, <2>1
  <1>8. QED BY <1>1, <1>3, <1>7

\* What the invariant says of a copy that has just returned.
LEMMA CopiesKeepPromise == ASSUME IInv, CopyInv PROVE DeepCopiesAreEqualAndApart
  <1>1. SUFFICES ASSUME copied # None PROVE DeepCopiesAreEqualAndApart
    BY DEF DeepCopiesAreEqualAndApart
  <1>2. Counted /\ heap \in Heaps
    BY DEF IInv, Counted, Counts
  <1>3. PICK f, t : f = copied.from /\ t = copied.to
    OBVIOUS
  <1>4. PICK A \in SUBSET Node :
           /\ Made(heap, A, f) /\ t \in A
           /\ whole => \E g \in [A -> Node] : Mirrors(heap, A, g, {}) /\ g[t] = f
    BY <1>1, <1>3 DEF CopyInv
  <1>5. f \in Node \ A /\ t \in Node
    BY <1>4 DEF Made
  <1>6. whole => Equal(f, t)
    BY <1>2, <1>4, MirrorsAreEqual
  <1>7. Reachable({f}) \subseteq Value \ A
    <2>1. PICK C : C = Value \ A
      OBVIOUS
    <2>2. ASSUME NEW n \in C \ {true} PROVE Members(n) \subseteq C
      <3>1. n \in Node \ A
        BY <2>1 DEF Value
      <3>2. \A i \in DOMAIN heap[n].content :
               heap[n].content[i] \in Value /\ heap[n].content[i] \notin A
        BY <1>2, <1>4, <3>1, HeapCountable DEF Made
      <3>3. QED BY <2>1, <3>2 DEF Members, Content
    <2>3. Closed(C) /\ {f} \subseteq C /\ C \in SUBSET Value /\ {f} \in SUBSET Value
      BY <1>5, <2>1, <2>2 DEF Closed, Value
    <2>4. QED BY <1>2, <2>1, <2>3, ReachableIsLeast
  <1>8. Reachable({t}) \subseteq A \cup {true}
    <2>1. PICK C : C = A \cup {true}
      OBVIOUS
    <2>2. ASSUME NEW n \in C \ {true} PROVE Members(n) \subseteq C
      BY <1>4, <2>1 DEF Made, Members, Content
    <2>3. Closed(C) /\ {t} \subseteq C /\ C \in SUBSET Value /\ {t} \in SUBSET Value
      BY <1>4, <1>5, <2>1, <2>2 DEF Closed, Value
    <2>4. QED BY <1>2, <2>1, <2>3, ReachableIsLeast
  <1>9. \A n \in Reachable({t}) \ {true} : heap[n].refcount = 1
    BY <1>4, <1>8 DEF Made
  <1>10. Reachable({f}) \cap Reachable({t}) \subseteq {true}
    BY <1>7, <1>8
  <1>11. QED BY <1>3, <1>6, <1>9, <1>10 DEF DeepCopiesAreEqualAndApart

\* A deep copy that found memory for every member equals its original, and in any
\* case the two share no value that is counted.
THEOREM DeepCopiesKeepApart == Spec => []DeepCopiesAreEqualAndApart
  <1>1. Init => CopyInv
    BY DEF Init, CopyInv
  <1>2. IInv /\ CopyInv /\ [Next]_vars => CopyInv'
    BY NextKeepsCopies
  <1>3. IInv /\ CopyInv => DeepCopiesAreEqualAndApart
    BY CopiesKeepPromise
  <1>4. QED BY <1>1, <1>2, <1>3, IInvHolds, PTL DEF Spec
=============================================================================
