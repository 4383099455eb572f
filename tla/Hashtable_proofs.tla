-------------------------- MODULE Hashtable_proofs --------------------------
(***************************************************************************)
(* The hash table is proved to keep its buckets and its list in agreement, *)
(* to give a caller who iterates every pair once, and to implement KeyMap, *)
(* for any keys, values, hash and first number of buckets.                 *)
(*                                                                         *)
(* The argument is about places in the list.  The pairs of a bucket stand  *)
(* next to each other, from the bucket's first pair to its last (Span); a  *)
(* pair is put where no bucket is torn apart, and taken out at one place;  *)
(* both move the places behind it by one and keep the order of the rest,   *)
(* so the pairs an iteration has given stay before those it has not.       *)
(***************************************************************************)
EXTENDS Hashtable, FiniteSetTheorems, SequenceTheorems, TLAPS

-----------------------------------------------------------------------------
(* Numbers of buckets.                                                      *)

\* hashsize is positive: it counts the subsets of a set with n elements.
LEMMA SizeIsPositive == \A n \in Nat : HashSize(n) \in Nat \ {0}
  <1> SUFFICES ASSUME NEW n \in Nat PROVE HashSize(n) \in Nat \ {0}
    OBVIOUS
  <1>1. IsFiniteSet(1 .. n) /\ Cardinality(1 .. n) = n
    BY FS_Interval
  <1>2. IsFiniteSet(SUBSET (1 .. n)) /\ Cardinality(SUBSET (1 .. n)) = 2 ^ n
    BY <1>1, FS_SUBSET
  <1>3. Cardinality(SUBSET (1 .. n)) \in Nat
    BY <1>2, FS_CardinalityType
  <1>4. Cardinality(SUBSET (1 .. n)) # 0
    BY <1>2, FS_EmptySet
  <1>5. QED BY <1>2, <1>3, <1>4 DEF HashSize

\* The index of a key is that of a bucket.
LEMMA IndexIsABucket ==
    ASSUME NEW n \in Nat, NEW k \in Key
    PROVE  Hash[k] % HashSize(n) \in 0 .. HashSize(n) - 1
  <1>1. PICK m \in Nat \ {0} : m = HashSize(n)
    BY SizeIsPositive
  <1>2. PICK h \in Nat : h = Hash[k]
    BY HashtableAssumption
  <1>3. h % m \in 0 .. m - 1
    OBVIOUS
  <1>4. QED BY <1>1, <1>2, <1>3

-----------------------------------------------------------------------------
(* Keys put into a sequence and taken out of it.                            *)

Injective(s) == \A i, j \in 1 .. Len(s) : s[i] = s[j] => i = j

\* u is s with k put at place p; s is u with the key at place p taken out.
Inserts(s, u, p, k) ==
    /\ u \in Seq(Key) /\ Len(u) = Len(s) + 1
    /\ p \in 1 .. Len(u) /\ u[p] = k
    /\ \A j \in 1 .. Len(s) : IF j < p THEN u[j] = s[j] ELSE u[j + 1] = s[j]
    /\ \A j \in 1 .. Len(u) : /\ j < p => u[j] = s[j]
                              /\ j > p => u[j] = s[j - 1]

\* A key appended to a list is put at its end.
LEMMA AppendInserts ==
    ASSUME NEW s \in Seq(Key), NEW k \in Key
    PROVE  Inserts(s, Append(s, k), Len(s) + 1, k)
  BY DEF Inserts

\* What it means to be s, of length n, with k put at place p.
Moved(s, u, p, k, n) ==
    /\ n = Len(s) /\ Len(u) = n + 1 /\ p \in 1 .. n + 1 /\ u[p] = k
    /\ \A j \in 1 .. n : /\ j < p => u[j] = s[j]
                         /\ j >= p => u[j + 1] = s[j]
    /\ \A j \in 1 .. n + 1 : /\ j < p => u[j] = s[j]
                             /\ j > p => u[j] = s[j - 1]

\* It is a matter of numbers.
LEMMA InsertFacts ==
    ASSUME NEW s \in Seq(Key), NEW u, NEW p, NEW k, Inserts(s, u, p, k)
    PROVE  \E n \in Nat : Moved(s, u, p, k, n)
  <1>1. PICK n \in Nat : n = Len(s)
    OBVIOUS
  <1>2. Moved(s, u, p, k, n)
    BY <1>1 DEF Inserts, Moved
  <1>3. QED BY <1>2

\* The elements of a sequence, by their places.
LEMMA Elements ==
    ASSUME NEW s \in Seq(Key)
    PROVE  /\ ToSet(s) = {s[j] : j \in 1 .. Len(s)}
           /\ \A j \in 1 .. Len(s) : s[j] \in Key /\ s[j] \in ToSet(s)
           /\ \A x \in ToSet(s) : x \in Key /\ \E j \in 1 .. Len(s) : s[j] = x
  <1>1. DOMAIN s = 1 .. Len(s)
    OBVIOUS
  <1>2. \A j \in 1 .. Len(s) : s[j] \in Key
    BY ElementOfSeq
  <1>3. QED BY <1>1, <1>2 DEF ToSet

\* A part of a sequence.
LEMMA Part ==
    ASSUME NEW s \in Seq(Key), NEW m \in Nat \ {0}, NEW n \in Nat, n <= Len(s), m <= n + 1
    PROVE  /\ SubSeq(s, m, n) \in Seq(Key) /\ Len(SubSeq(s, m, n)) = n - m + 1
           /\ \A j \in 1 .. n - m + 1 : SubSeq(s, m, n)[j] = s[m + j - 1]
  <1>1. \A i \in m .. n : s[i] \in Key
    <2>1. \A i \in m .. n : i \in 1 .. Len(s)
      OBVIOUS
    <2>2. QED BY <2>1, ElementOfSeq
  <1>2. /\ SubSeq(s, m, n) \in Seq(Key)
        /\ Len(SubSeq(s, m, n)) = IF m <= n THEN n - m + 1 ELSE 0
        /\ \A j \in 1 .. n - m + 1 : SubSeq(s, m, n)[j] = s[m + j - 1]
    BY <1>1, SubSeqProperties
  <1>3. (IF m <= n THEN n - m + 1 ELSE 0) = n - m + 1
    OBVIOUS
  <1>4. QED BY <1>2, <1>3

\* Two sequences joined.
LEMMA Joined ==
    ASSUME NEW a \in Seq(Key), NEW b \in Seq(Key)
    PROVE  /\ a \o b \in Seq(Key) /\ Len(a \o b) = Len(a) + Len(b)
           /\ \A j \in 1 .. Len(a) : (a \o b)[j] = a[j]
           /\ \A j \in 1 .. Len(b) : (a \o b)[Len(a) + j] = b[j]
  <1> DEFINE m == Len(a)
             n == Len(b)
  <1>0. m \in Nat /\ n \in Nat
    OBVIOUS
  <1>1. PICK u \in Seq(Key) : u = a \o b
    BY ConcatProperties
  <1>2. /\ Len(u) = m + n
        /\ \A j \in 1 .. m + n : u[j] = IF j <= m THEN a[j] ELSE b[j - m]
    BY <1>1, ConcatProperties
  <1> HIDE DEF m, n
  <1>3. \A j \in 1 .. m : u[j] = a[j]
    BY <1>0, <1>2
  <1>4. ASSUME NEW j \in 1 .. n PROVE u[m + j] = b[j]
    <2>1. m + j \in 1 .. m + n /\ ~(m + j <= m) /\ (m + j) - m = j
      BY <1>0
    <2>2. u[m + j] = b[(m + j) - m]
      BY <1>2, <2>1
    <2>3. QED BY <2>1, <2>2
  <1>5. QED BY <1>1, <1>2, <1>3, <1>4 DEF m, n

\* InsertAt puts the key at the place it names.
LEMMA InsertAtInserts ==
    ASSUME NEW s \in Seq(Key), NEW k \in Key, NEW p \in 1 .. Len(s)
    PROVE  Inserts(s, InsertAt(s, p, k), p, k)
  <1>1. PICK n \in Nat : n = Len(s) /\ p \in 1 .. n
    OBVIOUS
  <1>2. PICK a \in Seq(Key) : /\ a = SubSeq(s, 1, p - 1) /\ Len(a) = p - 1
                              /\ \A j \in 1 .. p - 1 : a[j] = s[j]
    <2>1. 1 \in Nat \ {0} /\ p - 1 \in Nat /\ p - 1 <= Len(s) /\ 1 <= p - 1 + 1
      BY <1>1
    <2>2. /\ SubSeq(s, 1, p - 1) \in Seq(Key) /\ Len(SubSeq(s, 1, p - 1)) = p - 1 - 1 + 1
          /\ \A j \in 1 .. p - 1 - 1 + 1 : SubSeq(s, 1, p - 1)[j] = s[1 + j - 1]
      BY <2>1, Part
    <2>3. p - 1 - 1 + 1 = p - 1 /\ \A j \in 1 .. p - 1 : 1 + j - 1 = j
      OBVIOUS
    <2>4. QED BY <2>2, <2>3
  <1>3. PICK c \in Seq(Key) : /\ c = SubSeq(s, p, Len(s)) /\ Len(c) = n - p + 1
                              /\ \A j \in 1 .. n - p + 1 : c[j] = s[p + j - 1]
    <2>1. p \in Nat \ {0} /\ n <= Len(s) /\ p <= n + 1
      BY <1>1
    <2>2. QED BY <1>1, <2>1, Part, ZenonT(60)
  <1>4. PICK b \in Seq(Key) : b = <<k>> /\ Len(b) = 1 /\ b[1] = k
    <2>1. <<k>> \in Seq(Key)
      OBVIOUS
    <2>2. Len(<<k>>) = 1 /\ <<k>>[1] = k
      OBVIOUS
    <2>3. QED BY <2>1, <2>2
  <1>5. PICK d \in Seq(Key) : /\ d = a \o b /\ Len(d) = p /\ d[p] = k
                              /\ \A j \in 1 .. p - 1 : d[j] = s[j]
    <2>1. p - 1 \in Nat /\ 1 \in Nat /\ (p - 1) + 1 = p /\ 1 \in 1 .. 1
      BY <1>1
    <2>2. /\ a \o b \in Seq(Key) /\ Len(a \o b) = (p - 1) + 1
          /\ \A j \in 1 .. p - 1 : (a \o b)[j] = a[j]
          /\ \A j \in 1 .. 1 : (a \o b)[(p - 1) + j] = b[j]
      BY <1>2, <1>4, <2>1, Joined
    <2>3. (a \o b)[(p - 1) + 1] = b[1]
      BY <2>1, <2>2
    <2>4. QED BY <1>2, <1>4, <2>1, <2>2, <2>3, ZenonT(60)
  <1>6. PICK u \in Seq(Key) : /\ u = d \o c /\ Len(u) = n + 1
                              /\ \A j \in 1 .. p : u[j] = d[j]
                              /\ \A j \in 1 .. n - p + 1 : u[p + j] = c[j]
    <2>1. p \in Nat /\ n - p + 1 \in Nat /\ p + (n - p + 1) = n + 1
      BY <1>1
    <2>2. PICK q \in Nat : q = n - p + 1 /\ q = Len(c) /\ p = Len(d)
      BY <1>3, <1>5, <2>1
    <2>3. PICK e \in Seq(Key) :
             /\ e = d \o c /\ Len(e) = Len(d) + Len(c)
             /\ \A j \in 1 .. Len(d) : e[j] = d[j]
             /\ \A j \in 1 .. Len(c) : e[Len(d) + j] = c[j]
      BY Joined, ZenonT(60)
    <2>4. /\ Len(e) = p + q
          /\ \A j \in 1 .. p : e[j] = d[j]
          /\ \A j \in 1 .. q : e[p + j] = c[j]
      BY <2>2, <2>3
    <2>5. /\ e \in Seq(Key) /\ e = d \o c /\ Len(e) = n + 1
          /\ \A j \in 1 .. p : e[j] = d[j]
          /\ \A j \in 1 .. n - p + 1 : e[p + j] = c[j]
      BY <2>1, <2>2, <2>3, <2>4
    <2>6. QED BY ONLY <2>5
  <1>7. u[p] = k /\ p \in 1 .. n + 1
    <2>1. p \in 1 .. p /\ p \in 1 .. n + 1
      BY <1>1
    <2>2. QED BY <1>5, <1>6, <2>1
  <1>8. ASSUME NEW j \in 1 .. n + 1, j < p PROVE u[j] = s[j]
    <2>1. j \in 1 .. p - 1 /\ j \in 1 .. p
      BY <1>8
    <2>2. QED BY <1>5, <1>6, <2>1
  <1>9. ASSUME NEW j \in 1 .. n + 1, j > p PROVE u[j] = s[j - 1]
    <2>1. /\ j - p \in 1 .. n - p + 1 /\ p + (j - p) = j
          /\ p + (j - p) - 1 = j - 1
      BY <1>1, <1>9
    <2>2. u[p + (j - p)] = c[j - p] /\ c[j - p] = s[p + (j - p) - 1]
      BY <1>3, <1>6, <2>1
    <2>3. QED BY <2>1, <2>2
  <1>10. \A j \in 1 .. n : IF j < p THEN u[j] = s[j] ELSE u[j + 1] = s[j]
    <2>1. \A j \in 1 .. n + 1 : j < p => u[j] = s[j]
      BY <1>8
    <2>2. \A j \in 1 .. n + 1 : j > p => u[j] = s[j - 1]
      BY <1>9
    <2>3. ASSUME NEW j \in 1 .. n, j >= p PROVE u[j + 1] = s[j]
      <3>1. j + 1 \in 1 .. n + 1 /\ j + 1 > p /\ (j + 1) - 1 = j
        BY <1>1, <2>3
      <3>2. QED BY <2>2, <3>1
    <2>4. ASSUME NEW j \in 1 .. n, j < p PROVE u[j] = s[j]
      BY <1>1, <2>1, <2>4
    <2>5. QED BY <1>1, <2>3, <2>4
  <1>11. Inserts(s, u, p, k)
    BY <1>1, <1>6, <1>7, <1>8, <1>9, <1>10 DEF Inserts
  <1>12. InsertAt(s, p, k) = u
    BY <1>2, <1>3, <1>4, <1>5, <1>6 DEF InsertAt
  <1>13. QED BY <1>11, <1>12

\* RemoveAt takes out the key at the place it names.
LEMMA RemoveAtRemoves ==
    ASSUME NEW s \in Seq(Key), NEW p \in 1 .. Len(s)
    PROVE  RemoveAt(s, p) \in Seq(Key) /\ Inserts(RemoveAt(s, p), s, p, s[p])
  <1>1. PICK n \in Nat : n = Len(s) /\ p \in 1 .. n
    OBVIOUS
  <1>2. PICK a \in Seq(Key) : /\ a = SubSeq(s, 1, p - 1) /\ Len(a) = p - 1
                              /\ \A j \in 1 .. p - 1 : a[j] = s[j]
    <2>1. 1 \in Nat \ {0} /\ p - 1 \in Nat /\ p - 1 <= Len(s) /\ 1 <= p - 1 + 1
      BY <1>1
    <2>2. /\ SubSeq(s, 1, p - 1) \in Seq(Key) /\ Len(SubSeq(s, 1, p - 1)) = p - 1 - 1 + 1
          /\ \A j \in 1 .. p - 1 - 1 + 1 : SubSeq(s, 1, p - 1)[j] = s[1 + j - 1]
      BY <2>1, Part
    <2>3. p - 1 - 1 + 1 = p - 1 /\ \A j \in 1 .. p - 1 : 1 + j - 1 = j
      OBVIOUS
    <2>4. QED BY <2>2, <2>3
  <1>3. PICK c \in Seq(Key) : /\ c = SubSeq(s, p + 1, Len(s)) /\ Len(c) = n - p
                              /\ \A j \in 1 .. n - p : c[j] = s[p + j]
    <2>1. p + 1 \in Nat \ {0} /\ n <= Len(s) /\ p + 1 <= n + 1
      BY <1>1
    <2>2. /\ SubSeq(s, p + 1, n) \in Seq(Key) /\ Len(SubSeq(s, p + 1, n)) = n - (p + 1) + 1
          /\ \A j \in 1 .. n - (p + 1) + 1 : SubSeq(s, p + 1, n)[j] = s[(p + 1) + j - 1]
      BY <1>1, <2>1, Part
    <2>3. n - (p + 1) + 1 = n - p /\ \A j \in 1 .. n - p : (p + 1) + j - 1 = p + j
      BY <1>1
    <2>4. \A j \in 1 .. n - p : SubSeq(s, p + 1, n)[j] = s[p + j]
      BY <2>2, <2>3
    <2>5. QED BY <1>1, <2>2, <2>3, <2>4
  <1>4. PICK u \in Seq(Key) : /\ u = a \o c /\ Len(u) = n - 1
                              /\ \A j \in 1 .. p - 1 : u[j] = a[j]
                              /\ \A j \in 1 .. n - p : u[(p - 1) + j] = c[j]
    <2>1. p - 1 \in Nat /\ n - p \in Nat /\ (p - 1) + (n - p) = n - 1
      BY <1>1
    <2>2. PICK q \in Nat : q = p - 1 /\ q = Len(a)
      BY <1>2, <2>1
    <2>3. PICK r \in Nat : r = n - p /\ r = Len(c)
      BY <1>3, <2>1
    <2>4. PICK e \in Seq(Key) :
             /\ e = a \o c /\ Len(e) = Len(a) + Len(c)
             /\ \A j \in 1 .. Len(a) : e[j] = a[j]
             /\ \A j \in 1 .. Len(c) : e[Len(a) + j] = c[j]
      BY Joined, ZenonT(60)
    <2>5. /\ Len(e) = q + r
          /\ \A j \in 1 .. q : e[j] = a[j]
          /\ \A j \in 1 .. r : e[q + j] = c[j]
      BY <2>2, <2>3, <2>4
    <2>6. /\ e \in Seq(Key) /\ e = a \o c /\ Len(e) = n - 1
          /\ \A j \in 1 .. p - 1 : e[j] = a[j]
          /\ \A j \in 1 .. n - p : e[(p - 1) + j] = c[j]
      BY <2>1, <2>2, <2>3, <2>4, <2>5
    <2>7. QED BY ONLY <2>6
  <1>5. ASSUME NEW j \in 1 .. n, j < p PROVE s[j] = u[j]
    <2>1. j \in 1 .. p - 1
      BY <1>5
    <2>2. QED BY <1>2, <1>4, <2>1
  <1>6. ASSUME NEW j \in 1 .. n, j > p PROVE s[j] = u[j - 1]
    <2>1. j - p \in 1 .. n - p /\ (p - 1) + (j - p) = j - 1 /\ p + (j - p) = j
      BY <1>1, <1>6
    <2>2. u[(p - 1) + (j - p)] = c[j - p] /\ c[j - p] = s[p + (j - p)]
      BY <1>3, <1>4, <2>1
    <2>3. QED BY <2>1, <2>2
  <1>7. \A j \in 1 .. n - 1 : IF j < p THEN s[j] = u[j] ELSE s[j + 1] = u[j]
    <2>1. \A j \in 1 .. n : j < p => s[j] = u[j]
      BY <1>5
    <2>2. \A j \in 1 .. n : j > p => s[j] = u[j - 1]
      BY <1>6
    <2>3. QED BY <1>1, <2>1, <2>2
  <1>8. n = (n - 1) + 1 /\ Len(u) = n - 1
    BY <1>1, <1>4
  <1>9. Inserts(u, s, p, s[p])
    BY <1>1, <1>5, <1>6, <1>7, <1>8 DEF Inserts
  <1>10. RemoveAt(s, p) = u
    BY <1>2, <1>3, <1>4 DEF RemoveAt
  <1>11. QED BY <1>9, <1>10

\* A new key leaves the keys apart, and is one of them.
LEMMA InsertKeepsApart ==
    ASSUME NEW s \in Seq(Key), NEW u, NEW p, NEW k, Inserts(s, u, p, k),
           Injective(s), k \notin ToSet(s)
    PROVE  Injective(u) /\ ToSet(u) = ToSet(s) \cup {k}
  <1>0. PICK n \in Nat : Moved(s, u, p, k, n)
    BY InsertFacts
  <1>1. /\ n = Len(s) /\ Len(u) = n + 1 /\ p \in 1 .. n + 1 /\ u[p] = k
        /\ \A j \in 1 .. n : /\ j < p => u[j] = s[j]
                             /\ j >= p => u[j + 1] = s[j]
        /\ \A j \in 1 .. n + 1 : /\ j < p => u[j] = s[j]
                                 /\ j > p => u[j] = s[j - 1]
    BY <1>0 DEF Moved
  <1>2. \A j \in 1 .. n : s[j] # k
    BY <1>1, Elements
  <1>3. \A i, j \in 1 .. n : s[i] = s[j] => i = j
    BY <1>1 DEF Injective
  <1>4. ASSUME NEW i \in 1 .. n + 1, NEW j \in 1 .. n + 1, u[i] = u[j], i < j PROVE FALSE
    <2>1. CASE j < p
      BY <1>1, <1>3, <1>4, <2>1
    <2>2. CASE i > p
      BY <1>1, <1>3, <1>4, <2>2, SMTT(30)
    <2>3. CASE i < p /\ p < j
      BY <1>1, <1>3, <1>4, <2>3
    <2>4. CASE i = p \/ j = p
      BY <1>1, <1>2, <1>4, <2>4
    <2>5. QED BY <1>1, <1>4, <2>1, <2>2, <2>3, <2>4
  <1>5. Injective(u)
    BY <1>1, <1>4 DEF Injective
  <1>6. u \in Seq(Key)
    BY DEF Inserts
  <1>7. ASSUME NEW x \in ToSet(u) PROVE x \in ToSet(s) \cup {k}
    <2>1. PICK j \in 1 .. n + 1 : u[j] = x
      BY <1>1, <1>6, Elements
    <2>2. CASE j = p
      BY <1>1, <2>1, <2>2
    <2>3. CASE j < p
      <3>1. u[j] = s[j] /\ j \in 1 .. n
        BY <1>1, <2>1, <2>3
      <3>2. QED BY <1>1, <2>1, <3>1, Elements
    <2>4. CASE j > p
      <3>1. u[j] = s[j - 1] /\ j - 1 \in 1 .. n
        BY <1>1, <2>1, <2>4
      <3>2. QED BY <1>1, <2>1, <3>1, Elements
    <2>5. QED BY <1>1, <2>1, <2>2, <2>3, <2>4
  <1>8. ASSUME NEW x \in ToSet(s) PROVE x \in ToSet(u)
    <2>1. PICK j \in 1 .. n : s[j] = x
      BY <1>1, Elements
    <2>2. CASE j < p
      <3>1. u[j] = x /\ j \in 1 .. n + 1
        BY <1>1, <2>1, <2>2
      <3>2. QED BY <1>1, <1>6, <3>1, Elements
    <2>3. CASE j >= p
      <3>1. u[j + 1] = x /\ j + 1 \in 1 .. n + 1
        BY <1>1, <2>1, <2>3
      <3>2. QED BY <1>1, <1>6, <3>1, Elements
    <2>4. QED BY <1>1, <2>1, <2>2, <2>3
  <1>9. k \in ToSet(u)
    BY <1>1, <1>6, Elements
  <1>10. QED BY <1>5, <1>7, <1>8, <1>9

\* A key taken out of keys that are apart is gone, and the others stay apart.
LEMMA RemoveKeepsApart ==
    ASSUME NEW s \in Seq(Key), NEW u \in Seq(Key), NEW p, NEW k, Inserts(u, s, p, k),
           Injective(s)
    PROVE  Injective(u) /\ ToSet(u) = ToSet(s) \ {k}
  <1>0. PICK n \in Nat : Moved(u, s, p, k, n)
    BY InsertFacts
  <1>1. /\ n = Len(u) /\ Len(s) = n + 1 /\ p \in 1 .. n + 1 /\ s[p] = k
        /\ \A j \in 1 .. n : /\ j < p => s[j] = u[j]
                             /\ j >= p => s[j + 1] = u[j]
        /\ \A j \in 1 .. n + 1 : /\ j < p => s[j] = u[j]
                                 /\ j > p => s[j] = u[j - 1]
    BY <1>0 DEF Moved
  <1>2. \A i, j \in 1 .. n + 1 : s[i] = s[j] => i = j
    BY <1>1 DEF Injective
  <1>3. ASSUME NEW i \in 1 .. n, NEW j \in 1 .. n, u[i] = u[j], i < j PROVE FALSE
    <2>1. CASE j < p
      BY <1>1, <1>2, <1>3, <2>1
    <2>2. CASE i >= p
      BY <1>1, <1>2, <1>3, <2>2
    <2>3. CASE i < p /\ p <= j
      BY <1>1, <1>2, <1>3, <2>3
    <2>4. QED BY <1>1, <1>3, <2>1, <2>2, <2>3
  <1>4. Injective(u)
    BY <1>1, <1>3 DEF Injective
  <1>5. ASSUME NEW x \in ToSet(u) PROVE x \in ToSet(s) \ {k}
    <2>1. PICK j \in 1 .. n : u[j] = x
      BY <1>1, Elements
    <2>2. CASE j < p
      <3>1. s[j] = x /\ j \in 1 .. n + 1 /\ j # p
        BY <1>1, <2>1, <2>2
      <3>2. QED BY <1>1, <1>2, <3>1, Elements
    <2>3. CASE j >= p
      <3>1. s[j + 1] = x /\ j + 1 \in 1 .. n + 1 /\ j + 1 # p
        BY <1>1, <2>1, <2>3
      <3>2. QED BY <1>1, <1>2, <3>1, Elements
    <2>4. QED BY <1>1, <2>1, <2>2, <2>3
  <1>6. ASSUME NEW x \in ToSet(s) \ {k} PROVE x \in ToSet(u)
    <2>1. PICK j \in 1 .. n + 1 : s[j] = x
      BY <1>1, Elements
    <2>2. j # p
      BY <1>1, <2>1
    <2>3. CASE j < p
      <3>1. u[j] = x /\ j \in 1 .. n
        BY <1>1, <2>1, <2>3
      <3>2. QED BY <1>1, <3>1, Elements
    <2>4. CASE j > p
      <3>1. u[j - 1] = x /\ j - 1 \in 1 .. n
        BY <1>1, <2>1, <2>4
      <3>2. QED BY <1>1, <3>1, Elements
    <2>5. QED BY <1>1, <2>1, <2>2, <2>3, <2>4
  <1>7. QED BY <1>4, <1>5, <1>6

-----------------------------------------------------------------------------
(* Buckets are spans of the list.                                           *)

\* The keys of s that ix sends to bucket i are those from x, which is f, to y,
\* which is l.
Span(s, f, l, ix, i, x, y) ==
    /\ x \in 1 .. Len(s) /\ y \in 1 .. Len(s) /\ x <= y
    /\ s[x] = f /\ s[y] = l
    /\ \A j \in 1 .. Len(s) : ix[s[j]] = i <=> x <= j /\ j <= y

IsSpan(s, f, l, ix, i) == \E x, y \in 1 .. Len(s) : Span(s, f, l, ix, i, x, y)

NoneIn(s, ix, i) == \A j \in 1 .. Len(s) : ix[s[j]] # i

\* The buckets b say of the keys s which are where.
Bucketed(s, b, ix) ==
    \A i \in DOMAIN b : IF b[i] = NoPair THEN NoneIn(s, ix, i)
                                         ELSE IsSpan(s, b[i].first, b[i].last, ix, i)

Bucket == [first : Key \cup {NoKey}, last : Key \cup {NoKey}]

\* The facts of a span, in numbers.
LEMMA SpanFacts ==
    ASSUME NEW s \in Seq(Key), NEW n \in Nat, n = Len(s),
           NEW f, NEW l, NEW ix, NEW i, NEW x, NEW y
    PROVE  Span(s, f, l, ix, i, x, y) <=>
              /\ x \in 1 .. n /\ y \in 1 .. n /\ x <= y
              /\ s[x] = f /\ s[y] = l
              /\ \A j \in 1 .. n : ix[s[j]] = i <=> x <= j /\ j <= y
  BY DEF Span

\* A span is one.
LEMMA SpanIsSpan ==
    ASSUME NEW s, NEW f, NEW l, NEW ix, NEW i, NEW x, NEW y, Span(s, f, l, ix, i, x, y)
    PROVE  IsSpan(s, f, l, ix, i)
  <1>1. x \in 1 .. Len(s) /\ y \in 1 .. Len(s)
    BY DEF Span
  <1>2. QED BY <1>1 DEF IsSpan

\* A key of another bucket, put outside of a span, leaves it a span.
LEMMA SpanAside ==
    ASSUME NEW s \in Seq(Key), NEW u, NEW p, NEW k, Inserts(s, u, p, k),
           NEW f, NEW l, NEW ix, NEW i, NEW x, NEW y,
           Span(s, f, l, ix, i, x, y), ix[k] # i, p <= x \/ p > y
    PROVE  IsSpan(u, f, l, ix, i)
  <1>0. PICK n \in Nat : Moved(s, u, p, k, n)
    BY InsertFacts
  <1>1. /\ n = Len(s) /\ Len(u) = n + 1 /\ p \in 1 .. n + 1 /\ u[p] = k
        /\ \A j \in 1 .. n : /\ j < p => u[j] = s[j]
                             /\ j >= p => u[j + 1] = s[j]
        /\ \A j \in 1 .. n + 1 : /\ j < p => u[j] = s[j]
                                 /\ j > p => u[j] = s[j - 1]
    BY <1>0 DEF Moved
  <1>2. /\ x \in 1 .. n /\ y \in 1 .. n /\ x <= y
        /\ s[x] = f /\ s[y] = l
        /\ \A j \in 1 .. n : ix[s[j]] = i <=> x <= j /\ j <= y
    BY <1>1, SpanFacts
  <1>3. u \in Seq(Key) /\ n + 1 \in Nat
    BY <1>1 DEF Inserts
  <1>4. CASE p <= x
    <2>1. x + 1 \in 1 .. n + 1 /\ y + 1 \in 1 .. n + 1 /\ x + 1 <= y + 1
      BY <1>2
    <2>2. u[x + 1] = f /\ u[y + 1] = l
      BY <1>1, <1>2, <1>4
    <2>3. ASSUME NEW j \in 1 .. n + 1 PROVE ix[u[j]] = i <=> x + 1 <= j /\ j <= y + 1
      <3>1. CASE j < p
        <4>1. u[j] = s[j] /\ j \in 1 .. n /\ ~(x <= j)
          BY <1>1, <1>2, <1>4, <3>1
        <4>2. ix[s[j]] # i /\ ~(x + 1 <= j)
          BY <1>2, <4>1
        <4>3. QED BY <4>1, <4>2
      <3>2. CASE j = p
        BY <1>1, <1>2, <1>4, <3>2
      <3>3. CASE j > p
        <4>1. u[j] = s[j - 1] /\ j - 1 \in 1 .. n
          BY <1>1, <3>3
        <4>2. ix[s[j - 1]] = i <=> x <= j - 1 /\ j - 1 <= y
          BY <1>2, <4>1
        <4>3. (x <= j - 1 /\ j - 1 <= y) <=> (x + 1 <= j /\ j <= y + 1)
          BY <1>2
        <4>4. QED BY <4>1, <4>2, <4>3
      <3>4. QED BY <1>1, <3>1, <3>2, <3>3
    <2>4. PICK m \in Nat : m = n + 1 /\ m = Len(u)
      BY <1>1, <1>3
    <2>5. PICK a, b : a = x + 1 /\ b = y + 1
      OBVIOUS
    <2>6. /\ a \in 1 .. m /\ b \in 1 .. m /\ a <= b /\ u[a] = f /\ u[b] = l
          /\ \A j \in 1 .. m : ix[u[j]] = i <=> a <= j /\ j <= b
      BY <2>1, <2>2, <2>3, <2>4, <2>5
    <2>7. Span(u, f, l, ix, i, a, b)
      BY <1>3, <2>4, <2>6, SpanFacts
    <2>8. QED BY <2>7, SpanIsSpan
  <1>5. CASE p > y
    <2>1. x \in 1 .. n + 1 /\ y \in 1 .. n + 1 /\ x <= y
      BY <1>2
    <2>2. u[x] = f /\ u[y] = l
      BY <1>1, <1>2, <1>5
    <2>3. ASSUME NEW j \in 1 .. n + 1 PROVE ix[u[j]] = i <=> x <= j /\ j <= y
      <3>1. CASE j < p
        <4>1. u[j] = s[j] /\ j \in 1 .. n
          BY <1>1, <3>1
        <4>2. QED BY <1>2, <4>1
      <3>2. CASE j = p
        BY <1>1, <1>2, <1>5, <3>2
      <3>3. CASE j > p
        <4>1. u[j] = s[j - 1] /\ j - 1 \in 1 .. n
          BY <1>1, <1>2, <1>5, <3>3
        <4>2. j - 1 >= p /\ j - 1 > y /\ j > y
          BY <1>1, <1>2, <1>5, <3>3
        <4>3. ix[s[j - 1]] # i
          BY <1>2, <4>1, <4>2
        <4>4. QED BY <1>2, <4>1, <4>2, <4>3
      <3>4. QED BY <1>1, <3>1, <3>2, <3>3
    <2>4. PICK m \in Nat : m = n + 1 /\ m = Len(u)
      BY <1>1, <1>3
    <2>5. /\ x \in 1 .. m /\ y \in 1 .. m /\ x <= y /\ u[x] = f /\ u[y] = l
          /\ \A j \in 1 .. m : ix[u[j]] = i <=> x <= j /\ j <= y
      BY <2>1, <2>2, <2>3, <2>4
    <2>6. Span(u, f, l, ix, i, x, y)
      BY <1>3, <2>4, <2>5, SpanFacts
    <2>7. QED BY <2>6, SpanIsSpan
  <1>6. QED BY <1>4, <1>5

\* What makes a span, in numbers.
LEMMA SpanMade ==
    ASSUME NEW s \in Seq(Key), NEW n \in Nat, n = Len(s),
           NEW f, NEW l, NEW ix, NEW i, NEW x \in 1 .. n, NEW y \in 1 .. n, x <= y,
           s[x] = f, s[y] = l, \A j \in 1 .. n : ix[s[j]] = i <=> x <= j /\ j <= y
    PROVE  IsSpan(s, f, l, ix, i)
  <1>1. Span(s, f, l, ix, i, x, y)
    BY SpanFacts
  <1>2. QED BY <1>1, SpanIsSpan

\* A key put before the first of its own bucket becomes the first.
LEMMA SpanGrows ==
    ASSUME NEW s \in Seq(Key), NEW u, NEW p, NEW k, Inserts(s, u, p, k),
           NEW f, NEW l, NEW ix, NEW i, NEW y,
           Span(s, f, l, ix, i, p, y), ix[k] = i
    PROVE  IsSpan(u, k, l, ix, i)
  <1>0. PICK n \in Nat : Moved(s, u, p, k, n)
    BY InsertFacts
  <1>1. /\ n = Len(s) /\ Len(u) = n + 1 /\ p \in 1 .. n + 1 /\ u[p] = k
        /\ \A j \in 1 .. n : /\ j < p => u[j] = s[j]
                             /\ j >= p => u[j + 1] = s[j]
        /\ \A j \in 1 .. n + 1 : /\ j < p => u[j] = s[j]
                                 /\ j > p => u[j] = s[j - 1]
    BY <1>0 DEF Moved
  <1>2. /\ p \in 1 .. n /\ y \in 1 .. n /\ p <= y
        /\ s[p] = f /\ s[y] = l
        /\ \A j \in 1 .. n : ix[s[j]] = i <=> p <= j /\ j <= y
    BY <1>1, SpanFacts
  <1>3. PICK m \in Nat : m = n + 1 /\ m = Len(u)
    BY <1>1
  <1>4. PICK z \in 1 .. m : z = y + 1
    BY <1>2, <1>3
  <1>5. u \in Seq(Key) /\ u[z] = l /\ p \in 1 .. m /\ p <= z
    BY <1>1, <1>2, <1>3, <1>4 DEF Inserts
  <1>6. ASSUME NEW j \in 1 .. m PROVE ix[u[j]] = i <=> p <= j /\ j <= z
    <2>1. CASE j < p
      <3>1. u[j] = s[j] /\ j \in 1 .. n
        BY <1>1, <1>3, <2>1
      <3>2. QED BY <1>2, <2>1, <3>1
    <2>2. CASE j = p
      BY <1>1, <1>5, <2>2
    <2>3. CASE j > p
      <3>1. u[j] = s[j - 1] /\ j - 1 \in 1 .. n
        BY <1>1, <1>3, <2>3
      <3>2. ix[s[j - 1]] = i <=> p <= j - 1 /\ j - 1 <= y
        BY <1>2, <3>1
      <3>3. (p <= j - 1 /\ j - 1 <= y) <=> (p <= j /\ j <= z)
        BY <1>2, <1>4, <2>3
      <3>4. QED BY <3>1, <3>2, <3>3
    <2>4. QED BY <1>1, <1>3, <2>1, <2>2, <2>3
  <1>7. QED BY <1>1, <1>3, <1>5, <1>6, SpanMade, SMTT(30)

\* The only key of its bucket is all of it.
LEMMA SpanBegins ==
    ASSUME NEW s \in Seq(Key), NEW u, NEW p, NEW k, Inserts(s, u, p, k),
           NEW ix, NEW i, NoneIn(s, ix, i), ix[k] = i
    PROVE  IsSpan(u, k, k, ix, i)
  <1>0. PICK n \in Nat : Moved(s, u, p, k, n)
    BY InsertFacts
  <1>1. /\ n = Len(s) /\ Len(u) = n + 1 /\ p \in 1 .. n + 1 /\ u[p] = k
        /\ \A j \in 1 .. n : /\ j < p => u[j] = s[j]
                             /\ j >= p => u[j + 1] = s[j]
        /\ \A j \in 1 .. n + 1 : /\ j < p => u[j] = s[j]
                                 /\ j > p => u[j] = s[j - 1]
    BY <1>0 DEF Moved
  <1>2. PICK m \in Nat : m = n + 1 /\ m = Len(u)
    BY <1>1
  <1>3. u \in Seq(Key) /\ p \in 1 .. m /\ p <= p
    BY <1>1, <1>2 DEF Inserts
  <1>4. \A j \in 1 .. n : ix[s[j]] # i
    BY <1>1 DEF NoneIn
  <1>5. ASSUME NEW j \in 1 .. m PROVE ix[u[j]] = i <=> p <= j /\ j <= p
    <2>1. CASE j < p
      <3>1. u[j] = s[j] /\ j \in 1 .. n
        BY <1>1, <1>2, <2>1
      <3>2. ix[u[j]] # i
        BY <1>4, <3>1
      <3>3. ~(p <= j /\ j <= p)
        BY <1>3, <2>1
      <3>4. QED BY <3>2, <3>3
    <2>2. CASE j = p
      BY <1>1, <1>3, <2>2
    <2>3. CASE j > p
      <3>1. u[j] = s[j - 1] /\ j - 1 \in 1 .. n
        BY <1>1, <1>2, <2>3
      <3>2. ix[u[j]] # i
        BY <1>4, <3>1
      <3>3. ~(p <= j /\ j <= p)
        BY <1>3, <2>3
      <3>4. QED BY <3>2, <3>3
    <2>4. QED BY <1>1, <1>2, <2>1, <2>2, <2>3
  <1>6. QED BY <1>1, <1>2, <1>3, <1>5, SpanMade

\* A key of another bucket, taken out, leaves a span.
LEMMA SpanStays ==
    ASSUME NEW s \in Seq(Key), NEW u \in Seq(Key), NEW p, NEW k, Inserts(u, s, p, k),
           NEW f, NEW l, NEW ix, NEW i, NEW x, NEW y,
           Span(s, f, l, ix, i, x, y), ix[k] # i
    PROVE  IsSpan(u, f, l, ix, i)
  <1>0. PICK n \in Nat : Moved(u, s, p, k, n)
    BY InsertFacts
  <1>1. /\ n = Len(u) /\ Len(s) = n + 1 /\ p \in 1 .. n + 1 /\ s[p] = k
        /\ \A j \in 1 .. n : /\ j < p => s[j] = u[j]
                             /\ j >= p => s[j + 1] = u[j]
        /\ \A j \in 1 .. n + 1 : /\ j < p => s[j] = u[j]
                                 /\ j > p => s[j] = u[j - 1]
    BY <1>0 DEF Moved
  <1>2. PICK m \in Nat : m = n + 1 /\ m = Len(s)
    BY <1>1
  <1>3. /\ x \in 1 .. m /\ y \in 1 .. m /\ x <= y
        /\ s[x] = f /\ s[y] = l
        /\ \A j \in 1 .. m : ix[s[j]] = i <=> x <= j /\ j <= y
    BY <1>2, SpanFacts
  <1>4. p < x \/ p > y
    BY <1>1, <1>2, <1>3
  <1>5. CASE p < x
    <2>1. PICK a \in 1 .. n, b \in 1 .. n : a = x - 1 /\ b = y - 1
      BY <1>1, <1>2, <1>3, <1>5
    <2>2. a <= b /\ u[a] = f /\ u[b] = l
      BY <1>1, <1>2, <1>3, <1>5, <2>1
    <2>3. ASSUME NEW j \in 1 .. n PROVE ix[u[j]] = i <=> a <= j /\ j <= b
      <3>1. CASE j < p
        <4>1. s[j] = u[j] /\ j \in 1 .. m /\ ~(x <= j) /\ ~(a <= j)
          BY <1>1, <1>2, <1>3, <1>5, <2>1, <3>1
        <4>2. QED BY <1>3, <4>1
      <3>2. CASE j >= p
        <4>1. s[j + 1] = u[j] /\ j + 1 \in 1 .. m
          BY <1>1, <1>2, <3>2
        <4>2. ix[s[j + 1]] = i <=> x <= j + 1 /\ j + 1 <= y
          BY <1>3, <4>1
        <4>3. (x <= j + 1 /\ j + 1 <= y) <=> (a <= j /\ j <= b)
          BY <1>3, <2>1
        <4>4. QED BY <4>1, <4>2, <4>3
      <3>3. QED BY <1>1, <3>1, <3>2
    <2>4. QED BY <1>1, <2>2, <2>3, SpanMade
  <1>6. CASE p > y
    <2>1. x \in 1 .. n /\ y \in 1 .. n /\ u[x] = f /\ u[y] = l
      BY <1>1, <1>2, <1>3, <1>6
    <2>2. ASSUME NEW j \in 1 .. n PROVE ix[u[j]] = i <=> x <= j /\ j <= y
      <3>1. CASE j < p
        <4>1. s[j] = u[j] /\ j \in 1 .. m
          BY <1>1, <1>2, <3>1
        <4>2. QED BY <1>3, <4>1
      <3>2. CASE j >= p
        <4>1. s[j + 1] = u[j] /\ j + 1 \in 1 .. m /\ ~(j + 1 <= y) /\ ~(j <= y)
          BY <1>1, <1>2, <1>3, <1>6, <3>2
        <4>2. QED BY <1>3, <4>1
      <3>3. QED BY <1>1, <3>1, <3>2
    <2>3. QED BY <1>1, <1>3, <2>1, <2>2, SpanMade
  <1>7. QED BY <1>4, <1>5, <1>6

\* A key taken out of its own bucket: the keys from a to b, one fewer, are left.
LEMMA SpanShrinks ==
    ASSUME NEW s \in Seq(Key), NEW u \in Seq(Key), NEW p, NEW k, Inserts(u, s, p, k),
           NEW f, NEW l, NEW ix, NEW i, NEW x, NEW y,
           Span(s, f, l, ix, i, x, y), x <= p, p <= y, ix[k] = i
    PROVE  /\ x = y => NoneIn(u, ix, i)
           /\ x = p /\ x < y => p + 1 \in 1 .. Len(s) /\ IsSpan(u, s[p + 1], l, ix, i)
           /\ x < p /\ p = y => p - 1 \in 1 .. Len(s) /\ IsSpan(u, f, s[p - 1], ix, i)
           /\ x < p /\ p < y => IsSpan(u, f, l, ix, i)
  <1>0. PICK n \in Nat : Moved(u, s, p, k, n)
    BY InsertFacts
  <1>1. /\ n = Len(u) /\ Len(s) = n + 1 /\ p \in 1 .. n + 1 /\ s[p] = k
        /\ \A j \in 1 .. n : /\ j < p => s[j] = u[j]
                             /\ j >= p => s[j + 1] = u[j]
        /\ \A j \in 1 .. n + 1 : /\ j < p => s[j] = u[j]
                                 /\ j > p => s[j] = u[j - 1]
    BY <1>0 DEF Moved
  <1>2. PICK m \in Nat : m = n + 1 /\ m = Len(s)
    BY <1>1
  <1>3. /\ x \in 1 .. m /\ y \in 1 .. m /\ x <= y
        /\ s[x] = f /\ s[y] = l
        /\ \A j \in 1 .. m : ix[s[j]] = i <=> x <= j /\ j <= y
    BY <1>2, SpanFacts
  <1>4. \A j \in 1 .. n : ix[u[j]] = i <=> x <= j /\ j <= y - 1
    <2> TAKE j \in 1 .. n
    <2>1. CASE j < p
      <3>1. s[j] = u[j] /\ j \in 1 .. m /\ (j <= y - 1 <=> j <= y)
        BY <1>1, <1>2, <1>3, <2>1
      <3>2. QED BY <1>3, <3>1
    <2>2. CASE j >= p
      <3>1. s[j + 1] = u[j] /\ j + 1 \in 1 .. m
        BY <1>1, <1>2, <2>2
      <3>2. ix[s[j + 1]] = i <=> x <= j + 1 /\ j + 1 <= y
        BY <1>3, <3>1
      <3>3. (x <= j + 1 /\ j + 1 <= y) <=> (x <= j /\ j <= y - 1)
        BY <1>1, <1>3, <2>2
      <3>4. QED BY <3>1, <3>2, <3>3
    <2>3. QED BY <1>1, <2>1, <2>2
  <1>5. ASSUME x = y PROVE NoneIn(u, ix, i)
    <2>1. \A j \in 1 .. n : ix[u[j]] # i
      BY <1>3, <1>4, <1>5
    <2>2. QED BY <1>1, <2>1 DEF NoneIn
  <1>6. ASSUME x < y PROVE x \in 1 .. n /\ y - 1 \in 1 .. n /\ x <= y - 1
    BY <1>1, <1>2, <1>3, <1>6
  <1>7. ASSUME x < y, NEW g, NEW h, u[x] = g, u[y - 1] = h PROVE IsSpan(u, g, h, ix, i)
    <2>1. PICK b \in 1 .. n : b = y - 1
      BY <1>6, <1>7
    <2>2. /\ x \in 1 .. n /\ x <= b /\ u[b] = h
          /\ \A j \in 1 .. n : ix[u[j]] = i <=> x <= j /\ j <= b
      BY <1>4, <1>6, <1>7, <2>1
    <2>3. n = Len(u) /\ u[x] = g
      BY <1>1, <1>7
    <2>4. QED BY <2>2, <2>3, SpanMade
  <1>8. ASSUME x < p PROVE u[x] = f
    BY <1>1, <1>2, <1>3, <1>8
  <1>9. ASSUME p < y PROVE u[y - 1] = l
    BY <1>1, <1>2, <1>3, <1>9
  <1>10. ASSUME x = p, x < y PROVE p + 1 \in 1 .. Len(s) /\ IsSpan(u, s[p + 1], l, ix, i)
    <2>1. p + 1 \in 1 .. m /\ s[p + 1] = u[x]
      BY <1>1, <1>2, <1>3, <1>10
    <2>2. QED BY <1>2, <1>7, <1>9, <1>10, <2>1
  <1>11. ASSUME x < p, p = y PROVE p - 1 \in 1 .. Len(s) /\ IsSpan(u, f, s[p - 1], ix, i)
    <2>1. p - 1 \in 1 .. m /\ s[p - 1] = u[y - 1] /\ x < y
      BY <1>1, <1>2, <1>3, <1>11
    <2>2. QED BY <1>2, <1>7, <1>8, <1>11, <2>1
  <1>12. ASSUME x < p, p < y PROVE IsSpan(u, f, l, ix, i)
    <2>1. x < y
      BY <1>1, <1>3, <1>12
    <2>2. QED BY <1>7, <1>8, <1>9, <1>12, <2>1
  <1>13. QED BY <1>5, <1>10, <1>11, <1>12

\* A bucket without a key stays so when a key of another is put in.
LEMMA NoneInserted ==
    ASSUME NEW s \in Seq(Key), NEW u, NEW p, NEW k, Inserts(s, u, p, k),
           NEW ix, NEW i, NoneIn(s, ix, i), ix[k] # i
    PROVE  NoneIn(u, ix, i)
  <1>0. PICK n \in Nat : Moved(s, u, p, k, n)
    BY InsertFacts
  <1>1. /\ n = Len(s) /\ Len(u) = n + 1 /\ p \in 1 .. n + 1 /\ u[p] = k
        /\ \A j \in 1 .. n : /\ j < p => u[j] = s[j]
                             /\ j >= p => u[j + 1] = s[j]
        /\ \A j \in 1 .. n + 1 : /\ j < p => u[j] = s[j]
                                 /\ j > p => u[j] = s[j - 1]
    BY <1>0 DEF Moved
  <1>2. \A j \in 1 .. n : ix[s[j]] # i
    BY <1>1 DEF NoneIn
  <1>3. ASSUME NEW j \in 1 .. n + 1 PROVE ix[u[j]] # i
    <2>1. CASE j < p
      <3>1. u[j] = s[j] /\ j \in 1 .. n
        BY <1>1, <2>1
      <3>2. QED BY <1>2, <3>1
    <2>2. CASE j = p
      BY <1>1, <2>2
    <2>3. CASE j > p
      <3>1. u[j] = s[j - 1] /\ j - 1 \in 1 .. n
        BY <1>1, <2>3
      <3>2. QED BY <1>2, <3>1
    <2>4. QED BY <1>1, <2>1, <2>2, <2>3
  <1>4. QED BY <1>1, <1>3 DEF NoneIn

\* A bucket without a key stays so when a key is taken out.
LEMMA NoneRemoved ==
    ASSUME NEW s \in Seq(Key), NEW u \in Seq(Key), NEW p, NEW k, Inserts(u, s, p, k),
           NEW ix, NEW i, NoneIn(s, ix, i)
    PROVE  NoneIn(u, ix, i)
  <1>0. PICK n \in Nat : Moved(u, s, p, k, n)
    BY InsertFacts
  <1>1. /\ n = Len(u) /\ Len(s) = n + 1 /\ p \in 1 .. n + 1 /\ s[p] = k
        /\ \A j \in 1 .. n : /\ j < p => s[j] = u[j]
                             /\ j >= p => s[j + 1] = u[j]
        /\ \A j \in 1 .. n + 1 : /\ j < p => s[j] = u[j]
                                 /\ j > p => s[j] = u[j - 1]
    BY <1>0 DEF Moved
  <1>2. \A j \in 1 .. n + 1 : ix[s[j]] # i
    BY <1>1 DEF NoneIn
  <1>3. ASSUME NEW j \in 1 .. n PROVE ix[u[j]] # i
    <2>1. CASE j < p
      <3>1. s[j] = u[j] /\ j \in 1 .. n + 1
        BY <1>1, <2>1
      <3>2. QED BY <1>2, <3>1
    <2>2. CASE j >= p
      <3>1. s[j + 1] = u[j] /\ j + 1 \in 1 .. n + 1
        BY <1>1, <2>2
      <3>2. QED BY <1>2, <3>1
    <2>3. QED BY <1>1, <2>1, <2>2
  <1>4. QED BY <1>1, <1>3 DEF NoneIn

-----------------------------------------------------------------------------
(* The list and the buckets of the table.                                   *)

IndexOf == [k \in Key |-> Index(k)]
Indices == 0 .. HashSize(order) - 1

\* A table that has its buckets.
Sound ==
    /\ list \in Seq(Key) /\ Injective(list)
    /\ order \in Nat
    /\ buckets \in [Indices -> Bucket]
    /\ Bucketed(list, buckets, IndexOf)

\* A place of the list is found by its key.
LEMMA AtPlace ==
    ASSUME list \in Seq(Key), Injective(list), NEW j \in 1 .. Len(list)
    PROVE  At(list[j]) = j
  <1>1. DOMAIN list = 1 .. Len(list)
    OBVIOUS
  <1>2. \E i \in 1 .. Len(list) : list[i] = list[j]
    OBVIOUS
  <1>3. At(list[j]) \in 1 .. Len(list) /\ list[At(list[j])] = list[j]
    BY <1>1, <1>2 DEF At
  <1>4. QED BY <1>3 DEF Injective

\* The index of a key is that of one of the buckets.
LEMMA IndexTyped ==
    ASSUME Sound, NEW k \in Key
    PROVE  Index(k) \in Indices /\ IndexOf[k] = Index(k)
  BY IndexIsABucket DEF Sound, Index, IndexOf, Indices

\* What a bucket is: nothing, or the first and the last of a span.
LEMMA BucketIs ==
    ASSUME Sound, NEW i \in Indices
    PROVE  /\ buckets[i] \in Bucket
           /\ buckets[i] = NoPair => NoneIn(list, IndexOf, i)
           /\ buckets[i] # NoPair =>
                 \E x, y \in 1 .. Len(list) :
                    Span(list, buckets[i].first, buckets[i].last, IndexOf, i, x, y)
  BY DEF Sound, Bucketed, IsSpan

\* A lookup in a bucket compares the keys of the bucket and no others.
LEMMA ChainIs ==
    ASSUME Sound, NEW i \in Indices
    PROVE  Chain(buckets[i]) = {k \in ToSet(list) : Index(k) = i}
  <1>1. list \in Seq(Key) /\ Injective(list)
    BY DEF Sound
  <1>2. \A j \in 1 .. Len(list) : IndexOf[list[j]] = Index(list[j])
    BY <1>1, Elements, IndexTyped
  <1>3. CASE buckets[i] = NoPair
    <2>1. \A j \in 1 .. Len(list) : Index(list[j]) # i
      BY <1>2, <1>3, BucketIs DEF NoneIn
    <2>2. {k \in ToSet(list) : Index(k) = i} = {}
      BY <1>1, <2>1, Elements
    <2>3. QED BY <1>3, <2>2 DEF Chain, BucketIsEmpty
  <1>4. CASE buckets[i] # NoPair
    <2>1. PICK x, y \in 1 .. Len(list) :
             Span(list, buckets[i].first, buckets[i].last, IndexOf, i, x, y)
      BY <1>4, BucketIs
    <2>2. buckets[i].first = list[x] /\ buckets[i].last = list[y]
      BY <2>1 DEF Span
    <2>3. At(buckets[i].first) = x /\ At(buckets[i].last) = y
      BY <1>1, <2>2, AtPlace
    <2>4. Chain(buckets[i]) = {list[j] : j \in x .. y}
      BY <1>4, <2>3 DEF Chain, BucketIsEmpty
    <2>5. \A j \in 1 .. Len(list) : Index(list[j]) = i <=> x <= j /\ j <= y
      BY <1>2, <2>1 DEF Span
    <2>6. ASSUME NEW k \in Chain(buckets[i]) PROVE k \in ToSet(list) /\ Index(k) = i
      <3>1. PICK j \in x .. y : k = list[j]
        BY <2>4
      <3>2. j \in 1 .. Len(list) /\ x <= j /\ j <= y
        BY <1>1, <2>1
      <3>3. QED BY <1>1, <2>5, <3>1, <3>2, Elements
    <2>7. ASSUME NEW k \in ToSet(list), Index(k) = i PROVE k \in Chain(buckets[i])
      <3>1. PICK j \in 1 .. Len(list) : k = list[j]
        BY <1>1, Elements
      <3>2. j \in x .. y
        BY <1>1, <2>5, <2>7, <3>1
      <3>3. QED BY <2>4, <3>1, <3>2
    <2>8. QED BY <2>6, <2>7
  <1>5. QED BY <1>3, <1>4

\* A lookup finds what is in the list.
LEMMA Finds ==
    ASSUME Sound, NEW k \in Key
    PROVE  FindPair(k) <=> k \in ToSet(list)
  <1>1. Chain(buckets[Index(k)]) = {j \in ToSet(list) : Index(j) = Index(k)}
    BY ChainIs, IndexTyped
  <1>2. QED BY <1>1 DEF FindPair

\* A table that has buckets is told from one that has lost them.
LEMMA HasBuckets ==
    ASSUME NEW n \in Nat, NEW f \in [0 .. HashSize(n) - 1 -> Bucket]
    PROVE  f # <<>>
  <1>1. PICK m \in Nat \ {0} : m = HashSize(n)
    BY SizeIsPositive
  <1>2. 0 \in DOMAIN f
    BY <1>1
  <1>3. DOMAIN <<>> = {}
    OBVIOUS
  <1>4. QED BY <1>2, <1>3

\* A new key goes to its own bucket and tears no other apart.
LEMMA InsertSound ==
    ASSUME Sound, NEW k \in Key, k \notin ToSet(list), InsertToBucket(k), order' = order
    PROVE  /\ Sound' /\ ToSet(list') = ToSet(list) \cup {k}
           /\ \E p : Inserts(list, list', p, k)
  <1> DEFINE b == buckets[Index(k)]
             ix == IndexOf
  <1>1. list \in Seq(Key) /\ Injective(list) /\ order \in Nat /\ buckets \in [Indices -> Bucket]
    BY DEF Sound
  <1>2. Index(k) \in Indices /\ ix[k] = Index(k)
    BY IndexTyped
  <1>3. IndexOf' = ix /\ Indices' = Indices
    BY DEF IndexOf, Index, Indices
  <1>4. NoKey \notin Key
    BY HashtableAssumption
  <1>5. CASE b = NoPair
    <2>1. list' = Append(list, k)
      BY <1>5 DEF InsertToBucket, BucketIsEmpty
    <2>2. buckets' = [buckets EXCEPT ![Index(k)] = [first |-> k, last |-> k]]
      BY <1>5 DEF InsertToBucket, BucketIsEmpty
    <2>3. PICK p : p = Len(list) + 1 /\ Inserts(list, list', p, k)
      BY <1>1, <2>1, AppendInserts
    <2>4. PICK u \in Seq(Key) : u = list' /\ Inserts(list, u, p, k)
      BY <2>3 DEF Inserts
    <2>5. NoneIn(list, ix, Index(k))
      BY <1>2, <1>5, BucketIs
    <2>6. IsSpan(u, k, k, ix, Index(k))
      BY <1>1, <1>2, <2>4, <2>5, SpanBegins
    <2>7. buckets'[Index(k)] = [first |-> k, last |-> k] /\ buckets' \in [Indices -> Bucket]
      BY <1>1, <1>2, <2>2 DEF Bucket
    <2>8. buckets'[Index(k)] # NoPair
      BY <1>4, <2>7 DEF NoPair
    <2>9. ASSUME NEW i \in Indices, i # Index(k)
          PROVE  IF buckets'[i] = NoPair THEN NoneIn(u, ix, i)
                 ELSE IsSpan(u, buckets'[i].first, buckets'[i].last, ix, i)
      <3>1. buckets'[i] = buckets[i]
        BY <1>1, <2>2, <2>9
      <3>2. CASE buckets[i] = NoPair
        <4>1. NoneIn(u, ix, i)
          BY <1>1, <1>2, <2>4, <2>9, <3>2, BucketIs, NoneInserted
        <4>2. QED BY <3>1, <3>2, <4>1
      <3>3. CASE buckets[i] # NoPair
        <4>1. PICK x, y \in 1 .. Len(list) :
                 Span(list, buckets[i].first, buckets[i].last, ix, i, x, y)
          BY <3>3, BucketIs
        <4>2. p > y
          BY <1>1, <2>3
        <4>3. IsSpan(u, buckets[i].first, buckets[i].last, ix, i)
          BY <1>1, <1>2, <2>4, <2>9, <4>1, <4>2, SpanAside
        <4>4. QED BY <3>1, <3>3, <4>3
      <3>4. QED BY <3>2, <3>3
    <2>10. Bucketed(u, buckets', ix)
      BY <2>6, <2>7, <2>8, <2>9 DEF Bucketed
    <2>11. Injective(u) /\ ToSet(u) = ToSet(list) \cup {k}
      BY <1>1, <2>4, InsertKeepsApart
    <2>12. Sound'
      BY <1>1, <1>3, <2>4, <2>7, <2>10, <2>11 DEF Sound
    <2>13. QED BY <2>3, <2>4, <2>11, <2>12
  <1>6. CASE b # NoPair
    <2>1. list' = InsertAt(list, At(b.first), k)
      BY <1>6 DEF InsertToBucket, BucketIsEmpty
    <2>2. buckets' = [buckets EXCEPT ![Index(k)].first = k]
      BY <1>6 DEF InsertToBucket, BucketIsEmpty
    <2>3. PICK p, q \in 1 .. Len(list) : Span(list, b.first, b.last, ix, Index(k), p, q)
      BY <1>2, <1>6, BucketIs
    <2>4. list[p] = b.first
      BY <2>3 DEF Span
    <2>5. list' = InsertAt(list, p, k)
      BY <1>1, <2>1, <2>4, AtPlace
    <2>6. Inserts(list, list', p, k)
      BY <1>1, <2>5, InsertAtInserts
    <2>7. PICK u \in Seq(Key) : u = list' /\ Inserts(list, u, p, k)
      BY <2>6 DEF Inserts
    <2>8. IsSpan(u, k, b.last, ix, Index(k))
      BY <1>1, <1>2, <2>3, <2>7, SpanGrows
    <2>9. b \in Bucket
      BY <1>2, BucketIs
    <2>10. /\ buckets'[Index(k)] = [b EXCEPT !.first = k]
           /\ \A i \in Indices : i # Index(k) => buckets'[i] = buckets[i]
           /\ buckets' \in [Indices -> Bucket]
      <3>1. [b EXCEPT !.first = k] \in Bucket
        BY <2>9 DEF Bucket
      <3>2. PICK c \in Bucket : c = [b EXCEPT !.first = k]
        BY <3>1
      <3>3. buckets' = [buckets EXCEPT ![Index(k)] = c]
        BY <2>2, <3>2
      <3>4. QED BY <1>1, <1>2, <3>2, <3>3
    <2>11. buckets'[Index(k)].first = k /\ buckets'[Index(k)].last = b.last
      BY <2>9, <2>10 DEF Bucket
    <2>12. buckets'[Index(k)] # NoPair
      BY <1>4, <2>11 DEF NoPair
    <2>13. ASSUME NEW i \in Indices, i # Index(k)
           PROVE  IF buckets'[i] = NoPair THEN NoneIn(u, ix, i)
                  ELSE IsSpan(u, buckets'[i].first, buckets'[i].last, ix, i)
      <3>1. buckets'[i] = buckets[i]
        BY <2>10, <2>13
      <3>2. CASE buckets[i] = NoPair
        <4>1. NoneIn(u, ix, i)
          BY <1>1, <1>2, <2>7, <2>13, <3>2, BucketIs, NoneInserted
        <4>2. QED BY <3>1, <3>2, <4>1
      <3>3. CASE buckets[i] # NoPair
        <4>1. PICK x, y \in 1 .. Len(list) :
                 Span(list, buckets[i].first, buckets[i].last, ix, i, x, y)
          BY <3>3, BucketIs
        <4>2. ix[list[p]] = Index(k)
          BY <2>3 DEF Span
        <4>3. ~(x <= p /\ p <= y)
          BY <2>13, <4>1, <4>2 DEF Span
        <4>4. p <= x \/ p > y
          BY <1>1, <2>3, <4>1, <4>3
        <4>5. IsSpan(u, buckets[i].first, buckets[i].last, ix, i)
          BY <1>1, <1>2, <2>7, <2>13, <4>1, <4>4, SpanAside
        <4>6. QED BY <3>1, <3>3, <4>5
      <3>4. QED BY <3>2, <3>3
    <2>14. Bucketed(u, buckets', ix)
      BY <2>8, <2>10, <2>11, <2>12, <2>13 DEF Bucketed
    <2>15. Injective(u) /\ ToSet(u) = ToSet(list) \cup {k}
      BY <1>1, <2>7, InsertKeepsApart
    <2>16. Sound'
      BY <1>1, <1>3, <2>7, <2>10, <2>14, <2>15 DEF Sound
    <2>17. QED BY <2>7, <2>15, <2>16
  <1>7. QED BY <1>5, <1>6

\* A deleted key leaves its bucket with its other keys, or empty.
LEMMA DeleteSound ==
    ASSUME Sound, NEW k \in Key, k \in ToSet(list), order' = order,
           buckets' = [buckets EXCEPT ![Index(k)] = BucketWithout(k)],
           list' = RemoveAt(list, At(k))
    PROVE  /\ Sound' /\ ToSet(list') = ToSet(list) \ {k} /\ Len(list') = Len(list) - 1
           /\ \E p : Inserts(list', list, p, k)
  <1> DEFINE b == buckets[Index(k)]
             ix == IndexOf
  <1>1. list \in Seq(Key) /\ Injective(list) /\ order \in Nat /\ buckets \in [Indices -> Bucket]
    BY DEF Sound
  <1>2. Index(k) \in Indices /\ ix[k] = Index(k)
    BY IndexTyped
  <1>3. IndexOf' = ix /\ Indices' = Indices
    BY DEF IndexOf, Index, Indices
  <1>4. NoKey \notin Key
    BY HashtableAssumption
  <1>5. PICK p \in 1 .. Len(list) : list[p] = k
    BY <1>1, Elements
  <1>6. At(k) = p
    BY <1>1, <1>5, AtPlace
  <1>7. PICK u \in Seq(Key) : u = list' /\ Inserts(u, list, p, k)
    BY <1>1, <1>5, <1>6, RemoveAtRemoves
  <1>8. Injective(u) /\ ToSet(u) = ToSet(list) \ {k}
    BY <1>1, <1>7, RemoveKeepsApart
  <1>9. b # NoPair
    <2>1. ~NoneIn(list, ix, Index(k))
      BY <1>2, <1>5 DEF NoneIn
    <2>2. QED BY <1>2, <2>1, BucketIs
  <1>10. PICK x, y \in 1 .. Len(list) : Span(list, b.first, b.last, ix, Index(k), x, y)
    BY <1>2, <1>9, BucketIs
  <1>11. x <= p /\ p <= y /\ x <= y /\ b.first = list[x] /\ b.last = list[y]
    BY <1>2, <1>5, <1>10 DEF Span
  <1>12. /\ x = y => NoneIn(u, ix, Index(k))
         /\ x = p /\ x < y => p + 1 \in 1 .. Len(list) /\ IsSpan(u, list[p + 1], b.last, ix, Index(k))
         /\ x < p /\ p = y => p - 1 \in 1 .. Len(list) /\ IsSpan(u, b.first, list[p - 1], ix, Index(k))
         /\ x < p /\ p < y => IsSpan(u, b.first, b.last, ix, Index(k))
    BY <1>1, <1>2, <1>7, <1>10, <1>11, SpanShrinks
  <1>13. (b.first = k <=> x = p) /\ (b.last = k <=> y = p)
    BY <1>1, <1>5, <1>10, <1>11 DEF Injective
  <1>14. b \in Bucket
    BY <1>2, BucketIs
  <1>15. PICK c \in Bucket : /\ c = BucketWithout(k)
                             /\ IF c = NoPair THEN NoneIn(u, ix, Index(k))
                                ELSE IsSpan(u, c.first, c.last, ix, Index(k))
    <2>1. CASE x = p /\ p = y
      <3>1. BucketWithout(k) = NoPair
        BY <1>13, <2>1 DEF BucketWithout
      <3>2. NoPair \in Bucket
        BY DEF NoPair, Bucket
      <3>3. QED BY <1>12, <2>1, <3>1, <3>2
    <2>2. CASE x = p /\ p # y
      <3>1. BucketWithout(k) = [b EXCEPT !.first = NextOf(k)]
        BY <1>13, <2>2 DEF BucketWithout
      <3>2. x < y /\ p # Len(list)
        BY <1>1, <1>10, <1>11, <2>2
      <3>3. NextOf(k) = list[p + 1] /\ list[p + 1] \in Key
        BY <1>1, <1>6, <1>12, <2>2, <3>2, Elements DEF NextOf
      <3>4. PICK c \in Bucket : /\ c = BucketWithout(k)
                                /\ c.first = list[p + 1] /\ c.last = b.last
        BY <1>14, <3>1, <3>3 DEF Bucket
      <3>5. c # NoPair
        BY <1>4, <3>3, <3>4 DEF NoPair
      <3>6. QED BY <1>12, <2>2, <3>2, <3>4, <3>5
    <2>3. CASE x # p /\ p = y
      <3>1. BucketWithout(k) = [b EXCEPT !.last = PrevOf(k)]
        BY <1>13, <2>3 DEF BucketWithout
      <3>2. x < p /\ p # 1
        BY <1>1, <1>10, <1>11, <2>3
      <3>3. PrevOf(k) = list[p - 1] /\ list[p - 1] \in Key
        BY <1>1, <1>6, <1>12, <2>3, <3>2, Elements DEF PrevOf
      <3>4. PICK c \in Bucket : /\ c = BucketWithout(k)
                                /\ c.first = b.first /\ c.last = list[p - 1]
        BY <1>14, <3>1, <3>3 DEF Bucket
      <3>5. c # NoPair
        BY <1>4, <3>3, <3>4 DEF NoPair
      <3>6. QED BY <1>12, <2>3, <3>2, <3>4, <3>5
    <2>4. CASE x # p /\ p # y
      <3>1. BucketWithout(k) = b
        BY <1>13, <2>4 DEF BucketWithout
      <3>2. x < p /\ p < y
        BY <1>1, <1>10, <1>11, <2>4
      <3>3. QED BY <1>9, <1>12, <1>14, <3>1, <3>2
    <2>5. QED BY <2>1, <2>2, <2>3, <2>4
  <1>16. /\ buckets'[Index(k)] = c /\ buckets' \in [Indices -> Bucket]
         /\ \A i \in Indices : i # Index(k) => buckets'[i] = buckets[i]
    BY <1>1, <1>2, <1>15
  <1>17. ASSUME NEW i \in Indices, i # Index(k)
         PROVE  IF buckets'[i] = NoPair THEN NoneIn(u, ix, i)
                ELSE IsSpan(u, buckets'[i].first, buckets'[i].last, ix, i)
    <2>1. buckets'[i] = buckets[i]
      BY <1>16, <1>17
    <2>2. CASE buckets[i] = NoPair
      <3>1. NoneIn(u, ix, i)
        BY <1>1, <1>7, <2>2, BucketIs, NoneRemoved
      <3>2. QED BY <2>1, <2>2, <3>1
    <2>3. CASE buckets[i] # NoPair
      <3>1. PICK v, w \in 1 .. Len(list) :
               Span(list, buckets[i].first, buckets[i].last, ix, i, v, w)
        BY <2>3, BucketIs
      <3>2. IsSpan(u, buckets[i].first, buckets[i].last, ix, i)
        BY <1>1, <1>2, <1>7, <1>17, <3>1, SpanStays
      <3>3. QED BY <2>1, <2>3, <3>2
    <2>4. QED BY <2>2, <2>3
  <1>18. Bucketed(u, buckets', ix)
    BY <1>15, <1>16, <1>17 DEF Bucketed
  <1>19. Sound'
    BY <1>1, <1>3, <1>7, <1>8, <1>16, <1>18 DEF Sound
  <1>20. Len(list') = Len(list) - 1
    BY <1>7 DEF Inserts
  <1>21. QED BY <1>7, <1>8, <1>19, <1>20

-----------------------------------------------------------------------------
(* The order of the list.                                                   *)

\* Key a stands in s where key b does or before it; a stands behind b.
UpTo(s, a, b) == \E i, j \in 1 .. Len(s) : s[i] = a /\ s[j] = b /\ i <= j
Behind(s, a, b) == \E i, j \in 1 .. Len(s) : s[i] = a /\ s[j] = b /\ j < i

\* A key that is put in moves two others past it in their order.
LEMMA InsertKeepsOrder ==
    ASSUME NEW s \in Seq(Key), NEW u, NEW p, NEW k, Inserts(s, u, p, k), NEW a, NEW b
    PROVE  (UpTo(s, a, b) => UpTo(u, a, b)) /\ (Behind(s, a, b) => Behind(u, a, b))
  <1>0. PICK n \in Nat : Moved(s, u, p, k, n)
    BY InsertFacts
  <1>1. /\ n = Len(s) /\ Len(u) = n + 1 /\ p \in 1 .. n + 1 /\ u[p] = k
        /\ \A j \in 1 .. n : /\ j < p => u[j] = s[j]
                             /\ j >= p => u[j + 1] = s[j]
        /\ \A j \in 1 .. n + 1 : /\ j < p => u[j] = s[j]
                                 /\ j > p => u[j] = s[j - 1]
    BY <1>0 DEF Moved
  <1>2. ASSUME NEW i \in 1 .. n, NEW j \in 1 .. n
        PROVE  \E v, w \in 1 .. n + 1 : /\ u[v] = s[i] /\ u[w] = s[j]
                                        /\ i <= j => v <= w
                                        /\ j < i => w < v
    <2>1. PICK v \in 1 .. n + 1 : u[v] = s[i] /\ (IF i < p THEN v = i ELSE v = i + 1)
      <3>1. CASE i < p
        BY <1>1, <3>1
      <3>2. CASE i >= p
        <4>1. u[i + 1] = s[i] /\ i + 1 \in 1 .. n + 1 /\ ~(i < p)
          BY <1>1, <3>2
        <4>2. QED BY <4>1
      <3>3. QED BY <1>1, <3>1, <3>2
    <2>2. PICK w \in 1 .. n + 1 : u[w] = s[j] /\ (IF j < p THEN w = j ELSE w = j + 1)
      <3>1. CASE j < p
        BY <1>1, <3>1
      <3>2. CASE j >= p
        <4>1. u[j + 1] = s[j] /\ j + 1 \in 1 .. n + 1 /\ ~(j < p)
          BY <1>1, <3>2
        <4>2. QED BY <4>1
      <3>3. QED BY <1>1, <3>1, <3>2
    <2>3. (i <= j => v <= w) /\ (j < i => w < v)
      BY <1>1, <2>1, <2>2
    <2>4. QED BY <2>1, <2>2, <2>3
  <1>3. ASSUME UpTo(s, a, b) PROVE UpTo(u, a, b)
    <2>1. PICK i, j \in 1 .. n : s[i] = a /\ s[j] = b /\ i <= j
      BY <1>1, <1>3 DEF UpTo
    <2>2. PICK v, w \in 1 .. n + 1 : u[v] = a /\ u[w] = b /\ v <= w
      BY <1>2, <2>1
    <2>3. QED BY <1>1, <2>2 DEF UpTo
  <1>4. ASSUME Behind(s, a, b) PROVE Behind(u, a, b)
    <2>1. PICK i, j \in 1 .. n : s[i] = a /\ s[j] = b /\ j < i
      BY <1>1, <1>4 DEF Behind
    <2>2. PICK v, w \in 1 .. n + 1 : u[v] = a /\ u[w] = b /\ w < v
      BY <1>2, <2>1
    <2>3. QED BY <1>1, <2>2 DEF Behind
  <1>5. QED BY <1>3, <1>4

\* A key that is taken out leaves two others in their order.
LEMMA RemoveKeepsOrder ==
    ASSUME NEW s \in Seq(Key), NEW u \in Seq(Key), NEW p, NEW k, Inserts(u, s, p, k),
           NEW a, NEW b, a # k, b # k
    PROVE  (UpTo(s, a, b) => UpTo(u, a, b)) /\ (Behind(s, a, b) => Behind(u, a, b))
  <1>0. PICK n \in Nat : Moved(u, s, p, k, n)
    BY InsertFacts
  <1>1. /\ n = Len(u) /\ Len(s) = n + 1 /\ p \in 1 .. n + 1 /\ s[p] = k
        /\ \A j \in 1 .. n : /\ j < p => s[j] = u[j]
                             /\ j >= p => s[j + 1] = u[j]
        /\ \A j \in 1 .. n + 1 : /\ j < p => s[j] = u[j]
                                 /\ j > p => s[j] = u[j - 1]
    BY <1>0 DEF Moved
  <1>2. ASSUME NEW i \in 1 .. n + 1, NEW j \in 1 .. n + 1, i # p, j # p
        PROVE  \E v, w \in 1 .. n : /\ u[v] = s[i] /\ u[w] = s[j]
                                    /\ i <= j => v <= w
                                    /\ j < i => w < v
    <2>1. PICK v \in 1 .. n : u[v] = s[i] /\ (IF i < p THEN v = i ELSE v = i - 1)
      <3>1. CASE i < p
        <4>1. s[i] = u[i] /\ i \in 1 .. n
          BY <1>1, <3>1
        <4>2. QED BY <3>1, <4>1
      <3>2. CASE i > p
        <4>1. s[i] = u[i - 1] /\ i - 1 \in 1 .. n /\ ~(i < p)
          BY <1>1, <3>2
        <4>2. QED BY <4>1
      <3>3. QED BY <1>1, <1>2, <3>1, <3>2
    <2>2. PICK w \in 1 .. n : u[w] = s[j] /\ (IF j < p THEN w = j ELSE w = j - 1)
      <3>1. CASE j < p
        <4>1. s[j] = u[j] /\ j \in 1 .. n
          BY <1>1, <3>1
        <4>2. QED BY <3>1, <4>1
      <3>2. CASE j > p
        <4>1. s[j] = u[j - 1] /\ j - 1 \in 1 .. n /\ ~(j < p)
          BY <1>1, <3>2
        <4>2. QED BY <4>1
      <3>3. QED BY <1>1, <1>2, <3>1, <3>2
    <2>3. (i <= j => v <= w) /\ (j < i => w < v)
      BY <1>1, <1>2, <2>1, <2>2
    <2>4. QED BY <2>1, <2>2, <2>3
  <1>3. ASSUME UpTo(s, a, b) PROVE UpTo(u, a, b)
    <2>1. PICK i, j \in 1 .. n + 1 : s[i] = a /\ s[j] = b /\ i <= j /\ i # p /\ j # p
      BY <1>1, <1>3 DEF UpTo
    <2>2. PICK v, w \in 1 .. n : u[v] = a /\ u[w] = b /\ v <= w
      BY <1>2, <2>1
    <2>3. QED BY <1>1, <2>2 DEF UpTo
  <1>4. ASSUME Behind(s, a, b) PROVE Behind(u, a, b)
    <2>1. PICK i, j \in 1 .. n + 1 : s[i] = a /\ s[j] = b /\ j < i /\ i # p /\ j # p
      BY <1>1, <1>4 DEF Behind
    <2>2. PICK v, w \in 1 .. n : u[v] = a /\ u[w] = b /\ w < v
      BY <1>2, <2>1
    <2>3. QED BY <1>1, <2>2 DEF Behind
  <1>5. QED BY <1>3, <1>4

-----------------------------------------------------------------------------
(* The invariant.                                                           *)

\* No pair is in the list twice, or in it and among those still to be moved.
Apart ==
    /\ Injective(list) /\ Injective(rest) /\ ToSet(list) \cap ToSet(rest) = {}
    /\ size = Len(list) + Len(rest)

\* Unless a rehash failed, the buckets say where the pairs of the list are.
Parted == buckets # <<>> => Bucketed(list, buckets, IndexOf)

\* Where hashtable_set is, and what the iterator may be at.
Placed ==
    /\ pc # "rehash" => rest = <<>>
    /\ pc # "idle" => arg \in [key : Key, value : Value] /\ buckets # <<>>
    /\ iter # NoKey => iter \in Pairs

\* An iteration gives the keys of the list in their order.
Ordered ==
    /\ ~again
    /\ iter = NoKey \/ pc = "rehash" => given = {} /\ pending = {}
    /\ \A k \in given : UpTo(list, k, iter)
    /\ \A k \in pending : Behind(list, k, iter)

TableInv == TypeOK /\ Apart /\ Parted /\ Placed /\ Ordered

\* TypeOK, by what it is about.
TableTyped ==
    /\ list \in Seq(Key) /\ rest \in Seq(Key)
    /\ value \in [Key -> Value \cup {Null}]
    /\ size \in Nat /\ order \in Nat
    /\ buckets \in {<<>>} \cup [Indices -> Bucket]
CallTyped ==
    /\ pc \in {"idle", "rehash", "set"}
    /\ arg \in [key : Key, value : Value] \cup {NoArg}
    /\ answer \in Value \cup {Null, "ok", "fail"}
IterTyped ==
    /\ iter \in Key \cup {NoKey}
    /\ given \subseteq Key /\ pending \subseteq Key /\ again \in BOOLEAN

\* The parts make up TypeOK.
LEMMA TypeParts == TypeOK <=> TableTyped /\ CallTyped /\ IterTyped
  BY DEF TypeOK, TableTyped, CallTyped, IterTyped, Indices, Bucket

\* A table with its buckets is sound, and the other way round.
LEMMA SoundTable == TableInv /\ buckets # <<>> => Sound
  <1> SUFFICES ASSUME TableInv, buckets # <<>> PROVE Sound
    OBVIOUS
  <1>1. TableTyped
    BY TypeParts DEF TableInv
  <1>2. QED BY <1>1 DEF TableInv, TableTyped, Parted, Apart, Sound

\* What Sound says, part by part: the buckets are there.
LEMMA SoundIs == Sound => /\ list \in Seq(Key) /\ order \in Nat /\ Injective(list)
                          /\ buckets \in [Indices -> Bucket] /\ buckets # <<>> /\ Parted
  <1> SUFFICES ASSUME Sound
               PROVE  /\ list \in Seq(Key) /\ order \in Nat /\ Injective(list)
                      /\ buckets \in [Indices -> Bucket] /\ buckets # <<>> /\ Parted
    OBVIOUS
  <1>1. order \in Nat /\ buckets \in [0 .. HashSize(order) - 1 -> Bucket]
    BY DEF Sound, Indices
  <1>2. buckets # <<>>
    BY <1>1, HasBuckets
  <1>3. QED BY <1>2 DEF Sound, Parted

\* The same after a step.
LEMMA SoundIsNext == Sound' => /\ list' \in Seq(Key) /\ order' \in Nat /\ Injective(list')
                               /\ buckets' \in [Indices' -> Bucket] /\ buckets' # <<>> /\ Parted'
  <1>1. (Sound => /\ list \in Seq(Key) /\ order \in Nat /\ Injective(list)
                  /\ buckets \in [Indices -> Bucket] /\ buckets # <<>> /\ Parted)'
    BY SoundIs, PTL
  <1>2. QED BY <1>1

\* No keys at all.
LEMMA NoKeys ==
    /\ <<>> \in Seq(Key) /\ Injective(<<>>) /\ ToSet(<<>>) = {} /\ Len(<<>>) = 0
    /\ \A s \in Seq(Key) : s # <<>> => Len(s) # 0
  <1>1. <<>> \in Seq(Key) /\ Len(<<>>) = 0
    OBVIOUS
  <1>2. 1 .. 0 = {}
    OBVIOUS
  <1>3. Injective(<<>>)
    BY <1>1, <1>2 DEF Injective
  <1>4. ToSet(<<>>) = {}
    BY <1>1, <1>2, Elements
  <1>5. \A s \in Seq(Key) : s # <<>> => Len(s) # 0
    BY EmptySeq
  <1>6. QED BY <1>1, <1>3, <1>4, <1>5

\* Empty buckets over an empty list.
LEMMA EmptySound ==
    ASSUME NEW n \in Nat, list' = <<>>, order' = n, buckets' = EmptyBuckets(n)
    PROVE  Sound'
  <1>1. Indices' = 0 .. HashSize(n) - 1
    BY DEF Indices
  <1>2. NoPair \in Bucket
    BY DEF NoPair, Bucket
  <1>3. buckets' \in [Indices' -> Bucket] /\ \A i \in Indices' : buckets'[i] = NoPair
    BY <1>1, <1>2 DEF EmptyBuckets
  <1>4. 1 .. 0 = {}
    OBVIOUS
  <1>5. Bucketed(<<>>, buckets', IndexOf')
    BY <1>3, <1>4, NoKeys DEF Bucketed, NoneIn
  <1>6. QED BY <1>3, <1>5, NoKeys DEF Sound

\* The first of some keys and the rest.
LEMMA FirstAndRest ==
    ASSUME NEW s \in Seq(Key), s # <<>>, Injective(s)
    PROVE  /\ Head(s) \in Key /\ Tail(s) \in Seq(Key) /\ Len(s) = Len(Tail(s)) + 1
           /\ Injective(Tail(s)) /\ Head(s) \notin ToSet(Tail(s))
           /\ ToSet(s) = ToSet(Tail(s)) \cup {Head(s)}
  <1>1. PICK n \in Nat \ {0} : n = Len(s)
    BY NoKeys
  <1>2. PICK h \in Key : h = Head(s) /\ h = s[1]
    BY <1>1, HeadTailProperties
  <1>3. PICK t \in Seq(Key) : /\ t = Tail(s) /\ Len(t) = n - 1
                              /\ \A i \in 1 .. n - 1 : t[i] = s[i + 1]
    BY <1>1, HeadTailProperties, ZenonT(60)
  <1>4. \A i, j \in 1 .. n : s[i] = s[j] => i = j
    BY <1>1 DEF Injective
  <1>5. ASSUME NEW i \in 1 .. n - 1, NEW j \in 1 .. n - 1, t[i] = t[j] PROVE i = j
    <2>1. i + 1 \in 1 .. n /\ j + 1 \in 1 .. n /\ s[i + 1] = s[j + 1]
      BY <1>1, <1>3, <1>5
    <2>2. i + 1 = j + 1
      BY <1>4, <2>1
    <2>3. QED BY <2>2
  <1>6. Injective(t)
    BY <1>3, <1>5 DEF Injective
  <1>7. ASSUME NEW i \in 1 .. n - 1 PROVE t[i] # h
    <2>1. i + 1 \in 1 .. n /\ t[i] = s[i + 1] /\ i + 1 # 1 /\ 1 \in 1 .. n
      BY <1>1, <1>3
    <2>2. QED BY <1>2, <1>4, <2>1
  <1>8. h \notin ToSet(t)
    BY <1>3, <1>7, Elements, ZenonT(60)
  <1>9. ASSUME NEW x \in ToSet(s) PROVE x \in ToSet(t) \cup {h}
    <2>1. PICK j \in 1 .. n : s[j] = x
      BY <1>1, Elements
    <2>2. CASE j = 1
      BY <1>2, <2>1, <2>2
    <2>3. CASE j # 1
      <3>1. j - 1 \in 1 .. n - 1 /\ (j - 1) + 1 = j
        BY <1>1, <2>3
      <3>2. t[j - 1] = x
        BY <1>3, <2>1, <3>1
      <3>3. QED BY <1>3, <3>1, <3>2, Elements
    <2>4. QED BY <2>2, <2>3
  <1>10. ASSUME NEW x \in ToSet(t) PROVE x \in ToSet(s)
    <2>1. PICK j \in 1 .. n - 1 : t[j] = x
      BY <1>3, Elements, ZenonT(60)
    <2>2. j + 1 \in 1 .. n /\ s[j + 1] = x
      BY <1>1, <1>3, <2>1
    <2>3. QED BY <1>1, <2>2, Elements
  <1>11. h \in ToSet(s)
    <2>1. 1 \in 1 .. n
      BY <1>1
    <2>2. QED BY <1>1, <1>2, <2>1, Elements
  <1>12. n = (n - 1) + 1
    BY <1>1
  <1>13. ToSet(s) = ToSet(t) \cup {h}
    BY <1>9, <1>10, <1>11
  <1>14. QED BY <1>1, <1>2, <1>3, <1>6, <1>8, <1>12, <1>13

-----------------------------------------------------------------------------
(* Every step keeps the invariant.                                          *)

\* What the invariant says, with the parts of the types.
LEMMA InvIs ==
    ASSUME TableInv
    PROVE  TableTyped /\ CallTyped /\ IterTyped /\ Apart /\ Parted /\ Placed /\ Ordered
  BY TypeParts DEF TableInv

\* The invariant, put together from its parts after a step.
LEMMA InvMade ==
    ASSUME TableTyped', CallTyped', IterTyped', Apart', Parted', Placed', Ordered'
    PROVE  TableInv'
  <1>1. (TypeOK <=> TableTyped /\ CallTyped /\ IterTyped)'
    BY TypeParts, PTL
  <1>2. TypeOK'
    BY <1>1
  <1>3. QED BY <1>2 DEF TableInv

\* The table, and what is still to be moved, stay as they are.
SameKeys == list' = list /\ rest' = rest /\ size' = size /\ order' = order /\ buckets' = buckets

\* The pairs of such a step are typed, apart and in their buckets as before.
LEMMA KeysStay ==
    ASSUME TableInv, SameKeys, value' \in [Key -> Value \cup {Null}]
    PROVE  TableTyped' /\ Apart' /\ Parted' /\ Pairs' = Pairs
  <1>1. TableTyped /\ Apart /\ Parted
    BY InvIs
  <1>2. IndexOf' = IndexOf /\ Indices' = Indices
    BY DEF IndexOf, Index, Indices, SameKeys
  <1>3. TableTyped'
    BY <1>1, <1>2 DEF TableTyped, SameKeys
  <1>4. Apart'
    BY <1>1 DEF Apart, SameKeys
  <1>5. Parted'
    BY <1>1, <1>2 DEF Parted, SameKeys
  <1>6. Pairs' = Pairs
    BY DEF Pairs, SameKeys
  <1>7. QED BY <1>3, <1>4, <1>5, <1>6

\* The iteration stays as it is.
SameIteration == iter' = iter /\ given' = given /\ pending' = pending /\ again' = again

\* Such an iteration has given no pair twice.
LEMMA IterationStays ==
    ASSUME TableInv, SameIteration
    PROVE  IterTyped' /\ ~again'
  <1>1. IterTyped /\ ~again
    BY InvIs DEF Ordered
  <1>2. again' = again
    BY DEF SameIteration
  <1>3. ~again'
    BY <1>1, <1>2
  <1>4. iter' \in Key \cup {NoKey} /\ given' \subseteq Key /\ pending' \subseteq Key
    BY <1>1 DEF IterTyped, SameIteration
  <1>5. again' \in BOOLEAN
    <2>1. again \in BOOLEAN
      BY <1>1 DEF IterTyped
    <2>2. QED BY <1>2, <2>1, Zenon
  <1>6. QED BY <1>3, <1>4, <1>5 DEF IterTyped

\* An iteration that stays as it is in a list that keeps its order.
LEMMA OrderStays ==
    ASSUME TableInv, SameIteration, pc # "rehash", pc' # "rehash",
           \A k \in Key : /\ UpTo(list, k, iter) => UpTo(list', k, iter)
                          /\ Behind(list, k, iter) => Behind(list', k, iter)
    PROVE  Ordered'
  <1>1. Ordered /\ IterTyped
    BY InvIs
  <1>2. ~again'
    BY IterationStays
  <1>3. iter' = NoKey \/ pc' = "rehash" => given' = {} /\ pending' = {}
    BY <1>1 DEF Ordered, SameIteration
  <1>4. ASSUME NEW k \in given' PROVE UpTo(list', k, iter')
    <2>1. k \in Key /\ UpTo(list, k, iter) /\ iter' = iter
      BY <1>1, <1>4 DEF Ordered, SameIteration, IterTyped
    <2>2. QED BY <2>1
  <1>5. ASSUME NEW k \in pending' PROVE Behind(list', k, iter')
    <2>1. k \in Key /\ Behind(list, k, iter) /\ iter' = iter
      BY <1>1, <1>5 DEF Ordered, SameIteration, IterTyped
    <2>2. QED BY <2>1
  <1>6. QED BY <1>2, <1>3, <1>4, <1>5 DEF Ordered

\* An iteration of which nothing is known.
LEMMA OrderEmpty ==
    ASSUME given' = {}, pending' = {}, ~again' PROVE Ordered'
  BY DEF Ordered

\* hashtable_set up to its rehash.
LEMMA BeginSetStep ==
    ASSUME TableInv, NEW k \in Key, NEW v \in Value, BeginSet(k, v)
    PROVE  TableInv'
  <1>1. TableTyped /\ CallTyped /\ IterTyped /\ Apart /\ Parted /\ Placed /\ Ordered
    BY InvIs
  <1>2. pc = "idle" /\ rest = <<>> /\ buckets # <<>> /\ value' = value /\ size' = size
    BY <1>1 DEF BeginSet, Usable, Placed
  <1>3. value' \in [Key -> Value \cup {Null}]
    BY <1>1, <1>2 DEF TableTyped
  <1>4. PICK a \in [key : Key, value : Value] : a = [key |-> k, value |-> v]
    OBVIOUS
  <1>5. CASE /\ size < HashSize(order)
             /\ pc' = "set" /\ arg' = [key |-> k, value |-> v]
             /\ UNCHANGED <<list, order, buckets, rest, answer, iteration>>
    <2>1. SameKeys /\ SameIteration
      BY <1>2, <1>5 DEF SameKeys, SameIteration, iteration
    <2>2. TableTyped' /\ Apart' /\ Parted' /\ Pairs' = Pairs
      BY <1>3, <2>1, KeysStay
    <2>3. CallTyped'
      BY <1>1, <1>4, <1>5 DEF CallTyped
    <2>4. IterTyped'
      BY <2>1, IterationStays
    <2>5. Ordered'
      <3>1. list' = list
        BY <1>5
      <3>2. QED BY <1>2, <1>5, <2>1, <3>1, OrderStays
    <2>6. Placed'
      BY <1>1, <1>2, <1>4, <1>5, <2>1, <2>2 DEF Placed, SameKeys, SameIteration
    <2>7. QED BY <2>2, <2>3, <2>4, <2>5, <2>6, InvMade
  <1>6. CASE /\ size >= HashSize(order)
             /\ order' = order + 1
             /\ buckets' = EmptyBuckets(order + 1)
             /\ rest' = list /\ list' = <<>>
             /\ pc' = "rehash" /\ arg' = [key |-> k, value |-> v]
             /\ given' = {} /\ pending' = {}
             /\ UNCHANGED <<answer, iter, again>>
    <2>1. order + 1 \in Nat
      BY <1>1 DEF TableTyped
    <2>2. Sound'
      BY <1>6, <2>1, EmptySound
    <2>3. /\ order' \in Nat /\ buckets' \in [Indices' -> Bucket]
          /\ buckets' # <<>> /\ Parted'
      BY <2>2, SoundIsNext
    <2>4. TableTyped'
      BY <1>1, <1>2, <1>3, <1>6, <2>3, NoKeys DEF TableTyped
    <2>5. Apart'
      <3>1. Len(list) \in Nat /\ size = Len(list) + 0
        BY <1>1, <1>2, NoKeys DEF TableTyped, Apart
      <3>2. size' = Len(list') + Len(rest')
        BY <1>2, <1>6, <3>1, NoKeys
      <3>3. Injective(list') /\ Injective(rest') /\ ToSet(list') \cap ToSet(rest') = {}
        BY <1>1, <1>6, NoKeys DEF Apart
      <3>4. QED BY <3>2, <3>3 DEF Apart
    <2>6. CallTyped'
      BY <1>1, <1>4, <1>6 DEF CallTyped
    <2>7. again' = again /\ ~again /\ again \in BOOLEAN
      BY <1>1, <1>6 DEF Ordered, IterTyped
    <2>8. IterTyped'
      <3>1. again' \in BOOLEAN
        BY <2>7, Zenon
      <3>2. iter' \in Key \cup {NoKey} /\ given' \subseteq Key /\ pending' \subseteq Key
        BY <1>1, <1>6 DEF IterTyped
      <3>3. QED BY <3>1, <3>2 DEF IterTyped
    <2>9. Ordered'
      BY <1>6, <2>7, OrderEmpty
    <2>10. Placed'
      <3>1. Pairs' = Pairs
        BY <1>2, <1>6, NoKeys DEF Pairs
      <3>2. QED BY <1>1, <1>4, <1>6, <2>3, <3>1 DEF Placed
    <2>11. QED BY <2>3, <2>4, <2>5, <2>6, <2>8, <2>9, <2>10, InvMade
  <1>7. CASE /\ size >= HashSize(order)
             /\ order' = order + 1
             /\ buckets' = <<>>
             /\ answer' = "fail"
             /\ UNCHANGED <<list, rest, pc, arg, iteration>>
    <2>1. TableTyped'
      BY <1>1, <1>2, <1>3, <1>7 DEF TableTyped
    <2>2. CallTyped'
      BY <1>1, <1>7 DEF CallTyped
    <2>3. SameIteration
      BY <1>7 DEF SameIteration, iteration
    <2>4. IterTyped'
      BY <2>3, IterationStays
    <2>5. Apart' /\ Parted'
      BY <1>1, <1>2, <1>7 DEF Apart, Parted
    <2>6. Ordered'
      <3>1. list' = list /\ pc' = pc
        BY <1>7
      <3>2. QED BY <1>2, <2>3, <3>1, OrderStays
    <2>7. Placed'
      <3>1. Pairs' = Pairs
        BY <1>7 DEF Pairs
      <3>2. QED BY <1>1, <1>2, <1>7, <2>3, <3>1 DEF Placed, SameIteration
    <2>8. QED BY <2>1, <2>2, <2>4, <2>5, <2>6, <2>7, InvMade
  <1>8. QED BY <1>5, <1>6, <1>7 DEF BeginSet

\* The rehash of one pair, or its end.
LEMMA RehashStep ==
    ASSUME TableInv, Rehash PROVE TableInv' /\ Pairs' = Pairs /\ value' = value
  <1>1. TableTyped /\ CallTyped /\ IterTyped /\ Apart /\ Parted /\ Placed /\ Ordered
    BY InvIs
  <1>2. /\ pc = "rehash" /\ buckets # <<>> /\ value' = value /\ size' = size /\ order' = order
        /\ arg' = arg /\ answer' = answer /\ SameIteration
    BY <1>1 DEF Rehash, Placed, SameIteration, iteration
  <1>3. given' = {} /\ pending' = {} /\ ~again'
    BY <1>1, <1>2, IterationStays DEF Ordered, SameIteration
  <1>4. IterTyped' /\ Ordered'
    BY <1>2, <1>3, IterationStays, OrderEmpty
  <1>5. value' \in [Key -> Value \cup {Null}]
    BY <1>1, <1>2 DEF TableTyped
  <1>6. CASE rest = <<>>
    <2>1. pc' = "set" /\ SameKeys
      BY <1>2, <1>6 DEF Rehash, SameKeys
    <2>2. TableTyped' /\ Apart' /\ Parted' /\ Pairs' = Pairs
      BY <1>5, <2>1, KeysStay
    <2>3. CallTyped'
      BY <1>1, <1>2, <2>1 DEF CallTyped
    <2>4. Placed'
      BY <1>1, <1>2, <1>6, <2>1, <2>2 DEF Placed, SameKeys, SameIteration
    <2>5. QED BY <1>2, <1>4, <2>2, <2>3, <2>4, InvMade
  <1>7. CASE rest # <<>>
    <2>1. InsertToBucket(Head(rest)) /\ rest' = Tail(rest) /\ pc' = pc
      BY <1>2, <1>7 DEF Rehash
    <2>2. rest \in Seq(Key) /\ Injective(rest)
      BY <1>1 DEF TableTyped, Apart
    <2>3. PICK h \in Key, t \in Seq(Key) :
             /\ h = Head(rest) /\ t = Tail(rest) /\ Len(rest) = Len(t) + 1
             /\ Injective(t) /\ h \notin ToSet(t) /\ ToSet(rest) = ToSet(t) \cup {h}
      BY <1>7, <2>2, FirstAndRest
    <2>4. h \notin ToSet(list) /\ ToSet(list) \cap ToSet(t) = {}
      BY <1>1, <2>3 DEF Apart
    <2>5. Sound
      BY <1>2, SoundTable
    <2>6. /\ Sound' /\ ToSet(list') = ToSet(list) \cup {h}
          /\ \E p : Inserts(list, list', p, h)
      BY <1>2, <2>1, <2>3, <2>4, <2>5, InsertSound
    <2>7. Len(list') = Len(list) + 1
      BY <2>6 DEF Inserts
    <2>8. /\ list' \in Seq(Key) /\ order' \in Nat /\ Injective(list')
          /\ buckets' \in [Indices' -> Bucket] /\ buckets' # <<>> /\ Parted'
      BY <2>6, SoundIsNext
    <2>9. TableTyped'
      BY <1>1, <1>2, <1>5, <2>1, <2>3, <2>8 DEF TableTyped
    <2>10. Apart'
      <3>1. Len(list) \in Nat /\ Len(t) \in Nat /\ size = Len(list) + (Len(t) + 1)
        BY <1>1, <2>3 DEF TableTyped, Apart
      <3>2. size' = Len(list') + Len(rest')
        BY <1>2, <2>1, <2>3, <2>7, <3>1
      <3>3. Injective(list') /\ Injective(rest') /\ ToSet(list') \cap ToSet(rest') = {}
        BY <2>1, <2>3, <2>4, <2>6, <2>8
      <3>4. QED BY <3>2, <3>3 DEF Apart
    <2>11. Pairs' = Pairs
      BY <2>1, <2>3, <2>6 DEF Pairs
    <2>12. CallTyped'
      BY <1>1, <1>2, <2>1 DEF CallTyped
    <2>13. Placed'
      BY <1>1, <1>2, <2>1, <2>8, <2>11 DEF Placed, SameIteration
    <2>14. QED BY <1>2, <1>4, <2>8, <2>9, <2>10, <2>11, <2>12, <2>13, InvMade
  <1>8. QED BY <1>6, <1>7

\* A call that leaves the list, the buckets and the iteration as they are, and
\* is over.
LEMMA QuietStep ==
    ASSUME TableInv, SameKeys, SameIteration, value' \in [Key -> Value \cup {Null}],
           pc # "rehash", pc' = "idle", rest = <<>>,
           arg' \in {arg, NoArg}, answer' \in Value \cup {Null, "ok", "fail"}
    PROVE  TableInv' /\ Pairs' = Pairs
  <1>1. TableTyped /\ CallTyped /\ IterTyped /\ Apart /\ Parted /\ Placed /\ Ordered
    BY InvIs
  <1>2. TableTyped' /\ Apart' /\ Parted' /\ Pairs' = Pairs
    BY KeysStay
  <1>3. CallTyped'
    BY <1>1 DEF CallTyped
  <1>4. IterTyped'
    BY IterationStays
  <1>5. Ordered'
    <2>1. list' = list
      BY DEF SameKeys
    <2>2. QED BY <2>1, OrderStays
  <1>6. Placed'
    BY <1>1, <1>2 DEF Placed, SameKeys, SameIteration
  <1>7. QED BY <1>2, <1>3, <1>4, <1>5, <1>6, InvMade

\* hashtable_set once the table is large enough.
LEMMA SetStep ==
    ASSUME TableInv, Set
    PROVE  /\ TableInv' /\ buckets # <<>> /\ buckets' # <<>>
           /\ arg.key \in Key /\ arg.value \in Value
           /\ \/ /\ answer' = "ok" /\ Pairs' = Pairs \cup {arg.key}
                 /\ value' = [value EXCEPT ![arg.key] = arg.value]
              \/ /\ answer' = "fail" /\ Pairs' = Pairs /\ value' = value
  <1>1. TableTyped /\ CallTyped /\ IterTyped /\ Apart /\ Parted /\ Placed /\ Ordered
    BY InvIs
  <1>2. /\ pc = "set" /\ pc' = "idle" /\ rest = <<>> /\ rest' = rest /\ buckets # <<>>
        /\ arg' = NoArg /\ order' = order /\ SameIteration
    BY <1>1 DEF Set, Placed, SameIteration, iteration
  <1>3. PICK k \in Key, v \in Value : k = arg.key /\ v = arg.value
    BY <1>1, <1>2 DEF Placed
  <1>4. Sound
    BY <1>2, SoundTable
  <1>5. FindPair(k) <=> k \in ToSet(list)
    BY <1>4, Finds
  <1>6. Pairs = ToSet(list)
    BY <1>2, NoKeys DEF Pairs
  <1>7. value \in [Key -> Value \cup {Null}] /\ [value EXCEPT ![k] = v] \in [Key -> Value \cup {Null}]
    BY <1>1 DEF TableTyped
  <1>8. CASE FindPair(k) /\ value' = [value EXCEPT ![k] = v] /\ answer' = "ok"
             /\ UNCHANGED <<list, buckets, size>>
    <2>1. SameKeys
      BY <1>2, <1>8 DEF SameKeys
    <2>2. value' \in [Key -> Value \cup {Null}]
      BY <1>7, <1>8
    <2>3. TableInv' /\ Pairs' = Pairs
      BY <1>2, <1>8, <2>1, <2>2, QuietStep
    <2>4. QED BY <1>2, <1>3, <1>5, <1>6, <1>8, <2>3
  <1>9. CASE ~FindPair(k) /\ answer' = "fail" /\ UNCHANGED <<list, buckets, value, size>>
    <2>1. SameKeys
      BY <1>2, <1>9 DEF SameKeys
    <2>2. value' \in [Key -> Value \cup {Null}]
      BY <1>7, <1>9
    <2>3. TableInv' /\ Pairs' = Pairs
      BY <1>2, <1>9, <2>1, <2>2, QuietStep
    <2>4. QED BY <1>2, <1>3, <1>9, <2>3
  <1>10. CASE /\ ~FindPair(k) /\ InsertToBucket(k) /\ value' = [value EXCEPT ![k] = v]
              /\ size' = size + 1 /\ answer' = "ok"
    <2>1. /\ Sound' /\ ToSet(list') = ToSet(list) \cup {k}
          /\ \E p : Inserts(list, list', p, k)
      BY <1>2, <1>4, <1>5, <1>10, InsertSound
    <2>2. PICK p : Inserts(list, list', p, k)
      BY <2>1
    <2>3. Len(list') = Len(list) + 1
      BY <2>2 DEF Inserts
    <2>4. /\ list' \in Seq(Key) /\ order' \in Nat /\ Injective(list')
          /\ buckets' \in [Indices' -> Bucket] /\ buckets' # <<>> /\ Parted'
      BY <2>1, SoundIsNext
    <2>5. TableTyped'
      BY <1>1, <1>2, <1>7, <1>10, <2>4 DEF TableTyped
    <2>6. Apart'
      <3>1. Len(list) \in Nat /\ size = Len(list) + 0
        BY <1>1, <1>2, NoKeys DEF TableTyped, Apart
      <3>2. size' = Len(list') + Len(rest')
        BY <1>2, <1>10, <2>3, <3>1, NoKeys
      <3>3. Injective(list') /\ Injective(rest') /\ ToSet(list') \cap ToSet(rest') = {}
        BY <1>2, <2>4, NoKeys
      <3>4. QED BY <3>2, <3>3 DEF Apart
    <2>7. Pairs' = Pairs \cup {k}
      BY <1>2, <2>1 DEF Pairs
    <2>8. CallTyped'
      BY <1>1, <1>2, <1>10 DEF CallTyped
    <2>9. IterTyped'
      BY <1>2, IterationStays
    <2>10. Ordered'
      <3>1. list \in Seq(Key)
        BY <1>1 DEF TableTyped
      <3>2. \A a : /\ UpTo(list, a, iter) => UpTo(list', a, iter)
                   /\ Behind(list, a, iter) => Behind(list', a, iter)
        BY <2>2, <3>1, InsertKeepsOrder
      <3>3. QED BY <1>2, <3>2, OrderStays
    <2>11. Placed'
      BY <1>1, <1>2, <2>7 DEF Placed, SameIteration
    <2>12. QED BY <1>2, <1>3, <1>10, <2>4, <2>5, <2>6, <2>7, <2>8, <2>9, <2>10, <2>11, InvMade
  <1>11. QED BY <1>3, <1>8, <1>9, <1>10 DEF Set

\* A table whose calls are not under way.
LEMMA UsableIs ==
    ASSUME TableInv, Usable
    PROVE  /\ pc = "idle" /\ rest = <<>> /\ buckets # <<>> /\ Sound /\ Pairs = ToSet(list)
           /\ \A k \in Key : FindPair(k) <=> k \in Pairs
  <1>1. Placed
    BY InvIs
  <1>2. pc = "idle" /\ buckets # <<>>
    BY DEF Usable
  <1>3. rest = <<>> /\ Pairs = ToSet(list)
    BY <1>1, <1>2, NoKeys DEF Placed, Pairs
  <1>4. Sound
    BY <1>2, SoundTable
  <1>5. QED BY <1>2, <1>3, <1>4, Finds

\* hashtable_get
LEMMA GetStep ==
    ASSUME TableInv, NEW k \in Key, Get(k)
    PROVE  /\ TableInv' /\ Pairs' = Pairs /\ value' = value /\ buckets # <<>> /\ buckets' = buckets
           /\ answer' = IF k \in Pairs THEN value[k] ELSE Null
  <1>1. Usable
    BY DEF Get
  <1>2. TableTyped /\ CallTyped
    BY InvIs
  <1>3. SameKeys /\ SameIteration /\ value' = value /\ pc' = pc /\ arg' = arg
    BY DEF Get, table, call, iteration, SameKeys, SameIteration
  <1>4. value' \in [Key -> Value \cup {Null}]
    BY <1>2, <1>3 DEF TableTyped
  <1>5. answer' = IF k \in Pairs THEN value[k] ELSE Null
    BY <1>1, UsableIs DEF Get
  <1>6. value[k] \in Value \cup {Null}
    BY <1>2 DEF TableTyped
  <1>7. answer' \in Value \cup {Null, "ok", "fail"}
    BY <1>5, <1>6
  <1>8. TableInv' /\ Pairs' = Pairs
    BY <1>1, <1>3, <1>4, <1>7, UsableIs, QuietStep
  <1>9. QED BY <1>1, <1>3, <1>5, <1>8, UsableIs DEF SameKeys

\* hashtable_iter_set
LEMMA IterSetStep ==
    ASSUME TableInv, NEW v \in Value, IterSet(v)
    PROVE  /\ TableInv' /\ Pairs' = Pairs /\ iter \in Pairs
           /\ value' = [value EXCEPT ![iter] = v]
           /\ buckets' = buckets /\ answer' = answer
  <1>1. TableTyped /\ CallTyped /\ Placed
    BY InvIs
  <1>2. /\ pc = "idle" /\ iter # NoKey /\ value' = [value EXCEPT ![iter] = v]
        /\ SameKeys /\ SameIteration /\ pc' = pc /\ arg' = arg /\ answer' = answer
    BY DEF IterSet, call, iteration, SameKeys, SameIteration
  <1>3. rest = <<>> /\ iter \in Pairs
    BY <1>1, <1>2 DEF Placed
  <1>4. value' \in [Key -> Value \cup {Null}]
    BY <1>1, <1>2 DEF TableTyped
  <1>5. answer' \in Value \cup {Null, "ok", "fail"}
    BY <1>1, <1>2 DEF CallTyped
  <1>6. TableInv' /\ Pairs' = Pairs
    BY <1>2, <1>3, <1>4, <1>5, QuietStep
  <1>7. QED BY <1>2, <1>3, <1>6 DEF SameKeys

\* An iteration that has just begun or has been given up.
LEMMA NewIteration ==
    ASSUME given' = {}, pending' = {}, again' = FALSE, iter' \in Key \cup {NoKey}
    PROVE  IterTyped' /\ Ordered'
  <1>1. PICK no \in BOOLEAN : no = FALSE
    OBVIOUS
  <1>2. again' \in BOOLEAN
    BY <1>1, Zenon
  <1>3. QED BY <1>2, OrderEmpty DEF IterTyped

\* hashtable_del
LEMMA DelStep ==
    ASSUME TableInv, NEW k \in Key, Del(k)
    PROVE  /\ TableInv' /\ buckets # <<>> /\ buckets' # <<>>
           /\ Pairs' = Pairs \ {k} /\ (\A j \in Pairs' : value'[j] = value[j])
           /\ answer' = IF k \in Pairs THEN "ok" ELSE "fail"
  <1>1. TableTyped /\ CallTyped /\ IterTyped /\ Apart /\ Parted /\ Placed /\ Ordered
    BY InvIs
  <1>2. Usable
    BY DEF Del
  <1>3. /\ pc = "idle" /\ rest = <<>> /\ buckets # <<>> /\ Sound /\ Pairs = ToSet(list)
        /\ FindPair(k) <=> k \in Pairs
    BY <1>2, UsableIs
  <1>4. order' = order /\ pc' = pc /\ arg' = arg /\ rest' = rest
    BY DEF Del, call
  <1>5. CASE ~FindPair(k)
    <2>1. answer' = "fail" /\ value' = value /\ SameKeys /\ SameIteration
      BY <1>4, <1>5 DEF Del, iteration, SameKeys, SameIteration
    <2>2. value' \in [Key -> Value \cup {Null}]
      BY <1>1, <2>1 DEF TableTyped
    <2>3. TableInv' /\ Pairs' = Pairs
      BY <1>3, <1>4, <2>1, <2>2, QuietStep
    <2>4. QED BY <1>3, <1>5, <2>1, <2>3 DEF SameKeys
  <1>6. CASE FindPair(k)
    <2>1. /\ buckets' = [buckets EXCEPT ![Index(k)] = BucketWithout(k)]
          /\ list' = RemoveAt(list, At(k))
          /\ value' = [value EXCEPT ![k] = Null]
          /\ size' = size - 1
          /\ answer' = "ok"
      BY <1>6 DEF Del
    <2>2. k \in ToSet(list)
      BY <1>3, <1>6
    <2>3. /\ Sound' /\ ToSet(list') = ToSet(list) \ {k} /\ Len(list') = Len(list) - 1
          /\ \E p : Inserts(list', list, p, k)
      BY <1>3, <1>4, <2>1, <2>2, DeleteSound
    <2>4. PICK p : Inserts(list', list, p, k)
      BY <2>3
    <2>5. /\ list' \in Seq(Key) /\ order' \in Nat /\ Injective(list')
          /\ buckets' \in [Indices' -> Bucket] /\ buckets' # <<>> /\ Parted'
      BY <2>3, SoundIsNext
    <2>6. Len(list) \in Nat /\ size = Len(list) + 0 /\ Len(list) = Len(list') + 1 /\ Len(list') \in Nat
      BY <1>1, <1>3, <2>4, <2>5, NoKeys DEF TableTyped, Apart, Inserts
    <2>7. size' = Len(list') /\ size' \in Nat
      BY <2>1, <2>6
    <2>8. value' \in [Key -> Value \cup {Null}] /\ (\A j \in Key \ {k} : value'[j] = value[j])
      BY <1>1, <2>1 DEF TableTyped
    <2>9. TableTyped'
      BY <1>1, <1>4, <2>5, <2>7, <2>8 DEF TableTyped
    <2>10. Apart'
      <3>1. size' = Len(list') + Len(rest')
        BY <1>3, <1>4, <2>6, <2>7, NoKeys
      <3>2. Injective(list') /\ Injective(rest') /\ ToSet(list') \cap ToSet(rest') = {}
        BY <1>3, <1>4, <2>5, NoKeys
      <3>3. QED BY <3>1, <3>2 DEF Apart
    <2>11. Pairs' = Pairs \ {k}
      BY <1>3, <1>4, <2>3, NoKeys DEF Pairs
    <2>12. CallTyped'
      BY <1>1, <1>4, <2>1 DEF CallTyped
    <2>13. /\ IterTyped' /\ Ordered'
           /\ iter' # NoKey => iter' = iter /\ iter # k
      <3>1. CASE iter = k
        <4>1. iter' = NoKey /\ given' = {} /\ pending' = {} /\ again' = FALSE
          BY <1>6, <3>1 DEF Del, NoIteration
        <4>2. QED BY <4>1, NewIteration
      <3>2. CASE iter # k
        <4>1. /\ given' = given \ {k} /\ pending' = pending \ {k}
              /\ iter' = iter /\ again' = again
          BY <1>6, <3>2 DEF Del
        <4>2. again \in BOOLEAN /\ ~again
          BY <1>1 DEF IterTyped, Ordered
        <4>3. again' \in BOOLEAN
          BY <4>1, <4>2, Zenon
        <4>4. ~again'
          BY <4>1, <4>2
        <4>5. IterTyped'
          BY <1>1, <4>1, <4>3 DEF IterTyped
        <4>6. list \in Seq(Key)
          BY <1>1 DEF TableTyped
        <4>7. \A a : a # k =>
                 /\ UpTo(list, a, iter) => UpTo(list', a, iter)
                 /\ Behind(list, a, iter) => Behind(list', a, iter)
          BY <2>4, <2>5, <3>2, <4>6, RemoveKeepsOrder
        <4>8. \A a \in given' : UpTo(list', a, iter')
          BY <1>1, <4>1, <4>7 DEF Ordered
        <4>9. \A a \in pending' : Behind(list', a, iter')
          BY <1>1, <4>1, <4>7 DEF Ordered
        <4>10. iter' = NoKey \/ pc' = "rehash" => given' = {} /\ pending' = {}
          BY <1>1, <1>4, <4>1 DEF Ordered
        <4>11. Ordered'
          BY <4>4, <4>8, <4>9, <4>10 DEF Ordered
        <4>12. QED BY <3>2, <4>1, <4>5, <4>11
      <3>3. QED BY <3>1, <3>2
    <2>14. Placed'
      BY <1>1, <1>3, <1>4, <2>11, <2>13 DEF Placed
    <2>15. \A j \in Pairs' : value'[j] = value[j]
      <3>1. list \in Seq(Key)
        BY <1>1 DEF TableTyped
      <3>2. Pairs' \subseteq Key \ {k}
        BY <1>3, <2>11, <3>1, Elements
      <3>3. QED BY <2>8, <3>2
    <2>16. answer' = IF k \in Pairs THEN "ok" ELSE "fail"
      BY <1>3, <1>6, <2>1
    <2>17. QED BY <1>3, <2>5, <2>9, <2>10, <2>11, <2>12, <2>13, <2>14, <2>15, <2>16, InvMade
  <1>7. QED BY <1>5, <1>6

\* A table that is empty again.
LEMMA EmptyStep ==
    ASSUME TableInv, NEW n \in Nat, list' = <<>>, value' = [k \in Key |-> Null], size' = 0,
           order' = n, buckets' = EmptyBuckets(n), answer' = "ok", NoIteration,
           pc = "idle", UNCHANGED call
    PROVE  TableInv' /\ buckets' # <<>> /\ Pairs' = {}
  <1>1. TableTyped /\ CallTyped /\ Placed
    BY InvIs
  <1>2. pc' = "idle" /\ arg' = arg /\ rest' = <<>>
    BY <1>1 DEF call, Placed
  <1>3. Sound'
    BY EmptySound
  <1>4. /\ list' \in Seq(Key) /\ order' \in Nat /\ Injective(list')
        /\ buckets' \in [Indices' -> Bucket] /\ buckets' # <<>> /\ Parted'
    BY <1>3, SoundIsNext
  <1>5. TableTyped'
    BY <1>2, <1>4, NoKeys DEF TableTyped
  <1>6. Apart'
    <2>1. size' = Len(list') + Len(rest')
      BY <1>2, NoKeys
    <2>2. QED BY <1>2, <2>1, NoKeys DEF Apart
  <1>7. CallTyped'
    BY <1>1, <1>2 DEF CallTyped
  <1>8. IterTyped' /\ Ordered'
    BY NewIteration DEF NoIteration
  <1>9. Placed'
    BY <1>2 DEF Placed, NoIteration
  <1>10. Pairs' = {}
    BY <1>2, NoKeys DEF Pairs
  <1>11. QED BY <1>4, <1>5, <1>6, <1>7, <1>8, <1>9, <1>10, InvMade

\* hashtable_clear
LEMMA ClearStep ==
    ASSUME TableInv, Clear
    PROVE  TableInv' /\ buckets # <<>> /\ buckets' # <<>> /\ Pairs' = {} /\ answer' = "ok"
  <1>1. order \in Nat /\ order' = order /\ pc = "idle" /\ buckets # <<>>
    BY InvIs DEF TableTyped, Clear, Usable
  <1>2. QED BY <1>1, EmptyStep DEF Clear

\* hashtable_close and the next hashtable_init
LEMMA CloseStep ==
    ASSUME TableInv, CloseAndInit
    PROVE  TableInv' /\ buckets' # <<>> /\ Pairs' = {} /\ answer' = "ok"
  <1>1. InitialOrder \in Nat
    BY HashtableAssumption
  <1>2. QED BY <1>1, EmptyStep DEF CloseAndInit

\* A step of the iterator leaves the table and the call alone.
LEMMA IteratorStep ==
    ASSUME TableInv, UNCHANGED <<table, call, answer>>, pc = "idle",
           IterTyped', Ordered', iter' # NoKey => iter' \in Pairs
    PROVE  TableInv' /\ Pairs' = Pairs
  <1>1. TableTyped /\ CallTyped /\ Placed
    BY InvIs
  <1>2. SameKeys /\ value' = value /\ pc' = pc /\ arg' = arg /\ answer' = answer
    BY DEF table, call, SameKeys
  <1>3. value' \in [Key -> Value \cup {Null}]
    BY <1>1, <1>2 DEF TableTyped
  <1>4. TableTyped' /\ Apart' /\ Parted' /\ Pairs' = Pairs
    BY <1>2, <1>3, KeysStay
  <1>5. CallTyped'
    BY <1>1, <1>2 DEF CallTyped
  <1>6. Placed'
    BY <1>1, <1>2, <1>4 DEF Placed, SameKeys
  <1>7. QED BY <1>4, <1>5, <1>6, InvMade

\* hashtable_iter
LEMMA IterStep ==
    ASSUME TableInv, Iter PROVE TableInv' /\ Pairs' = Pairs
  <1>1. TableTyped /\ Placed /\ Apart
    BY InvIs
  <1>2. /\ pc = "idle" /\ UNCHANGED <<table, call, answer>>
        /\ iter' = (IF list = <<>> THEN NoKey ELSE Head(list))
        /\ given' = {iter'} \ {NoKey} /\ pending' = ToSet(list) \ given'
        /\ again' = FALSE
    BY DEF Iter
  <1>3. list' = list /\ pc' = pc
    BY <1>2 DEF table, call
  <1>4. PICK no \in BOOLEAN : no = FALSE
    OBVIOUS
  <1>5. again' \in BOOLEAN
    BY <1>2, <1>4, Zenon
  <1>6. NoKey \notin Key /\ list \in Seq(Key) /\ Injective(list)
    BY <1>1, HashtableAssumption DEF TableTyped, Apart
  <1>7. CASE list = <<>>
    <2>1. iter' = NoKey /\ given' = {} /\ pending' = {}
      BY <1>2, <1>7, NoKeys
    <2>2. IterTyped' /\ Ordered'
      BY <1>2, <2>1, NewIteration
    <2>3. QED BY <1>2, <2>1, <2>2, IteratorStep
  <1>8. CASE list # <<>>
    <2>1. PICK n \in Nat \ {0} : n = Len(list)
      BY <1>6, <1>8, NoKeys
    <2>2. Head(list) = list[1] /\ 1 \in 1 .. n /\ list[1] \in Key
      BY <1>6, <1>8, <2>1, HeadTailProperties, Elements
    <2>3. iter' = list[1] /\ iter' \in Key /\ given' = {list[1]} /\ pending' = ToSet(list) \ {list[1]}
      BY <1>2, <1>6, <1>8, <2>2
    <2>4. ToSet(list) \subseteq Key
      BY <1>6, Elements
    <2>5. IterTyped'
      BY <1>5, <2>3, <2>4 DEF IterTyped
    <2>6. ASSUME NEW k \in given' PROVE UpTo(list, k, iter')
      <3>1. k = list[1] /\ 1 <= 1
        BY <2>3, <2>6
      <3>2. QED BY <2>1, <2>2, <2>3, <3>1 DEF UpTo
    <2>7. ASSUME NEW k \in pending' PROVE Behind(list, k, iter')
      <3>1. PICK j \in 1 .. n : k = list[j] /\ j # 1
        BY <1>6, <2>1, <2>3, <2>7, Elements
      <3>2. 1 < j
        BY <3>1
      <3>3. QED BY <2>1, <2>2, <2>3, <3>1, <3>2 DEF Behind
    <2>8. iter' # NoKey /\ pc' # "rehash"
      BY <1>2, <1>3, <1>6, <2>3
    <2>9. Ordered'
      BY <1>2, <1>3, <2>6, <2>7, <2>8 DEF Ordered
    <2>10. iter' \in Pairs
      BY <1>6, <2>1, <2>2, <2>3, Elements DEF Pairs
    <2>11. QED BY <1>2, <2>5, <2>9, <2>10, IteratorStep
  <1>9. QED BY <1>7, <1>8

\* hashtable_iter_at
LEMMA IterAtStep ==
    ASSUME TableInv, NEW k \in Key, IterAt(k) PROVE TableInv' /\ Pairs' = Pairs
  <1>1. Usable
    BY DEF IterAt
  <1>2. FindPair(k) <=> k \in Pairs
    BY <1>1, UsableIs
  <1>7. iter' = IF FindPair(k) THEN k ELSE NoKey
    BY DEF IterAt
  <1>3. iter' = NoKey \/ (iter' = k /\ k \in Pairs)
    <2>1. FindPair(k) => iter' = k /\ k \in Pairs
      BY <1>2, <1>7, Zenon
    <2>2. ~FindPair(k) => iter' = NoKey
      BY <1>7, Zenon
    <2>3. QED BY <2>1, <2>2
  <1>4. IterTyped' /\ Ordered'
    BY <1>3, NewIteration DEF IterAt
  <1>5. UNCHANGED <<table, call, answer>> /\ pc = "idle"
    BY <1>1, UsableIs DEF IterAt
  <1>6. QED BY <1>3, <1>4, <1>5, IteratorStep

\* hashtable_iter_next: the keys given are those up to the iterator, and the
\* next one is behind them.
LEMMA IterNextStep ==
    ASSUME TableInv, IterNext
    PROVE  TableInv' /\ Pairs' = Pairs
  <1>1. TableTyped /\ IterTyped /\ Apart /\ Placed /\ Ordered
    BY InvIs
  <1>2. /\ pc = "idle" /\ iter # NoKey /\ UNCHANGED <<table, call, answer>>
        /\ iter' = NextOf(iter)
        /\ given' = (IF iter' = NoKey THEN {} ELSE given \cup (pending \cap {iter'}))
        /\ pending' = pending \ {iter'}
        /\ again' = (iter' \in given)
    BY DEF IterNext
  <1>3. list' = list /\ pc' = pc
    BY <1>2 DEF table, call
  <1>4. NoKey \notin Key /\ list \in Seq(Key) /\ Injective(list)
    BY <1>1, HashtableAssumption DEF TableTyped, Apart
  <1>5. iter \in ToSet(list)
    BY <1>1, <1>2, NoKeys DEF Placed, Pairs
  <1>6. PICK n \in Nat : n = Len(list)
    BY <1>4
  <1>7. PICK p \in 1 .. n : list[p] = iter
    BY <1>4, <1>5, <1>6, Elements
  <1>8. At(iter) = p
    BY <1>4, <1>6, <1>7, AtPlace
  <1>9. \A i, j \in 1 .. n : list[i] = list[j] => i = j
    BY <1>4, <1>6 DEF Injective
  <1>10. \A k \in given : \E i \in 1 .. n : list[i] = k /\ i <= p
    <2> TAKE k \in given
    <2>1. PICK i, j \in 1 .. n : list[i] = k /\ list[j] = iter /\ i <= j
      BY <1>1, <1>6 DEF Ordered, UpTo
    <2>2. j = p
      BY <1>7, <1>9, <2>1
    <2>3. QED BY <2>1, <2>2
  <1>11. \A k \in pending : \E i \in 1 .. n : list[i] = k /\ p < i
    <2> TAKE k \in pending
    <2>1. PICK i, j \in 1 .. n : list[i] = k /\ list[j] = iter /\ j < i
      BY <1>1, <1>6 DEF Ordered, Behind
    <2>2. j = p
      BY <1>7, <1>9, <2>1
    <2>3. QED BY <2>1, <2>2
  <1>12. given \subseteq Key /\ pending \subseteq Key
    BY <1>1 DEF IterTyped
  <1>13. (iter' \in given) \in BOOLEAN
    BY SMT
  <1>14. again' \in BOOLEAN
    BY <1>2, <1>13, Zenon
  <1>15. CASE p = n
    <2>1. iter' = NoKey
      BY <1>2, <1>6, <1>8, <1>15 DEF NextOf
    <2>2. pending = {}
      BY <1>6, <1>11, <1>15
    <2>3. given' = {} /\ pending' = {} /\ ~again'
      BY <1>2, <1>4, <1>12, <2>1, <2>2
    <2>4. IterTyped' /\ Ordered'
      BY <1>14, <2>1, <2>3, OrderEmpty DEF IterTyped
    <2>5. QED BY <1>2, <2>1, <2>4, IteratorStep
  <1>16. CASE p # n
    <2>1. PICK q \in 1 .. n : q = p + 1
      BY <1>6, <1>16
    <2>2. iter' = list[q] /\ list[q] \in Key /\ list[q] \in ToSet(list)
      BY <1>2, <1>4, <1>6, <1>8, <1>16, <2>1, Elements DEF NextOf
    <2>3. iter' # NoKey /\ pc' # "rehash"
      BY <1>2, <1>3, <1>4, <2>2
    <2>4. iter' \notin given
      <3>1. SUFFICES ASSUME iter' \in given PROVE FALSE
        OBVIOUS
      <3>2. PICK i \in 1 .. n : list[i] = iter' /\ i <= p
        BY <1>10, <3>1
      <3>3. i = q
        BY <1>9, <2>2, <3>2
      <3>4. QED BY <2>1, <3>2, <3>3
    <2>5. ~again'
      BY <1>2, <2>4
    <2>6. given' = given \cup (pending \cap {iter'}) /\ pending' = pending \ {iter'}
      BY <1>2, <2>3
    <2>7. IterTyped'
      BY <1>12, <1>14, <2>2, <2>6 DEF IterTyped
    <2>8. ASSUME NEW k \in given' PROVE UpTo(list, k, iter')
      <3>1. PICK i \in 1 .. n : list[i] = k /\ i <= q
        <4>1. CASE k \in given
          <5>1. PICK i \in 1 .. n : list[i] = k /\ i <= p
            BY <1>10, <4>1
          <5>2. i <= q
            BY <2>1, <5>1
          <5>3. QED BY <5>1, <5>2
        <4>2. CASE k = iter'
          <5>1. q <= q
            BY <2>1
          <5>2. QED BY <2>2, <4>2, <5>1
        <4>3. QED BY <2>6, <2>8, <4>1, <4>2
      <3>2. QED BY <1>6, <2>2, <3>1 DEF UpTo
    <2>9. ASSUME NEW k \in pending' PROVE Behind(list, k, iter')
      <3>1. PICK i \in 1 .. n : list[i] = k /\ p < i
        BY <1>11, <2>6, <2>9
      <3>2. i # q
        BY <2>2, <2>6, <2>9, <3>1
      <3>3. q < i
        BY <2>1, <3>1, <3>2
      <3>4. QED BY <1>6, <2>2, <3>1, <3>3 DEF Behind
    <2>10. Ordered'
      BY <1>3, <2>3, <2>5, <2>8, <2>9 DEF Ordered
    <2>11. iter' \in Pairs
      BY <2>2 DEF Pairs
    <2>12. QED BY <1>2, <2>7, <2>10, <2>11, IteratorStep
  <1>17. QED BY <1>15, <1>16

\* A stuttering step.
LEMMA TableStutter ==
    ASSUME TableInv, UNCHANGED vars PROVE TableInv'
  <1>1. UNCHANGED <<list, value, size, order, buckets, pc, arg, rest, answer, iter, given, pending>>
    BY DEF vars, table, call, iteration
  <1>2. again' = again
    BY DEF vars, iteration
  <1>3. SameKeys /\ SameIteration
    BY <1>1, <1>2 DEF SameKeys, SameIteration
  <1>4. TableTyped /\ CallTyped /\ Placed /\ Ordered
    BY InvIs
  <1>5. value' \in [Key -> Value \cup {Null}]
    BY <1>1, <1>4 DEF TableTyped
  <1>6. TableTyped' /\ Apart' /\ Parted' /\ Pairs' = Pairs
    BY <1>3, <1>5, KeysStay
  <1>7. CallTyped'
    BY <1>1, <1>4 DEF CallTyped
  <1>8. IterTyped' /\ ~again'
    BY <1>3, IterationStays
  <1>9. Ordered'
    BY <1>1, <1>4, <1>8 DEF Ordered
  <1>10. Placed'
    BY <1>1, <1>4, <1>6 DEF Placed
  <1>11. QED BY <1>6, <1>7, <1>8, <1>9, <1>10, InvMade

\* Every step keeps the invariant.
LEMMA TableStep == TableInv /\ [Next]_vars => TableInv'
  <1> SUFFICES ASSUME TableInv, [Next]_vars PROVE TableInv'
    OBVIOUS
  <1>1. ASSUME NEW k \in Key, NEW v \in Value, BeginSet(k, v) PROVE TableInv'
    BY <1>1, BeginSetStep
  <1>2. CASE Rehash
    BY <1>2, RehashStep
  <1>3. CASE Set
    BY <1>3, SetStep
  <1>4. ASSUME NEW k \in Key, Get(k) \/ Del(k) \/ IterAt(k) PROVE TableInv'
    BY <1>4, GetStep, DelStep, IterAtStep
  <1>5. CASE Clear
    BY <1>5, ClearStep
  <1>6. CASE CloseAndInit
    BY <1>6, CloseStep
  <1>7. CASE Iter
    BY <1>7, IterStep
  <1>8. CASE IterNext
    BY <1>8, IterNextStep
  <1>9. ASSUME NEW v \in Value, IterSet(v) PROVE TableInv'
    BY <1>9, IterSetStep
  <1>10. CASE UNCHANGED vars
    BY <1>10, TableStutter
  <1>11. QED BY <1>1, <1>2, <1>3, <1>4, <1>5, <1>6, <1>7, <1>8, <1>9, <1>10 DEF Next

\* A new table is empty.
LEMMA InitTableInv == Init => TableInv
  <1> SUFFICES ASSUME Init PROVE TableInv
    OBVIOUS
  <1>1. InitialOrder \in Nat
    BY HashtableAssumption
  <1>2. PICK f : f = EmptyBuckets(InitialOrder) /\ f = buckets
    BY DEF Init
  <1>3. NoPair \in Bucket
    BY DEF NoPair, Bucket
  <1>4. Indices = 0 .. HashSize(InitialOrder) - 1
    BY DEF Init, Indices
  <1>5. buckets \in [Indices -> Bucket] /\ \A i \in Indices : buckets[i] = NoPair
    BY <1>2, <1>3, <1>4 DEF EmptyBuckets
  <1>6. 1 .. 0 = {}
    OBVIOUS
  <1>7. Bucketed(<<>>, buckets, IndexOf)
    BY <1>5, <1>6, NoKeys DEF Bucketed, NoneIn
  <1>8. TableTyped
    BY <1>1, <1>5, NoKeys DEF Init, TableTyped
  <1>9. CallTyped
    BY DEF Init, CallTyped
  <1>10. IterTyped
    <2>1. PICK no \in BOOLEAN : no = FALSE
      OBVIOUS
    <2>2. again \in BOOLEAN
      BY <2>1, Zenon DEF Init
    <2>3. iter \in Key \cup {NoKey} /\ given \subseteq Key /\ pending \subseteq Key
      BY DEF Init
    <2>4. QED BY <2>2, <2>3 DEF IterTyped
  <1>11. Apart
    BY NoKeys DEF Init, Apart
  <1>12. Parted
    BY <1>7 DEF Init, Parted
  <1>13. Placed
    BY DEF Init, Placed
  <1>14. Ordered
    BY DEF Init, Ordered
  <1>15. QED BY <1>8, <1>9, <1>10, <1>11, <1>12, <1>13, <1>14, TypeParts DEF TableInv

-----------------------------------------------------------------------------
(* The theorems.                                                            *)

\* The invariant holds whatever calls are made and whatever runs out of memory.
THEOREM TableInvariance == Spec => []TableInv
  BY InitTableInv, TableStep, PTL DEF Spec

\* Between calls the buckets partition the list, unless a rehash failed.
THEOREM BucketsArePartition == Spec => []BucketsPartitionTheList
  <1>1. TableInv => BucketsPartitionTheList
    <2> SUFFICES ASSUME TableInv, pc = "idle"
                 PROVE  /\ IsInjective(list) /\ size = Len(list)
                        /\ buckets # <<>> =>
                              \A i \in DOMAIN buckets :
                                  Chain(buckets[i]) = {k \in ToSet(list) : Index(k) = i}
      BY DEF BucketsPartitionTheList
    <2>1. TableTyped /\ Apart /\ Placed
      BY InvIs
    <2>2. list \in Seq(Key) /\ Len(list) \in Nat /\ rest = <<>>
      BY <2>1 DEF TableTyped, Placed
    <2>3. IsInjective(list)
      BY <2>1, <2>2 DEF Apart, Injective, IsInjective
    <2>4. size = Len(list)
      BY <2>1, <2>2, NoKeys DEF Apart
    <2>5. ASSUME buckets # <<>>
          PROVE  \A i \in DOMAIN buckets : Chain(buckets[i]) = {k \in ToSet(list) : Index(k) = i}
      <3>1. Sound
        BY <2>5, SoundTable
      <3>2. DOMAIN buckets = Indices
        BY <3>1 DEF Sound
      <3>3. QED BY <3>1, <3>2, ChainIs
    <2>6. QED BY <2>3, <2>4, <2>5
  <1>2. QED BY <1>1, TableInvariance, PTL

\* An iteration without a rehash gives every pair that stays, and none twice.
THEOREM IterationsAreComplete == Spec => []IterationIsComplete
  <1>1. TableInv => IterationIsComplete
    BY DEF TableInv, Ordered, IterationIsComplete
  <1>2. QED BY <1>1, TableInvariance, PTL

-----------------------------------------------------------------------------
(* The table is a map.                                                      *)

Mapping == [k \in Pairs |-> value[k]]
Usage == buckets # <<>>

\* A table with buckets is one that may be used.
LEMMA InUse == buckets # <<>> => Usage = TRUE
  BY DEF Usage

\* The pairs of a table have keys and values.
LEMMA PairsHaveValues ==
    TableInv => Pairs \subseteq Key /\ value \in [Key -> Value \cup {Null}]
  <1> SUFFICES ASSUME TableInv
               PROVE  Pairs \subseteq Key /\ value \in [Key -> Value \cup {Null}]
    OBVIOUS
  <1>1. TableTyped
    BY InvIs
  <1>2. ToSet(list) \subseteq Key /\ ToSet(rest) \subseteq Key
    BY <1>1, Elements DEF TableTyped
  <1>3. QED BY <1>1, <1>2 DEF Pairs, TableTyped

\* A step that leaves the pairs and their values alone.
LEMMA MappingStays ==
    ASSUME Pairs' = Pairs, value' = value PROVE Mapping' = Mapping
  BY DEF Mapping

\* A step that gives the pair of k the value v.
LEMMA MappingSet ==
    ASSUME TableInv, NEW k \in Key, NEW v \in Value, Pairs' = Pairs \cup {k},
           value' = [value EXCEPT ![k] = v]
    PROVE  Mapping' = Map!With(k, v)
  <1>1. Pairs \subseteq Key /\ value \in [Key -> Value \cup {Null}]
    BY PairsHaveValues
  <1>2. \A j \in Pairs' : value'[j] = IF j = k THEN v ELSE Mapping[j]
    BY <1>1 DEF Mapping
  <1>3. Mapping' = [j \in Pairs' |-> value'[j]] /\ DOMAIN Mapping = Pairs
    BY DEF Mapping
  <1>4. Map!With(k, v) = [j \in Pairs \cup {k} |-> IF j = k THEN v ELSE Mapping[j]]
    BY <1>3 DEF Map!With, Mapping
  <1>5. QED BY <1>2, <1>3, <1>4

\* A step after which there is no pair.
LEMMA MappingEmpty == ASSUME Pairs' = {} PROVE Mapping' = <<>>
  BY DEF Mapping

\* hashtable_set before it looks for the pair: nothing, or it fails and the
\* table is fit for nothing but to be closed.
LEMMA BeginSetMaps ==
    ASSUME TableInv, NEW k \in Key, NEW v \in Value, BeginSet(k, v)
    PROVE  Map!SetFails \/ UNCHANGED Map!vars
  <1>1. Usable /\ value' = value
    BY DEF BeginSet
  <1>2. rest = <<>> /\ buckets # <<>>
    BY <1>1, UsableIs
  <1>3. CASE /\ pc' = "set" /\ arg' = [key |-> k, value |-> v]
             /\ UNCHANGED <<list, order, buckets, rest, answer, iteration>>
    <2>1. Pairs' = Pairs
      BY <1>3 DEF Pairs
    <2>2. Mapping' = Mapping /\ Usage' = Usage /\ answer' = answer
      BY <1>1, <1>3, <2>1, MappingStays DEF Usage
    <2>3. QED BY <2>2 DEF Map!vars, Mapping, Usage
  <1>4. CASE /\ order' = order + 1 /\ buckets' = EmptyBuckets(order + 1)
             /\ rest' = list /\ list' = <<>> /\ answer' = answer
    <2>1. Pairs' = Pairs
      BY <1>2, <1>4, NoKeys DEF Pairs
    <2>2. buckets' # <<>>
      <3>1. order' \in Nat /\ buckets' = EmptyBuckets(order')
        BY <1>4, InvIs DEF TableTyped
      <3>2. QED BY <3>1, <1>4, EmptySound, SoundIsNext
    <2>3. Mapping' = Mapping /\ Usage' = Usage
      BY <1>1, <1>2, <2>1, <2>2, MappingStays DEF Usage
    <2>4. QED BY <1>4, <2>3 DEF Map!vars, Mapping, Usage
  <1>5. CASE buckets' = <<>> /\ answer' = "fail" /\ UNCHANGED <<list, rest>>
    <2>1. Pairs' = Pairs
      BY <1>5 DEF Pairs
    <2>2. Mapping' = Mapping /\ Usage = TRUE /\ Usage' \in BOOLEAN
      BY <1>1, <1>2, <2>1, MappingStays DEF Usage
    <2>3. QED BY <1>5, <2>2 DEF Map!SetFails, Mapping, Usage
  <1>6. QED BY <1>3, <1>4, <1>5 DEF BeginSet

\* hashtable_set: the pair is there with its value, or nothing has changed.
LEMMA SetMaps ==
    ASSUME TableInv, Set
    PROVE  Map!SetFails \/ \E k \in Key, v \in Value : Map!Set(k, v)
  <1>1. /\ buckets # <<>> /\ buckets' # <<>> /\ arg.key \in Key /\ arg.value \in Value
        /\ \/ /\ answer' = "ok" /\ Pairs' = Pairs \cup {arg.key}
              /\ value' = [value EXCEPT ![arg.key] = arg.value]
           \/ /\ answer' = "fail" /\ Pairs' = Pairs /\ value' = value
    BY SetStep
  <1>2. Usage = TRUE /\ Usage' = Usage /\ Usage' \in BOOLEAN
    BY <1>1 DEF Usage
  <1>3. CASE /\ answer' = "ok" /\ Pairs' = Pairs \cup {arg.key}
             /\ value' = [value EXCEPT ![arg.key] = arg.value]
    <2>1. Mapping' = Map!With(arg.key, arg.value)
      BY <1>1, <1>3, MappingSet
    <2>2. PICK k \in Key, v \in Value : k = arg.key /\ v = arg.value
      BY <1>1
    <2>3. Map!Set(k, v)
      BY <1>2, <1>3, <2>1, <2>2 DEF Map!Set, Mapping, Usage
    <2>4. QED BY ONLY <2>3
  <1>4. CASE answer' = "fail" /\ Pairs' = Pairs /\ value' = value
    <2>1. Mapping' = Mapping
      BY <1>4, MappingStays
    <2>2. QED BY <1>2, <1>4, <2>1 DEF Map!SetFails, Mapping, Usage
  <1>5. QED BY <1>1, <1>3, <1>4

\* hashtable_get, hashtable_del and hashtable_iter_at
LEMMA LookupMaps ==
    ASSUME TableInv, NEW k \in Key
    PROVE  /\ Get(k) => Map!Get(k)
           /\ Del(k) => Map!Del(k)
           /\ IterAt(k) => UNCHANGED Map!vars
  <1>1. DOMAIN Mapping = Pairs /\ \A j \in Pairs : Mapping[j] = value[j]
    BY DEF Mapping
  <1>2. ASSUME Get(k) PROVE Map!Get(k)
    <2>1. /\ Pairs' = Pairs /\ value' = value /\ buckets # <<>> /\ buckets' = buckets
          /\ answer' = IF k \in Pairs THEN value[k] ELSE Null
      BY <1>2, GetStep
    <2>2. Usage = TRUE /\ Usage' = Usage
      BY <2>1 DEF Usage
    <2>3. Mapping' = Mapping
      BY <2>1, MappingStays
    <2>4. answer' = IF k \in DOMAIN Mapping THEN Mapping[k] ELSE Null
      BY <1>1, <2>1
    <2>5. QED BY <2>2, <2>3, <2>4 DEF Map!Get, Mapping, Usage
  <1>3. ASSUME Del(k) PROVE Map!Del(k)
    <2>1. /\ buckets # <<>> /\ buckets' # <<>>
          /\ Pairs' = Pairs \ {k} /\ (\A j \in Pairs' : value'[j] = value[j])
          /\ answer' = IF k \in Pairs THEN "ok" ELSE "fail"
      BY <1>3, DelStep
    <2>2. Usage = TRUE /\ Usage' = Usage
      BY <2>1 DEF Usage
    <2>3. Mapping' = [j \in Pairs \ {k} |-> Mapping[j]]
      <3>1. Mapping' = [j \in Pairs' |-> value'[j]]
        BY DEF Mapping
      <3>2. QED BY <1>1, <2>1, <3>1
    <2>4. Mapping' = Map!Without(k)
      BY <1>1, <2>3 DEF Map!Without, Mapping
    <2>5. answer' = IF k \in DOMAIN Mapping THEN "ok" ELSE "fail"
      BY <1>1, <2>1
    <2>6. QED BY <2>2, <2>4, <2>5 DEF Map!Del, Mapping, Usage
  <1>4. ASSUME IterAt(k) PROVE UNCHANGED Map!vars
    <2>1. Pairs' = Pairs /\ value' = value /\ buckets' = buckets /\ answer' = answer
      BY <1>4, IterAtStep DEF IterAt, table
    <2>2. Mapping' = Mapping /\ Usage' = Usage
      BY <2>1, MappingStays DEF Usage
    <2>3. QED BY <2>1, <2>2 DEF Map!vars, Mapping, Usage
  <1>5. QED BY <1>2, <1>3, <1>4

\* hashtable_clear, and hashtable_close with the next hashtable_init
LEMMA EmptyMaps ==
    ASSUME TableInv
    PROVE  (Clear => Map!Clear) /\ (CloseAndInit => Map!Close)
  <1>1. ASSUME Clear PROVE Map!Clear
    <2>1. buckets # <<>> /\ buckets' # <<>> /\ Pairs' = {} /\ answer' = "ok"
      BY <1>1, ClearStep
    <2>2. Usage = TRUE /\ Usage' = Usage
      BY <2>1 DEF Usage
    <2>3. QED BY <2>1, <2>2, MappingEmpty DEF Map!Clear, Mapping, Usage
  <1>2. ASSUME CloseAndInit PROVE Map!Close
    <2>1. buckets' # <<>> /\ Pairs' = {} /\ answer' = "ok"
      BY <1>2, CloseStep
    <2>2. Usage' = TRUE
      BY <2>1 DEF Usage
    <2>3. QED BY <2>1, <2>2, MappingEmpty DEF Map!Close, Mapping, Usage
  <1>3. QED BY <1>1, <1>2

\* hashtable_iter_set
LEMMA IterSetMaps ==
    ASSUME TableInv, NEW v \in Value, IterSet(v)
    PROVE  \E k \in Key : Map!Replace(k, v)
  <1>1. /\ Pairs' = Pairs /\ iter \in Pairs /\ value' = [value EXCEPT ![iter] = v]
        /\ buckets' = buckets /\ answer' = answer
    BY IterSetStep
  <1>2. PICK k \in Key : k = iter /\ k \in Pairs
    BY <1>1, PairsHaveValues
  <1>3. Pairs' = Pairs \cup {k} /\ value' = [value EXCEPT ![k] = v]
    BY <1>1, <1>2
  <1>4. Mapping' = Map!With(k, v)
    BY <1>3, MappingSet
  <1>5. k \in DOMAIN Mapping /\ Usage' = Usage
    BY <1>1, <1>2 DEF Mapping, Usage
  <1>6. Map!Replace(k, v)
    BY <1>1, <1>4, <1>5 DEF Map!Replace, Mapping, Usage
  <1>7. QED BY <1>6

\* The steps inside hashtable_set and those of the iterator change nothing of
\* the map.
LEMMA QuietMaps ==
    ASSUME TableInv, Rehash \/ Iter \/ IterNext \/ UNCHANGED vars
    PROVE  UNCHANGED Map!vars
  <1>1. Pairs' = Pairs /\ value' = value /\ answer' = answer
    <2>1. CASE Rehash
      BY <2>1, RehashStep DEF Rehash
    <2>2. CASE Iter
      BY <2>2, IterStep DEF Iter, table
    <2>3. CASE IterNext
      BY <2>3, IterNextStep DEF IterNext, table
    <2>4. CASE UNCHANGED vars
      BY <2>4 DEF vars, table, call, Pairs
    <2>5. QED BY <2>1, <2>2, <2>3, <2>4
  <1>2. (buckets' # <<>>) = (buckets # <<>>)
    <2>1. CASE Rehash
      <3>1. pc # "idle" /\ pc' # "idle"
        BY <2>1 DEF Rehash
      <3>2. Placed /\ Placed'
        BY <2>1, RehashStep, InvIs DEF TableInv
      <3>3. QED BY <3>1, <3>2 DEF Placed
    <2>2. CASE Iter
      BY <2>2 DEF Iter, table
    <2>3. CASE IterNext
      BY <2>3 DEF IterNext, table
    <2>4. CASE UNCHANGED vars
      BY <2>4 DEF vars, table
    <2>5. QED BY <2>1, <2>2, <2>3, <2>4
  <1>3. Mapping' = Mapping /\ Usage' = Usage
    BY <1>1, <1>2, MappingStays DEF Usage
  <1>4. QED BY <1>1, <1>3 DEF Map!vars, Mapping, Usage

\* Every step is one of the map's.
LEMMA StepIsMapped == TableInv /\ [Next]_vars => [Map!Next]_(Map!vars)
  <1> SUFFICES ASSUME TableInv, [Next]_vars PROVE [Map!Next]_(Map!vars)
    OBVIOUS
  <1>1. ASSUME NEW k \in Key, NEW v \in Value, BeginSet(k, v)
        PROVE  [Map!Next]_(Map!vars)
    BY <1>1, BeginSetMaps DEF Map!Next
  <1>2. CASE Set
    BY <1>2, SetMaps DEF Map!Next
  <1>3. ASSUME NEW k \in Key, Get(k) \/ Del(k) \/ IterAt(k)
        PROVE  [Map!Next]_(Map!vars)
    BY <1>3, LookupMaps DEF Map!Next
  <1>4. CASE Clear \/ CloseAndInit
    BY <1>4, EmptyMaps DEF Map!Next
  <1>5. ASSUME NEW v \in Value, IterSet(v)
        PROVE  [Map!Next]_(Map!vars)
    BY <1>5, IterSetMaps DEF Map!Next
  <1>6. CASE Rehash \/ Iter \/ IterNext \/ UNCHANGED vars
    BY <1>6, QuietMaps
  <1>7. QED BY <1>1, <1>2, <1>3, <1>4, <1>5, <1>6 DEF Next

\* What hashtable.h promises: each call answers and changes the pairs as a map
\* does, through growing, moved and emptied buckets; a call that runs out of
\* memory changes nothing, though the table may have to be closed.
THEOREM TableIsAMap == Spec => ImplementsKeyMap
  <1>1. ASSUME Init PROVE Map!Init
    <2>1. Pairs = {} /\ answer = "ok"
      BY <1>1, NoKeys DEF Init, Pairs
    <2>2. buckets # <<>>
      <3>1. TableInv /\ pc = "idle" /\ InitialOrder \in Nat /\ order = InitialOrder
        BY <1>1, InitTableInv, HashtableAssumption DEF Init
      <3>2. buckets \in [0 .. HashSize(InitialOrder) - 1 -> Bucket]
        <4>1. NoPair \in Bucket
          BY DEF NoPair, Bucket
        <4>2. QED BY <1>1, <4>1 DEF Init, EmptyBuckets
      <3>3. QED BY <3>1, <3>2, HasBuckets
    <2>3. Mapping = <<>> /\ Usage = TRUE
      BY <2>1, <2>2 DEF Mapping, Usage
    <2>4. QED BY <2>1, <2>3 DEF Map!Init, Mapping, Usage
  <1>2. QED
    BY <1>1, StepIsMapped, TableInvariance, PTL DEF Spec, ImplementsKeyMap, Map!Spec

=============================================================================
