----------------------------- MODULE SequenceCounts -----------------------------
(***************************************************************************)
(* How many of the first elements of a sequence lie in a set, and how many *)
(* tasks of a function stand at a set of places: the two counts that the   *)
(* invariants over queues and program counters are made of, and what the   *)
(* steps of a queue (Append, Tail, RemoveAt, \o) do to them.               *)
(***************************************************************************)
EXTENDS SequencesExt, SequenceTheorems, FiniteSetTheorems, FunctionTheorems, TLAPS

\* The positions among the first n whose element is in S, and their number.
Places(S, s, n) == {i \in 1 .. n : s[i] \in S}
CountTo(S, s, n) == Cardinality(Places(S, s, n))
CountIn(S, s) == CountTo(S, s, Len(s))

Hit(S, x) == IF x \in S THEN 1 ELSE 0

\* The tasks of T that f puts in P.
Among(T, f, P) == {t \in T : f[t] \in P}

-------------------------------------------------------------------------------
(* Counting a prefix *)

LEMMA CountType ==
  ASSUME NEW S, NEW s, NEW n \in Nat
  PROVE  /\ IsFiniteSet(Places(S, s, n))
         /\ CountTo(S, s, n) \in Nat
         /\ CountTo(S, s, n) <= n
  <1>1. IsFiniteSet(1 .. n) /\ Cardinality(1 .. n) = n
    BY FS_Interval
  <1>2. Places(S, s, n) \in SUBSET (1 .. n)
    BY DEF Places
  <1>3. IsFiniteSet(Places(S, s, n)) /\ Cardinality(Places(S, s, n)) <= n
    BY <1>1, <1>2, FS_Subset
  <1>4. Cardinality(Places(S, s, n)) \in Nat
    BY <1>3, FS_CardinalityType
  <1>5. QED
    BY <1>3, <1>4 DEF CountTo

LEMMA CountZero ==
  ASSUME NEW S, NEW s
  PROVE  CountTo(S, s, 0) = 0
  <1>1. Places(S, s, 0) = {}
    BY DEF Places
  <1>2. QED
    BY <1>1, FS_EmptySet DEF CountTo

LEMMA CountStep ==
  ASSUME NEW S, NEW s, NEW n \in Nat
  PROVE  CountTo(S, s, n + 1) = CountTo(S, s, n) + Hit(S, s[n + 1])
  <1>1. IsFiniteSet(Places(S, s, n)) /\ n + 1 \notin Places(S, s, n)
    <2>1. n + 1 \notin Places(S, s, n)
      BY DEF Places
    <2>2. QED
      BY <2>1, CountType
  <1>2. CASE s[n + 1] \in S
    <2>1. Places(S, s, n + 1) = Places(S, s, n) \cup {n + 1}
      BY <1>2 DEF Places
    <2>2. QED
      BY <1>1, <1>2, <2>1, FS_AddElement DEF CountTo, Hit
  <1>3. CASE s[n + 1] \notin S
    <2>1. Places(S, s, n + 1) = Places(S, s, n)
      BY <1>3 DEF Places
    <2>2. QED
      BY <1>3, <2>1, CountType DEF CountTo, Hit
  <1>4. QED
    BY <1>2, <1>3

\* The count depends on which elements are in the set only.
LEMMA CountSame ==
  ASSUME NEW S, NEW T, NEW s, NEW t, NEW n \in Nat,
         \A i \in 1 .. n : s[i] \in S <=> t[i] \in T
  PROVE  CountTo(S, s, n) = CountTo(T, t, n)
  BY DEF CountTo, Places

LEMMA CountGrows ==
  ASSUME NEW S, NEW s, NEW m \in Nat, NEW n \in Nat, m <= n
  PROVE  CountTo(S, s, m) <= CountTo(S, s, n)
  <1>1. Places(S, s, m) \in SUBSET Places(S, s, n)
    BY DEF Places
  <1>2. QED
    BY <1>1, CountType, FS_Subset DEF CountTo

\* Moving everything one place down loses the first element only.
LEMMA CountShift ==
  ASSUME NEW S, NEW s, NEW T, NEW t, NEW n \in Nat,
         \A i \in 1 .. n : t[i] \in T <=> s[i + 1] \in S
  PROVE  CountTo(S, s, n + 1) = Hit(S, s[1]) + CountTo(T, t, n)
  <1> DEFINE Rest == {j \in 2 .. n + 1 : s[j] \in S}
             f == [i \in Places(T, t, n) |-> i + 1]
  <1>1. ExistsBijection(Places(T, t, n), Rest)
    <2>1. f \in [Places(T, t, n) -> Rest]
      BY DEF Places
    <2>2. \A a, b \in Places(T, t, n) : f[a] = f[b] => a = b
      BY DEF Places
    <2>3. \A j \in Rest : \E i \in Places(T, t, n) : f[i] = j
      <3> SUFFICES ASSUME NEW j \in Rest
                   PROVE  j - 1 \in Places(T, t, n) /\ f[j - 1] = j
        OBVIOUS
      <3>1. j - 1 \in 1 .. n /\ (j - 1) + 1 = j
        OBVIOUS
      <3>2. j - 1 \in Places(T, t, n)
        BY <3>1 DEF Places
      <3>3. QED
        BY <3>1, <3>2
    <2> HIDE DEF f, Rest
    <2>4. QED
      BY <2>1, <2>2, <2>3, Fun_IsBij DEF ExistsBijection
  <1>2. IsFiniteSet(Rest) /\ Cardinality(Rest) = CountTo(T, t, n)
    BY <1>1, CountType, FS_Bijection DEF CountTo
  <1>3. CASE s[1] \in S
    <2>1. Places(S, s, n + 1) = Rest \cup {1} /\ 1 \notin Rest
      BY <1>3 DEF Places
    <2> HIDE DEF Rest
    <2>2. QED
      BY <1>2, <1>3, <2>1, FS_AddElement, CountType DEF CountTo, Hit
  <1>4. CASE s[1] \notin S
    <2>1. Places(S, s, n + 1) = Rest
      BY <1>4 DEF Places
    <2>2. QED
      BY <1>2, <1>4, <2>1, CountType DEF CountTo, Hit
  <1>5. QED
    BY <1>3, <1>4

\* The count of a sequence split in two.
LEMMA CountSplit ==
  ASSUME NEW S, NEW s, NEW T, NEW t, NEW m \in Nat, NEW n \in Nat,
         \A i \in 1 .. n : t[i] \in T <=> s[m + i] \in S
  PROVE  CountTo(S, s, m + n) = CountTo(S, s, m) + CountTo(T, t, n)
  <1> DEFINE Rest == {j \in m + 1 .. m + n : s[j] \in S}
             f == [i \in Places(T, t, n) |-> m + i]
  <1>1. ExistsBijection(Places(T, t, n), Rest)
    <2>1. f \in [Places(T, t, n) -> Rest]
      BY DEF Places
    <2>2. \A a, b \in Places(T, t, n) : f[a] = f[b] => a = b
      BY DEF Places
    <2>3. \A j \in Rest : \E i \in Places(T, t, n) : f[i] = j
      <3> SUFFICES ASSUME NEW j \in Rest
                   PROVE  j - m \in Places(T, t, n) /\ f[j - m] = j
        OBVIOUS
      <3>1. j - m \in 1 .. n /\ m + (j - m) = j
        OBVIOUS
      <3>2. j - m \in Places(T, t, n)
        BY <3>1 DEF Places
      <3>3. QED
        BY <3>1, <3>2
    <2> HIDE DEF f, Rest
    <2>4. QED
      BY <2>1, <2>2, <2>3, Fun_IsBij DEF ExistsBijection
  <1>2. IsFiniteSet(Rest) /\ Cardinality(Rest) = CountTo(T, t, n)
    BY <1>1, CountType, FS_Bijection DEF CountTo
  <1>3. Places(S, s, m + n) = Places(S, s, m) \cup Rest /\ Places(S, s, m) \cap Rest = {}
    BY DEF Places
  <1>4. IsFiniteSet(Places(S, s, m)) /\ CountTo(S, s, m) \in Nat
    BY CountType
  <1> HIDE DEF Rest
  <1>5. Cardinality(Places(S, s, m) \cup Rest)
          = CountTo(S, s, m) + CountTo(T, t, n) - Cardinality({})
    BY <1>2, <1>3, <1>4, FS_Union DEF CountTo
  <1>6. Cardinality({}) = 0
    BY FS_EmptySet
  <1>7. CountTo(T, t, n) \in Nat
    BY CountType
  <1>8. CountTo(S, s, m + n) = Cardinality(Places(S, s, m) \cup Rest)
    BY <1>3 DEF CountTo
  <1>9. QED
    BY <1>4, <1>5, <1>6, <1>7, <1>8

LEMMA CountDisjoint ==
  ASSUME NEW S, NEW T, NEW s, NEW n \in Nat, S \cap T = {}
  PROVE  CountTo(S \cup T, s, n) = CountTo(S, s, n) + CountTo(T, s, n)
  <1>1. Places(S \cup T, s, n) = Places(S, s, n) \cup Places(T, s, n)
        /\ Places(S, s, n) \cap Places(T, s, n) = {}
    BY DEF Places
  <1>2. IsFiniteSet(Places(S, s, n)) /\ IsFiniteSet(Places(T, s, n))
    BY CountType
  <1>3. Cardinality({}) = 0
    BY FS_EmptySet
  <1>4. CountTo(S, s, n) \in Nat /\ CountTo(T, s, n) \in Nat
    BY CountType
  <1>5. Cardinality(Places(S, s, n) \cup Places(T, s, n))
          = CountTo(S, s, n) + CountTo(T, s, n) - Cardinality({})
    BY <1>1, <1>2, FS_Union DEF CountTo
  <1>6. CountTo(S \cup T, s, n) = Cardinality(Places(S, s, n) \cup Places(T, s, n))
    BY <1>1 DEF CountTo
  <1>7. QED
    BY <1>3, <1>4, <1>5, <1>6

\* Between two counted positions the count goes up.
LEMMA CountOrders ==
  ASSUME NEW S, NEW s, NEW i \in Nat \ {0}, NEW j \in Nat \ {0}, i < j, s[j] \in S
  PROVE  CountTo(S, s, i) < CountTo(S, s, j)
  <1>1. CountTo(S, s, (j - 1) + 1) = CountTo(S, s, j - 1) + Hit(S, s[(j - 1) + 1])
    BY CountStep
  <1>2. CountTo(S, s, i) <= CountTo(S, s, j - 1)
    BY CountGrows
  <1>3. (j - 1) + 1 = j /\ j - 1 \in Nat
    OBVIOUS
  <1>4. CountTo(S, s, j) = CountTo(S, s, j - 1) + 1
    BY <1>1, <1>3 DEF Hit
  <1>5. QED
    BY <1>2, <1>3, <1>4, CountType

LEMMA CountAt ==
  ASSUME NEW S, NEW s, NEW i \in Nat \ {0}, s[i] \in S
  PROVE  CountTo(S, s, i) >= 1
  <1>1. CountTo(S, s, (i - 1) + 1) = CountTo(S, s, i - 1) + Hit(S, s[(i - 1) + 1])
    BY CountStep
  <1>2. CountTo(S, s, i - 1) \in Nat /\ (i - 1) + 1 = i
    BY CountType
  <1>3. QED
    BY <1>1, <1>2 DEF Hit

\* Each number up to the count is the count at an element of the set.
LEMMA CountReaches ==
  ASSUME NEW S, NEW s, NEW m \in Nat, NEW n \in 1 .. CountTo(S, s, m)
  PROVE  \E i \in 1 .. m : s[i] \in S /\ CountTo(S, s, i) = n
  <1> DEFINE Late == {i \in 0 .. m : CountTo(S, s, i) >= n}
  <1>1. m \in Late /\ Late \subseteq Nat /\ CountTo(S, s, m) \in Nat
    BY CountType
  <1>2. PICK i \in Late : \A j \in Late : i <= j
    <2> DEFINE Less == {ss \in Nat \X Nat : ss[1] < ss[2]}
    <2>1. IsWellFoundedOn(Less, Nat)
      BY NatLessThanWellFounded DEF OpToRel
    <2> HIDE DEF Late
    <2>2. PICK i \in Late : \A j \in Late : ~(<<j, i>> \in Less)
      <3> HIDE DEF Less
      <3> QED
        BY <1>1, <2>1, WFMin
    <2>3. ASSUME NEW j \in Late PROVE i <= j
      <3>1. i \in Nat /\ j \in Nat
        BY <1>1
      <3>2. ~(<<j, i>> \in Less)
        BY <2>2
      <3>3. QED
        BY <3>1, <3>2
    <2>4. QED
      BY <2>3
  <1>3. i # 0
    BY CountZero, CountType
  <1>4. i - 1 \in Nat /\ i - 1 \in 0 .. m /\ (i - 1) + 1 = i /\ i \in 1 .. m
    BY <1>3
  <1>5. CountTo(S, s, i - 1) \in Nat /\ CountTo(S, s, i) \in Nat
    BY <1>4, CountType
  <1>6. CountTo(S, s, i - 1) < n
    BY <1>2, <1>4, <1>5
  <1>7. CountTo(S, s, i) = CountTo(S, s, i - 1) + Hit(S, s[i])
    BY <1>4, CountStep
  <1>8. QED
    BY <1>2, <1>4, <1>5, <1>6, <1>7 DEF Hit

-------------------------------------------------------------------------------
(* The steps of a queue *)

LEMMA CountInType ==
  ASSUME NEW S, NEW X, NEW s \in Seq(X)
  PROVE  CountIn(S, s) \in Nat
  <1>1. Len(s) \in Nat
    BY LenProperties
  <1>2. QED
    BY <1>1, CountType DEF CountIn

LEMMA CountInEmpty ==
  ASSUME NEW S
  PROVE  CountIn(S, <<>>) = 0
  <1>1. Len(<<>>) = 0
    BY EmptySeq
  <1>2. QED
    BY <1>1, CountZero DEF CountIn

\* Nothing of s is in S: the usual way to see that a count is 0.
LEMMA CountInNone ==
  ASSUME NEW S, NEW X, NEW s \in Seq(X), \A i \in 1 .. Len(s) : s[i] \notin S
  PROVE  CountIn(S, s) = 0
  <1>1. Places(S, s, Len(s)) = {}
    BY DEF Places
  <1>2. QED
    BY <1>1, FS_EmptySet DEF CountIn, CountTo

LEMMA CountAppend ==
  ASSUME NEW S, NEW X, NEW s \in Seq(X), NEW e \in X
  PROVE  /\ \A n \in 0 .. Len(s) : CountTo(S, Append(s, e), n) = CountTo(S, s, n)
         /\ CountIn(S, Append(s, e)) = CountIn(S, s) + Hit(S, e)
  <1> DEFINE t == Append(s, e)
  <1>1. /\ Len(s) \in Nat /\ Len(t) = Len(s) + 1
        /\ t[Len(s) + 1] = e
        /\ \A i \in 1 .. Len(s) : t[i] = s[i]
    BY AppendProperties, LenProperties
  <1> HIDE DEF t
  <1>2. ASSUME NEW n \in 0 .. Len(s) PROVE CountTo(S, t, n) = CountTo(S, s, n)
    <2>1. n \in Nat /\ \A i \in 1 .. n : t[i] \in S <=> s[i] \in S
      BY <1>1
    <2>2. QED
      BY <2>1, CountSame
  <1>3. CountTo(S, t, Len(s) + 1) = CountTo(S, t, Len(s)) + Hit(S, e)
    BY <1>1, CountStep
  <1>4. CountTo(S, t, Len(s)) = CountTo(S, s, Len(s))
    BY <1>1, <1>2
  <1>5. QED
    BY <1>1, <1>2, <1>3, <1>4 DEF t, CountIn

LEMMA CountTail ==
  ASSUME NEW S, NEW X, NEW s \in Seq(X), s # <<>>
  PROVE  /\ \A n \in 0 .. Len(Tail(s)) :
                CountTo(S, s, n + 1) = Hit(S, Head(s)) + CountTo(S, Tail(s), n)
         /\ CountIn(S, s) = Hit(S, Head(s)) + CountIn(S, Tail(s))
  <1> DEFINE t == Tail(s)
  <1>1. /\ Len(t) = Len(s) - 1 /\ Len(s) \in Nat \ {0} /\ Head(s) = s[1]
        /\ \A i \in 1 .. Len(t) : t[i] = s[i + 1]
    BY HeadTailProperties, EmptySeq
  <1> HIDE DEF t
  <1>2. ASSUME NEW n \in 0 .. Len(t)
        PROVE  CountTo(S, s, n + 1) = Hit(S, s[1]) + CountTo(S, t, n)
    <2>1. n \in Nat /\ \A i \in 1 .. n : t[i] \in S <=> s[i + 1] \in S
      BY <1>1
    <2>2. QED
      BY <2>1, CountShift
  <1>3. Len(t) \in 0 .. Len(t) /\ Len(t) + 1 = Len(s)
    BY <1>1
  <1>4. CountIn(S, s) = Hit(S, s[1]) + CountIn(S, t)
    BY <1>2, <1>3 DEF CountIn
  <1>5. QED
    BY <1>1, <1>2, <1>4 DEF t

\* A queue is appended to another.
LEMMA CountConcat ==
  ASSUME NEW S, NEW X, NEW s \in Seq(X), NEW t \in Seq(X)
  PROVE  CountIn(S, s \o t) = CountIn(S, s) + CountIn(S, t)
  <1> DEFINE u == s \o t
  <1>1. /\ Len(s) \in Nat /\ Len(t) \in Nat /\ Len(u) = Len(s) + Len(t)
        /\ \A i \in 1 .. Len(s) : u[i] = s[i]
        /\ \A i \in 1 .. Len(t) : u[Len(s) + i] = t[i]
    BY ConcatProperties, LenProperties
  <1> HIDE DEF u
  <1>2. CountTo(S, u, Len(s) + Len(t)) = CountTo(S, u, Len(s)) + CountTo(S, t, Len(t))
    <2> DEFINE m == Len(s)
               n == Len(t)
    <2>1. m \in Nat /\ n \in Nat
      BY <1>1
    <2>2. \A i \in 1 .. n : t[i] \in S <=> u[m + i] \in S
      BY <1>1
    <2> HIDE DEF m, n
    <2>3. CountTo(S, u, m + n) = CountTo(S, u, m) + CountTo(S, t, n)
      BY <2>1, <2>2, CountSplit
    <2>4. QED
      BY <2>3 DEF m, n
  <1>3. CountTo(S, u, Len(s)) = CountTo(S, s, Len(s))
    BY <1>1, CountSame
  <1>4. QED
    BY <1>1, <1>2, <1>3 DEF u, CountIn

\* The element at one place is taken out.
LEMMA RemoveAtIs ==
  ASSUME NEW X, NEW s \in Seq(X), NEW k \in 1 .. Len(s)
  PROVE  /\ RemoveAt(s, k) \in Seq(X)
         /\ Len(RemoveAt(s, k)) = Len(s) - 1
         /\ \A i \in 1 .. k - 1 : RemoveAt(s, k)[i] = s[i]
         /\ \A i \in k .. Len(s) - 1 : RemoveAt(s, k)[i] = s[i + 1]
  <1> DEFINE a == SubSeq(s, 1, k - 1)
             b == SubSeq(s, k + 1, Len(s))
  <1>1. Len(s) \in Nat /\ k \in Nat /\ \A i \in 1 .. Len(s) : s[i] \in X
    BY ElementOfSeq, LenProperties
  <1>2. a \in Seq(X) /\ Len(a) = k - 1 /\ \A i \in 1 .. k - 1 : a[i] = s[i]
    <2>1. 1 \in Int /\ k - 1 \in Int /\ \A i \in 1 .. k - 1 : s[i] \in X
      BY <1>1
    <2>2. /\ a \in Seq(X) /\ Len(a) = IF 1 <= k - 1 THEN (k - 1) - 1 + 1 ELSE 0
          /\ \A i \in 1 .. (k - 1) - 1 + 1 : a[i] = s[1 + i - 1]
      BY <2>1, SubSeqProperties
    <2>3. QED
      BY <1>1, <2>2
  <1>3. b \in Seq(X) /\ Len(b) = Len(s) - k /\ \A i \in 1 .. Len(s) - k : b[i] = s[k + i]
    <2>1. k + 1 \in Int /\ Len(s) \in Int /\ \A i \in k + 1 .. Len(s) : s[i] \in X
      BY <1>1
    <2>2. /\ b \in Seq(X) /\ Len(b) = IF k + 1 <= Len(s) THEN Len(s) - (k + 1) + 1 ELSE 0
          /\ \A i \in 1 .. Len(s) - (k + 1) + 1 : b[i] = s[(k + 1) + i - 1]
      BY <2>1, SubSeqProperties
    <2>3. QED
      BY <1>1, <2>2
  <1> HIDE DEF a, b
  <1>4. /\ a \o b \in Seq(X) /\ Len(a \o b) = Len(a) + Len(b)
        /\ \A i \in 1 .. Len(a) + Len(b) :
              (a \o b)[i] = IF i <= Len(a) THEN a[i] ELSE b[i - Len(a)]
    BY <1>2, <1>3, ConcatProperties
  <1>5. RemoveAt(s, k) = a \o b
    BY DEF RemoveAt, a, b
  <1>6. \A i \in 1 .. k - 1 : (a \o b)[i] = s[i]
    BY <1>1, <1>2, <1>3, <1>4
  <1>7. \A i \in k .. Len(s) - 1 : (a \o b)[i] = s[i + 1]
    <2> SUFFICES ASSUME NEW i \in k .. Len(s) - 1 PROVE (a \o b)[i] = s[i + 1]
      OBVIOUS
    <2>1. i - (k - 1) \in 1 .. Len(s) - k /\ k + (i - (k - 1)) = i + 1
      BY <1>1
    <2>2. (a \o b)[i] = b[i - (k - 1)]
      <3>1. i \in 1 .. Len(a) + Len(b) /\ ~(i <= Len(a))
        BY <1>1, <1>2, <1>3
      <3>2. QED
        BY <1>2, <1>4, <3>1
    <2>3. QED
      BY <1>3, <2>1, <2>2
  <1>8. Len(a \o b) = Len(s) - 1
    BY <1>1, <1>2, <1>3, <1>4
  <1>9. QED
    BY <1>4, <1>5, <1>6, <1>7, <1>8

LEMMA CountRemoveAt ==
  ASSUME NEW S, NEW X, NEW s \in Seq(X), NEW k \in 1 .. Len(s)
  PROVE  CountIn(S, s) = CountIn(S, RemoveAt(s, k)) + Hit(S, s[k])
  <1> DEFINE r == RemoveAt(s, k)
             n == Len(s) - k
             u == [i \in 1 .. n |-> s[k + i]]
  <1>1. Len(s) \in Nat /\ k \in Nat \ {0} /\ n \in Nat /\ k - 1 \in Nat /\ (k - 1) + 1 = k
        /\ k + n = Len(s) /\ (k - 1) + n = Len(s) - 1
    BY LenProperties
  <1>2. /\ Len(r) = Len(s) - 1
        /\ \A i \in 1 .. k - 1 : r[i] = s[i]
        /\ \A i \in 1 .. n : r[(k - 1) + i] = s[k + i]
    <2>1. /\ Len(r) = Len(s) - 1
          /\ \A i \in 1 .. k - 1 : r[i] = s[i]
          /\ \A i \in k .. Len(s) - 1 : r[i] = s[i + 1]
      BY RemoveAtIs
    <2> HIDE DEF r
    <2>2. ASSUME NEW i \in 1 .. n PROVE r[(k - 1) + i] = s[k + i]
      <3>1. (k - 1) + i \in k .. Len(s) - 1 /\ ((k - 1) + i) + 1 = k + i
        BY <1>1
      <3>2. QED
        BY <2>1, <3>1
    <2>3. QED
      BY <2>1, <2>2
  <1>3. \A i \in 1 .. n : u[i] = s[k + i]
    OBVIOUS
  <1> HIDE DEF r, n, u
  <1>4. CountTo(S, s, k + n) = CountTo(S, s, k) + CountTo(S, u, n)
    <2>1. \A i \in 1 .. n : u[i] \in S <=> s[k + i] \in S
      BY <1>3
    <2>2. k \in Nat /\ n \in Nat
      BY <1>1
    <2>3. QED
      BY <2>1, <2>2, CountSplit
  <1>5. CountTo(S, r, (k - 1) + n) = CountTo(S, r, k - 1) + CountTo(S, u, n)
    <2>1. \A i \in 1 .. n : u[i] \in S <=> r[(k - 1) + i] \in S
      BY <1>2, <1>3
    <2>2. QED
      BY <1>1, <2>1, CountSplit
  <1>6. CountTo(S, r, k - 1) = CountTo(S, s, k - 1)
    BY <1>1, <1>2, CountSame
  <1>7. CountTo(S, s, (k - 1) + 1) = CountTo(S, s, k - 1) + Hit(S, s[(k - 1) + 1])
    BY <1>1, CountStep
  <1>8. CountTo(S, s, k - 1) \in Nat /\ CountTo(S, u, n) \in Nat /\ Hit(S, s[k]) \in Nat
    <2>1. Hit(S, s[k]) \in Nat
      BY DEF Hit
    <2>2. QED
      BY <1>1, <2>1, CountType
  <1>9. CountTo(S, s, Len(s)) = CountTo(S, r, Len(r)) + Hit(S, s[k])
    BY <1>1, <1>2, <1>4, <1>5, <1>6, <1>7, <1>8
  <1>10. QED
    BY <1>9 DEF CountIn, r

\* What is counted lies somewhere in the sequence.
LEMMA CountPositive ==
  ASSUME NEW S, NEW X, NEW s \in Seq(X), NEW i \in 1 .. Len(s), s[i] \in S
  PROVE  CountIn(S, s) > 0
  <1>1. Len(s) \in Nat /\ IsFiniteSet(Places(S, s, Len(s)))
    BY LenProperties, CountType
  <1>2. Places(S, s, Len(s)) # {}
    BY DEF Places
  <1>3. Cardinality(Places(S, s, Len(s))) # 0
    BY <1>1, <1>2, FS_EmptySet
  <1>4. QED
    BY <1>1, <1>3, CountType DEF CountIn, CountTo

-------------------------------------------------------------------------------
(* Program counters *)

\* One task moves from one place to another.
LEMMA AmongMove ==
  ASSUME NEW T, NEW f, NEW g, NEW P, IsFiniteSet(Among(T, f, P)),
         NEW k \in T, \A t \in T \ {k} : g[t] = f[t]
  PROVE  /\ IsFiniteSet(Among(T, g, P))
         /\ Cardinality(Among(T, f, P)) \in Nat
         /\ Cardinality(Among(T, g, P))
              = Cardinality(Among(T, f, P)) - Hit(P, f[k]) + Hit(P, g[k])
  <1> DEFINE A == Among(T, f, P)
             B == Among(T, g, P)
  <1>1. Cardinality(A) \in Nat
    BY FS_CardinalityType
  <1>2. CASE f[k] \in P /\ g[k] \in P
    <2>1. A = B
      BY <1>2 DEF Among
    <2>2. QED
      BY <1>1, <1>2, <2>1 DEF Hit
  <1>3. CASE f[k] \in P /\ g[k] \notin P
    <2>1. B = A \ {k} /\ k \in A
      BY <1>3 DEF Among
    <2>2. Hit(P, f[k]) = 1 /\ Hit(P, g[k]) = 0
      BY <1>3 DEF Hit
    <2>3. IsFiniteSet(A)
      OBVIOUS
    <2> HIDE DEF A, B
    <2>4. IsFiniteSet(B) /\ Cardinality(B) = Cardinality(A) - 1
      BY <2>1, <2>3, FS_RemoveElement
    <2>5. QED
      BY <1>1, <2>2, <2>4 DEF A, B
  <1>4. CASE f[k] \notin P /\ g[k] \in P
    <2>1. B = A \cup {k} /\ k \notin A
      BY <1>4 DEF Among
    <2>2. Hit(P, f[k]) = 0 /\ Hit(P, g[k]) = 1
      BY <1>4 DEF Hit
    <2>3. IsFiniteSet(A)
      OBVIOUS
    <2> HIDE DEF A, B
    <2>4. IsFiniteSet(B) /\ Cardinality(B) = Cardinality(A) + 1
      BY <2>1, <2>3, FS_AddElement
    <2>5. QED
      BY <1>1, <2>2, <2>4 DEF A, B
  <1>5. CASE f[k] \notin P /\ g[k] \notin P
    <2>1. A = B
      BY <1>5 DEF Among
    <2>2. QED
      BY <1>1, <1>5, <2>1 DEF Hit
  <1>6. QED
    BY <1>2, <1>3, <1>4, <1>5

===============================================================================
