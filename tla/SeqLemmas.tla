----------------------------- MODULE SeqLemmas -----------------------------
(***************************************************************************)
(* Facts about sequences as lists of distinct elements, used by the proofs *)
(* about the timer's device list, the scheduler's queues and the lists of  *)
(* frames and pages, and about the least elements that the scheduler's     *)
(* scans look for.                                                         *)
(***************************************************************************)
EXTENDS Integers, Sequences, SequencesExt, SequenceTheorems,
        FiniteSetTheorems, WellFoundedInduction, TLAPS

(* No element occurs twice. *)
Distinct(s) == \A i, j \in 1..Len(s) : s[i] = s[j] => i = j

(* What ToSet collects from a sequence. *)
LEMMA ToSetMembers ==
  ASSUME NEW S, NEW s \in Seq(S)
  PROVE  /\ ToSet(s) \subseteq S
         /\ \A e : e \in ToSet(s) <=> \E i \in 1..Len(s) : s[i] = e
<1>1. DOMAIN s = 1..Len(s) /\ \A i \in 1..Len(s) : s[i] \in S
  BY LenProperties
<1>2. QED
  BY <1>1 DEF ToSet

(* The empty list has no element. *)
LEMMA ToSetEmpty == ToSet(<<>>) = {} /\ Distinct(<<>>)
BY DEF ToSet, Distinct

(* Visiting a list of distinct elements: the head is not met again. *)
LEMMA HeadTailDistinct ==
  ASSUME NEW S, NEW s \in Seq(S), s # <<>>
  PROVE  /\ Head(s) \in S
         /\ Tail(s) \in Seq(S)
         /\ ToSet(s) = {Head(s)} \cup ToSet(Tail(s))
         /\ Distinct(s) => /\ Distinct(Tail(s))
                           /\ Head(s) \notin ToSet(Tail(s))
<1>1. /\ Head(s) \in S
      /\ Tail(s) \in Seq(S)
      /\ Len(Tail(s)) = Len(s) - 1
      /\ \A i \in 1..Len(Tail(s)) : Tail(s)[i] = s[i+1]
  BY HeadTailProperties
<1>2. Len(s) \in Nat \ {0} /\ Head(s) = s[1]
  BY EmptySeq
<1>3. \A e : e \in ToSet(s) <=> \E i \in 1..Len(s) : s[i] = e
  BY ToSetMembers
<1>4. \A e : e \in ToSet(Tail(s)) <=> \E i \in 1..Len(Tail(s)) : Tail(s)[i] = e
  BY <1>1, ToSetMembers
<1>5. ToSet(s) = {Head(s)} \cup ToSet(Tail(s))
  <2>1. ASSUME NEW e \in ToSet(s) PROVE e \in {Head(s)} \cup ToSet(Tail(s))
    <3>1. PICK i \in 1..Len(s) : s[i] = e
      BY <2>1, <1>3
    <3>2. CASE i = 1
      BY <3>1, <3>2, <1>2
    <3>3. CASE i # 1
      <4>1. i - 1 \in 1..Len(Tail(s)) /\ Tail(s)[i-1] = e
        BY <3>1, <3>3, <1>1, <1>2
      <4>2. QED
        BY <4>1, <1>4
    <3>4. QED
      BY <3>2, <3>3
  <2>2. Head(s) \in ToSet(s)
    BY <1>2, <1>3
  <2>3. ASSUME NEW e \in ToSet(Tail(s)) PROVE e \in ToSet(s)
    <3>1. PICK i \in 1..Len(Tail(s)) : Tail(s)[i] = e
      BY <2>3, <1>4
    <3>2. i + 1 \in 1..Len(s) /\ s[i+1] = e
      BY <3>1, <1>1, <1>2
    <3>3. QED
      BY <3>2, <1>3
  <2>4. QED
    BY <2>1, <2>2, <2>3
<1>6. ASSUME Distinct(s)
      PROVE  Distinct(Tail(s)) /\ Head(s) \notin ToSet(Tail(s))
  <2>1. Distinct(Tail(s))
    BY <1>6, <1>1, <1>2 DEF Distinct
  <2>2. ASSUME Head(s) \in ToSet(Tail(s)) PROVE FALSE
    <3>1. PICK i \in 1..Len(Tail(s)) : Tail(s)[i] = Head(s)
      BY <2>2, <1>4
    <3>2. i + 1 \in 1..Len(s) /\ s[i+1] = s[1] /\ 1 \in 1..Len(s)
      BY <3>1, <1>1, <1>2
    <3>3. QED
      BY <3>2, <1>6 DEF Distinct
  <2>3. QED
    BY <2>1, <2>2
<1>7. QED
  BY <1>1, <1>5, <1>6

(* Putting a new element in front. *)
LEMMA PrependDistinct ==
  ASSUME NEW S, NEW s \in Seq(S), NEW e \in S
  PROVE  /\ <<e>> \o s \in Seq(S)
         /\ ToSet(<<e>> \o s) = {e} \cup ToSet(s)
         /\ Distinct(s) /\ e \notin ToSet(s) => Distinct(<<e>> \o s)
<1> DEFINE t == <<e>> \o s
<1>1. /\ t \in Seq(S)
      /\ Len(t) = Len(s) + 1
      /\ \A i \in 1..Len(t) : t[i] = IF i = 1 THEN e ELSE s[i-1]
  <2>1. <<e>> \in Seq(S) /\ Len(<<e>>) = 1 /\ <<e>>[1] = e
    OBVIOUS
  <2>2. QED
    BY <2>1, ConcatProperties, LenProperties
<1>2. Len(s) \in Nat
  OBVIOUS
<1> HIDE DEF t
<1>3. t # <<>> /\ Head(t) = e
  BY <1>1, <1>2
<1>4. Tail(t) = s
  <2>1. /\ Tail(t) \in Seq(S) /\ Len(Tail(t)) = Len(s)
        /\ \A i \in 1..Len(s) : Tail(t)[i] = s[i]
    BY <1>1, <1>2, <1>3, HeadTailProperties
  <2>2. QED
    BY <2>1, SeqEqual
<1>5. ToSet(t) = {e} \cup ToSet(s)
  BY <1>1, <1>3, <1>4, HeadTailDistinct
<1>6. ASSUME Distinct(s), e \notin ToSet(s) PROVE Distinct(t)
  <2>1. \A i \in 1..Len(s) : s[i] # e
    BY <1>6, ToSetMembers
  <2>2. ASSUME NEW i \in 1..Len(t), NEW j \in 1..Len(t), t[i] = t[j]
        PROVE  i = j
    <3>1. CASE i = 1
      BY <3>1, <2>1, <2>2, <1>1, <1>2
    <3>2. CASE j = 1
      BY <3>2, <2>1, <2>2, <1>1, <1>2
    <3>3. CASE i # 1 /\ j # 1
      <4>1. i-1 \in 1..Len(s) /\ j-1 \in 1..Len(s) /\ s[i-1] = s[j-1]
        BY <3>3, <2>2, <1>1, <1>2
      <4>2. QED
        BY <4>1, <1>6, <1>2 DEF Distinct
    <3>4. QED
      BY <3>1, <3>2, <3>3
  <2>3. QED
    BY <2>2 DEF Distinct
<1>7. QED
  BY <1>1, <1>5, <1>6 DEF t

(* Putting a new element at the end. *)
LEMMA AppendDistinct ==
  ASSUME NEW S, NEW s \in Seq(S), NEW e \in S
  PROVE  /\ Append(s, e) \in Seq(S)
         /\ ToSet(Append(s, e)) = ToSet(s) \cup {e}
         /\ Distinct(s) /\ e \notin ToSet(s) => Distinct(Append(s, e))
<1> DEFINE t == Append(s, e)
<1>1. /\ t \in Seq(S)
      /\ Len(t) = Len(s) + 1
      /\ \A k \in 1..Len(s) : t[k] = s[k]
      /\ t[Len(s) + 1] = e
      /\ Len(s) \in Nat
  OBVIOUS
<1> HIDE DEF t
<1>2. /\ \A x : x \in ToSet(s) <=> \E k \in 1..Len(s) : s[k] = x
      /\ \A x : x \in ToSet(t) <=> \E k \in 1..Len(t) : t[k] = x
  BY <1>1, ToSetMembers
<1>3. ToSet(t) = ToSet(s) \cup {e}
  <2>1. ASSUME NEW x \in ToSet(t) PROVE x \in ToSet(s) \cup {e}
    <3>1. PICK k \in 1..Len(t) : t[k] = x
      BY <2>1, <1>2
    <3>2. CASE k = Len(t)
      BY <3>1, <3>2, <1>1
    <3>3. CASE k # Len(t)
      <4>1. k \in 1..Len(s) /\ s[k] = x
        BY <3>1, <3>3, <1>1
      <4>2. QED
        BY <4>1, <1>2
    <3>4. QED
      BY <3>2, <3>3
  <2>2. ASSUME NEW x \in ToSet(s) PROVE x \in ToSet(t)
    <3>1. PICK k \in 1..Len(s) : s[k] = x
      BY <2>2, <1>2
    <3>2. k \in 1..Len(t) /\ t[k] = x
      BY <3>1, <1>1
    <3>3. QED
      BY <3>2, <1>2
  <2>3. e \in ToSet(t)
    <3>1. Len(s) + 1 \in 1..Len(t)
      BY <1>1
    <3>2. QED
      BY <3>1, <1>1, <1>2
  <2>4. QED
    BY <2>1, <2>2, <2>3
<1>4. ASSUME Distinct(s), e \notin ToSet(s) PROVE Distinct(t)
  <2>1. \A k \in 1..Len(s) : s[k] # e
    BY <1>4, <1>2
  <2>2. ASSUME NEW k \in 1..Len(t), NEW m \in 1..Len(t), t[k] = t[m]
        PROVE  k = m
    <3>1. CASE k \in 1..Len(s) /\ m \in 1..Len(s)
      BY <3>1, <2>2, <1>1, <1>4 DEF Distinct
    <3>2. CASE k \notin 1..Len(s) \/ m \notin 1..Len(s)
      BY <3>2, <2>1, <2>2, <1>1
    <3>3. QED
      BY <3>1, <3>2
  <2>3. QED
    BY <2>2 DEF Distinct
<1>5. QED
  BY <1>1, <1>3, <1>4 DEF t

(* What is left after taking the entry at one place out. *)
LEMMA RemoveAtType ==
  ASSUME NEW S, NEW s \in Seq(S), NEW n \in 1..Len(s)
  PROVE  RemoveAt(s, n) \in Seq(S)
<1>1. Len(s) \in Nat /\ \A k \in 1..Len(s) : s[k] \in S
  BY ElementOfSeq
<1>2. SubSeq(s, 1, n - 1) \in Seq(S) /\ SubSeq(s, n + 1, Len(s)) \in Seq(S)
  BY <1>1, SubSeqProperties
<1>3. QED
  BY <1>2, ConcatProperties DEF RemoveAt

(* The entries before the place stay where they are, the others move up. *)
LEMMA RemoveAtEntries ==
  ASSUME NEW S, NEW s \in Seq(S), NEW n \in 1..Len(s)
  PROVE  /\ RemoveAt(s, n) \in Seq(S)
         /\ Len(RemoveAt(s, n)) = Len(s) - 1
         /\ \A k \in 1..(Len(s) - 1) :
              RemoveAt(s, n)[k] = IF k < n THEN s[k] ELSE s[k + 1]
<1> DEFINE t == RemoveAt(s, n)
           a == SubSeq(s, 1, n - 1)
           b == SubSeq(s, n + 1, Len(s))
<1>1. Len(s) \in Nat /\ \A k \in 1..Len(s) : s[k] \in S
  BY ElementOfSeq
<1>2. /\ a \in Seq(S) /\ Len(a) = n - 1
      /\ \A k \in 1..(n - 1) : a[k] = s[k]
  BY <1>1, SubSeqProperties
<1>3. /\ b \in Seq(S) /\ Len(b) = Len(s) - n
      /\ \A k \in 1..(Len(s) - n) : b[k] = s[n + k]
  <2>1. \A k \in (n + 1)..Len(s) : s[k] \in S
    BY <1>1
  <2>2. /\ b \in Seq(S)
        /\ Len(b) = IF n + 1 <= Len(s) THEN Len(s) - (n + 1) + 1 ELSE 0
        /\ \A k \in 1..(Len(s) - (n + 1) + 1) : b[k] = s[(n + 1) + k - 1]
    BY <1>1, <2>1, SubSeqProperties
  <2>3. QED
    BY <2>2, <1>1
<1>4. t = a \o b
  BY DEF RemoveAt
<1> HIDE DEF t, a, b
<1>5. /\ t \in Seq(S) /\ Len(t) = Len(s) - 1
      /\ \A k \in 1..(Len(s) - 1) : t[k] = IF k < n THEN s[k] ELSE s[k + 1]
  <2>1. /\ t \in Seq(S) /\ Len(t) = (n - 1) + (Len(s) - n)
        /\ \A k \in 1..((n - 1) + (Len(s) - n)) :
             t[k] = IF k <= n - 1 THEN a[k] ELSE b[k - (n - 1)]
    <3>1. /\ a \o b \in Seq(S) /\ Len(a \o b) = Len(a) + Len(b)
          /\ \A k \in 1..(Len(a) + Len(b)) :
               (a \o b)[k] = IF k <= Len(a) THEN a[k] ELSE b[k - Len(a)]
      BY <1>2, <1>3, ConcatProperties
    <3>2. QED
      BY <3>1, <1>2, <1>3, <1>4
  <2>2. ASSUME NEW k \in 1..(Len(s) - 1)
        PROVE  t[k] = IF k < n THEN s[k] ELSE s[k + 1]
    <3>1. CASE k < n
      BY <3>1, <2>1, <1>1, <1>2
    <3>2. CASE ~(k < n)
      <4>1. k - (n - 1) \in 1..(Len(s) - n) /\ t[k] = b[k - (n - 1)]
        BY <3>2, <2>1, <1>1
      <4>2. n + (k - (n - 1)) = k + 1
        BY <1>1
      <4>3. QED
        BY <3>2, <4>1, <4>2, <1>3
    <3>3. QED
      BY <3>1, <3>2
  <2>3. QED
    <3>1. (n - 1) + (Len(s) - n) = Len(s) - 1
      BY <1>1
    <3>2. QED
      BY <2>1, <2>2, <3>1
<1>6. QED
  BY <1>5 DEF t

(* Taking the entry at one place out. *)
LEMMA RemoveAtDistinct ==
  ASSUME NEW S, NEW s \in Seq(S), NEW n \in 1..Len(s), Distinct(s)
  PROVE  /\ RemoveAt(s, n) \in Seq(S)
         /\ Distinct(RemoveAt(s, n))
         /\ ToSet(RemoveAt(s, n)) = ToSet(s) \ {s[n]}
<1> DEFINE t == RemoveAt(s, n)
<1>1. Len(s) \in Nat /\ \A k \in 1..Len(s) : s[k] \in S
  BY ElementOfSeq
<1>2. /\ t \in Seq(S) /\ Len(t) = Len(s) - 1
      /\ \A k \in 1..(Len(s) - 1) : t[k] = IF k < n THEN s[k] ELSE s[k + 1]
  BY RemoveAtEntries
<1> HIDE DEF t
<1>3. Distinct(t)
  BY <1>1, <1>2 DEF Distinct
<1>4. /\ \A x : x \in ToSet(s) <=> \E k \in 1..Len(s) : s[k] = x
      /\ \A x : x \in ToSet(t) <=> \E k \in 1..Len(t) : t[k] = x
  BY <1>2, ToSetMembers
<1>5. ASSUME NEW x \in ToSet(t) PROVE x \in ToSet(s) \ {s[n]}
  <2>1. PICK k \in 1..Len(t) : t[k] = x
    BY <1>4
  <2>2. PICK m \in 1..Len(s) : m # n /\ s[m] = x
    <3>1. CASE k < n
      BY <3>1, <2>1, <1>1, <1>2
    <3>2. CASE ~(k < n)
      <4>1. k + 1 \in 1..Len(s) /\ k + 1 # n /\ s[k + 1] = x
        BY <3>2, <2>1, <1>1, <1>2
      <4>2. QED
        BY <4>1
    <3>3. QED
      BY <3>1, <3>2
  <2>3. x # s[n]
    BY <2>2 DEF Distinct
  <2>4. QED
    BY <2>2, <2>3, <1>4
<1>6. ASSUME NEW x \in ToSet(s) \ {s[n]} PROVE x \in ToSet(t)
  <2>1. PICK m \in 1..Len(s) : s[m] = x
    BY <1>4
  <2>2. CASE m < n
    <3>1. m \in 1..Len(t) /\ t[m] = x
      BY <2>1, <2>2, <1>1, <1>2
    <3>2. QED
      BY <3>1, <1>4
  <2>3. CASE m > n
    <3>1. m - 1 \in 1..Len(t) /\ t[m - 1] = s[(m - 1) + 1]
      BY <2>1, <2>3, <1>1, <1>2
    <3>2. QED
      BY <2>1, <3>1, <1>1, <1>4
  <2>4. QED
    BY <2>1, <2>2, <2>3, <1>1, <1>6
<1>7. QED
  BY <1>2, <1>3, <1>5, <1>6 DEF t

(* A set of numbers has a least one. *)
LEMMA LeastNumber ==
  ASSUME NEW T, T \subseteq Nat, T # {}
  PROVE  \E m \in T : \A x \in T : m <= x
<1> DEFINE R == OpToRel(<, Nat)
<1>1. PICK m \in T : \A y \in T : ~ (<<y, m>> \in R)
  <2>1. IsWellFoundedOn(R, Nat)
    BY NatLessThanWellFounded
  <2> HIDE DEF R
  <2>2. QED
    BY <2>1, WFMin
<1>2. ASSUME NEW y \in T PROVE m <= y
  <2>1. <<y, m>> \in Nat \X Nat /\ ~ (y < m)
    BY <1>1 DEF OpToRel
  <2>2. QED
    BY <2>1
<1>3. QED
  BY <1>2

(* What is left after taking an element out. *)
LEMMA RemoveFirstType ==
  ASSUME NEW S, NEW s \in Seq(S), NEW e
  PROVE  RemoveFirst(s, e) \in Seq(S)
<1> DEFINE places == {k \in 1..Len(s) : s[k] = e}
<1>1. CASE places = {}
  BY <1>1 DEF RemoveFirst
<1>2. CASE places # {}
  <2>1. Min(places) \in places
    <3>1. places \subseteq Nat
      OBVIOUS
    <3>2. \E m \in places : \A x \in places : m <= x
      BY <1>2, <3>1, LeastNumber
    <3>3. QED
      BY <3>2 DEF Min
  <2>2. RemoveFirst(s, e) = RemoveAt(s, Min(places))
    BY <1>2 DEF RemoveFirst, SelectInSeq
  <2>3. QED
    BY <2>1, <2>2, RemoveAtType
<1>3. QED
  BY <1>1, <1>2

(* Taking an element out, wherever it is. *)
LEMMA RemoveFirstDistinct ==
  ASSUME NEW S, NEW s \in Seq(S), NEW e, Distinct(s)
  PROVE  /\ RemoveFirst(s, e) \in Seq(S)
         /\ Distinct(RemoveFirst(s, e))
         /\ ToSet(RemoveFirst(s, e)) = ToSet(s) \ {e}
<1>1. CASE \E k \in 1..Len(s) : s[k] = e
  <2>1. PICK n \in 1..Len(s) : s[n] = e
    BY <1>1
  <2>2. {k \in 1..Len(s) : s[k] = e} = {n}
    BY <2>1 DEF Distinct
  <2>3. Min({n}) = n
    BY DEF Min
  <2>4. RemoveFirst(s, e) = RemoveAt(s, n)
    BY <1>1, <2>2, <2>3 DEF RemoveFirst, SelectInSeq
  <2>5. QED
    BY <2>1, <2>4, RemoveAtDistinct
<1>2. CASE ~ \E k \in 1..Len(s) : s[k] = e
  <2>1. RemoveFirst(s, e) = s
    BY <1>2 DEF RemoveFirst
  <2>2. e \notin ToSet(s)
    BY <1>2, ToSetMembers
  <2>3. QED
    BY <2>1, <2>2
<1>3. QED
  BY <1>1, <1>2

(* A list of distinct elements is no longer than their set. *)
LEMMA DistinctLength ==
  ASSUME NEW S, IsFiniteSet(S), NEW s \in Seq(S), Distinct(s)
  PROVE  Len(s) <= Cardinality(S)
<1>1. Len(s) \in Nat /\ s \in [1..Len(s) -> S]
  BY LenProperties
<1>2. IsFiniteSet(1..Len(s)) /\ Cardinality(1..Len(s)) = Len(s)
  BY <1>1, FS_Interval
<1>3. Cardinality(S) \in Nat
  BY FS_CardinalityType
<1>4. ASSUME Cardinality(S) < Len(s) PROVE FALSE
  <2>1. \E k, m \in 1..Len(s) : k # m /\ s[k] = s[m]
    BY <1>1, <1>2, <1>4, FS_PigeonHole
  <2>2. QED
    BY <2>1 DEF Distinct
<1>5. QED
  BY <1>1, <1>3, <1>4

(* There is room for one more. *)
LEMMA DistinctRoom ==
  ASSUME NEW S, IsFiniteSet(S), NEW s \in Seq(S), Distinct(s),
         NEW e \in S, e \notin ToSet(s)
  PROVE  Len(s) < Cardinality(S)
<1>1. Append(s, e) \in Seq(S) /\ Distinct(Append(s, e))
  BY AppendDistinct
<1>2. Len(Append(s, e)) = Len(s) + 1 /\ Len(s) \in Nat
  OBVIOUS
<1>3. Len(Append(s, e)) <= Cardinality(S)
  BY <1>1, DistinctLength
<1>4. QED
  BY <1>2, <1>3, FS_CardinalityType

(* A list has a first entry of the lowest key. *)
LEMMA FirstOfLowest ==
  ASSUME NEW S, NEW key \in [S -> Nat], NEW s \in Seq(S), s # <<>>
  PROVE  \E n \in 1..Len(s) :
           \A k \in 1..Len(s) : \/ key[s[n]] < key[s[k]]
                                \/ key[s[n]] = key[s[k]] /\ n <= k
<1> DEFINE keys == {key[s[k]] : k \in 1..Len(s)}
<1>1. Len(s) \in Nat \ {0} /\ \A k \in 1..Len(s) : s[k] \in S
  BY ElementOfSeq, EmptySeq
<1>2. PICK m \in keys : \A x \in keys : m <= x
  <2>1. keys \subseteq Nat
    BY <1>1
  <2>2. keys # {}
    <3>1. 1 \in 1..Len(s)
      BY <1>1
    <3>2. QED
      BY <3>1
  <2>3. QED
    BY <2>1, <2>2, LeastNumber
<1> DEFINE places == {k \in 1..Len(s) : key[s[k]] = m}
<1>3. PICK n \in places : \A k \in places : n <= k
  <2>1. places \subseteq Nat /\ places # {}
    BY <1>1, <1>2
  <2>2. QED
    BY <2>1, LeastNumber
<1>4. ASSUME NEW k \in 1..Len(s)
      PROVE  \/ key[s[n]] < key[s[k]]
             \/ key[s[n]] = key[s[k]] /\ n <= k
  <2>1. m <= key[s[k]] /\ m \in Nat /\ key[s[k]] \in Nat
    BY <1>1, <1>2
  <2>2. QED
    BY <1>3, <2>1
<1>5. n \in 1..Len(s)
  BY <1>3
<1> HIDE DEF keys, places
<1> WITNESS n \in 1..Len(s)
<1>6. QED
  BY <1>4

(* The entries behind a new first one. *)
LEMMA PrependEntries ==
  ASSUME NEW S, NEW s \in Seq(S), NEW e \in S
  PROVE  /\ <<e>> \o s \in Seq(S)
         /\ Len(<<e>> \o s) = Len(s) + 1
         /\ \A k \in 1..Len(<<e>> \o s) : (<<e>> \o s)[k] = IF k = 1 THEN e ELSE s[k - 1]
<1>1. <<e>> \in Seq(S) /\ Len(<<e>>) = 1 /\ <<e>>[1] = e
  OBVIOUS
<1>2. QED
  BY <1>1, ConcatProperties, LenProperties

(* A list without its last entry. *)
LEMMA FrontEntries ==
  ASSUME NEW S, NEW s \in Seq(S), s # <<>>
  PROVE  /\ Len(s) \in Nat \ {0}
         /\ Last(s) = s[Len(s)] /\ Last(s) \in S
         /\ Front(s) \in Seq(S)
         /\ Len(Front(s)) = Len(s) - 1
         /\ \A k \in 1..(Len(s) - 1) : Front(s)[k] = s[k]
<1>1. Len(s) \in Nat \ {0} /\ \A k \in 1..Len(s) : s[k] \in S
  BY EmptySeq, LenProperties
<1>2. Last(s) = s[Len(s)] /\ Last(s) \in S
  BY <1>1 DEF Last
<1> DEFINE n == Len(s) - 1
           t == SubSeq(s, 1, n)
<1>3. n \in Nat /\ \A k \in 1..n : s[k] \in S
  BY <1>1
<1>4. /\ t \in Seq(S)
      /\ Len(t) = IF 1 <= n THEN n - 1 + 1 ELSE 0
      /\ \A k \in 1..(n - 1 + 1) : t[k] = s[1 + k - 1]
  BY <1>3, SubSeqProperties
<1>5. Front(s) = t
  BY DEF Front
<1> HIDE DEF n, t
<1>6. Len(t) = n
  BY <1>3, <1>4
<1>7. ASSUME NEW k \in 1..n PROVE t[k] = s[k]
  <2>1. k \in 1..(n - 1 + 1) /\ 1 + k - 1 = k
    BY <1>3
  <2>2. QED
    BY <1>4, <2>1
<1>8. QED
  BY <1>1, <1>2, <1>4, <1>5, <1>6, <1>7 DEF n

(* Of distinct elements, the last one is gone then. *)
LEMMA FrontDistinct ==
  ASSUME NEW S, NEW s \in Seq(S), s # <<>>, Distinct(s)
  PROVE  /\ Distinct(Front(s))
         /\ ToSet(Front(s)) = ToSet(s) \ {Last(s)}
<1>1. /\ Len(s) \in Nat \ {0} /\ Last(s) = s[Len(s)]
      /\ Front(s) \in Seq(S) /\ Len(Front(s)) = Len(s) - 1
      /\ \A k \in 1..(Len(s) - 1) : Front(s)[k] = s[k]
  BY FrontEntries
<1>2. Distinct(Front(s))
  BY <1>1 DEF Distinct
<1>3. /\ \A e : e \in ToSet(s) <=> \E k \in 1..Len(s) : s[k] = e
      /\ \A e : e \in ToSet(Front(s)) <=> \E k \in 1..Len(Front(s)) : Front(s)[k] = e
  BY <1>1, ToSetMembers
<1>4. ASSUME NEW e PROVE e \in ToSet(Front(s)) <=> e \in ToSet(s) \ {Last(s)}
  BY <1>1, <1>3 DEF Distinct
<1>5. QED
  BY <1>2, <1>4
=============================================================================
