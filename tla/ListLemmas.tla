------------------------------ MODULE ListLemmas ------------------------------
(* Facts about the sequences that stand for lists and queues, for elements of  *)
(* any kind: what they hold after an element is added or taken away.           *)
EXTENDS Integers, Sequences, SequencesExt, SequenceTheorems, TLAPS

\* What a sequence is as a function, and what is in it.
LEMMA ListShape ==
  ASSUME NEW E, NEW l \in Seq(E)
  PROVE  /\ Len(l) \in Nat /\ DOMAIN l = 1..Len(l)
         /\ \A j \in 1..Len(l) : l[j] \in E
         /\ \A f : f \in ToSet(l) <=> \E j \in 1..Len(l) : l[j] = f
  BY LenProperties, ElementOfSeq DEF ToSet

\* A list with one more element, at its end.
LEMMA Appended ==
  ASSUME NEW E, NEW l \in Seq(E), NEW f \in E
  PROVE  /\ Append(l, f) \in Seq(E)
         /\ Len(Append(l, f)) = Len(l) + 1
         /\ \A j \in 1..Len(l) : Append(l, f)[j] = l[j]
         /\ Append(l, f)[Len(l) + 1] = f
         /\ ToSet(Append(l, f)) = ToSet(l) \cup {f}
  <1>1. /\ Append(l, f) \in Seq(E)
        /\ Len(Append(l, f)) = Len(l) + 1
        /\ \A j \in 1..Len(l) : Append(l, f)[j] = l[j]
        /\ Append(l, f)[Len(l) + 1] = f
    BY AppendProperties
  <1> DEFINE r == Append(l, f)
  <1>2. Len(l) \in Nat /\ r \in Seq(E) /\ Len(r) = Len(l) + 1
    BY <1>1, ListShape
  <1>3. (\A j \in 1..Len(l) : r[j] = l[j]) /\ r[Len(l) + 1] = f
    BY <1>1
  <1> HIDE DEF r
  <1>4. ASSUME NEW g \in ToSet(r) PROVE g \in ToSet(l) \cup {f}
    <2>1. PICK j \in 1..(Len(l) + 1) : r[j] = g
      BY <1>2, ListShape
    <2>2. CASE j = Len(l) + 1
      BY <1>3, <2>1, <2>2
    <2>3. CASE j # Len(l) + 1
      <3>1. j \in 1..Len(l)
        BY <1>2, <2>3
      <3>2. l[j] = g
        BY <1>3, <2>1, <3>1
      <3> QED BY <3>1, <3>2, ListShape
    <2> QED BY <2>2, <2>3
  <1>5. ASSUME NEW g \in ToSet(l) PROVE g \in ToSet(r)
    <2>1. PICK j \in 1..Len(l) : l[j] = g
      BY ListShape
    <2>2. j \in 1..Len(r) /\ r[j] = g
      BY <1>2, <1>3, <2>1
    <2> QED BY <1>2, <2>2, ListShape
  <1>6. f \in ToSet(r)
    <2>1. Len(l) + 1 \in 1..Len(r)
      BY <1>2
    <2> QED BY <1>2, <1>3, <2>1, ListShape
  <1>7. ToSet(r) = ToSet(l) \cup {f}
    BY <1>4, <1>5, <1>6
  <1> QED BY <1>1, <1>7 DEF r

\* What is left of a list without its n-th element.
LEMMA Shortened ==
  ASSUME NEW E, NEW l \in Seq(E), NEW n \in 1..Len(l)
  PROVE  /\ RemoveAt(l, n) \in Seq(E)
         /\ Len(RemoveAt(l, n)) = Len(l) - 1
         /\ \A j \in 1..(Len(l) - 1) :
              RemoveAt(l, n)[j] = IF j < n THEN l[j] ELSE l[j + 1]
  <1> DEFINE s == SubSeq(l, 1, n - 1)
             t == SubSeq(l, n + 1, Len(l))
  <1>1. Len(l) \in Nat /\ n \in Nat /\ n >= 1 /\ n <= Len(l)
    BY ListShape
  <1>2. /\ s \in Seq(E) /\ Len(s) = n - 1
        /\ \A j \in 1..(n - 1) : s[j] = l[j]
    <2>1. 1 \in Int /\ n - 1 \in Int /\ \A i \in 1..(n - 1) : l[i] \in E
      BY <1>1, ListShape
    <2>2. /\ s \in Seq(E)
          /\ Len(s) = IF 1 <= n - 1 THEN (n - 1) - 1 + 1 ELSE 0
          /\ \A i \in 1..((n - 1) - 1 + 1) : s[i] = l[1 + i - 1]
      BY <2>1, SubSeqProperties
    <2> QED BY <1>1, <2>2
  <1>3. /\ t \in Seq(E) /\ Len(t) = Len(l) - n
        /\ \A j \in 1..(Len(l) - n) : t[j] = l[n + j]
    <2>1. n + 1 \in Int /\ Len(l) \in Int /\ \A i \in (n + 1)..Len(l) : l[i] \in E
      BY <1>1, ListShape
    <2>2. /\ t \in Seq(E)
          /\ Len(t) = IF n + 1 <= Len(l) THEN Len(l) - (n + 1) + 1 ELSE 0
          /\ \A i \in 1..(Len(l) - (n + 1) + 1) : t[i] = l[(n + 1) + i - 1]
      BY <2>1, SubSeqProperties
    <2> QED BY <1>1, <2>2
  <1> HIDE DEF s, t
  <1> DEFINE r == s \o t
  <1>4. /\ r \in Seq(E) /\ Len(r) = Len(s) + Len(t)
        /\ \A j \in 1..(Len(s) + Len(t)) :
             r[j] = IF j <= Len(s) THEN s[j] ELSE t[j - Len(s)]
    BY <1>2, <1>3, ConcatProperties
  <1> HIDE DEF r
  <1>5. ASSUME NEW j \in 1..(Len(l) - 1)
        PROVE  r[j] = IF j < n THEN l[j] ELSE l[j + 1]
    <2> j \in 1..(Len(s) + Len(t)) /\ Len(s) = n - 1 /\ j \in Nat
      BY <1>1, <1>2, <1>3
    <2>1. CASE j < n
      BY <1>1, <1>2, <1>4, <2>1
    <2>2. CASE j >= n
      <3>1. j - (n - 1) \in 1..(Len(l) - n) /\ n + (j - (n - 1)) = j + 1
        BY <1>1, <2>2
      <3> QED BY <1>1, <1>3, <1>4, <2>2, <3>1
    <2> QED BY <1>1, <2>1, <2>2
  <1>6. Len(r) = Len(l) - 1
    BY <1>1, <1>2, <1>3, <1>4
  <1>7. RemoveAt(l, n) = r
    BY DEF RemoveAt, r, s, t
  <1> QED BY <1>4, <1>5, <1>6, <1>7

\* An element taken out of a list that has it once is gone, and nothing else is.
LEMMA ShortenedSet ==
  ASSUME NEW E, NEW l \in Seq(E), NEW n \in 1..Len(l),
         \A j, k \in 1..Len(l) : l[j] = l[k] => j = k
  PROVE  ToSet(RemoveAt(l, n)) = ToSet(l) \ {l[n]}
  <1> DEFINE r == RemoveAt(l, n)
  <1>1. /\ r \in Seq(E) /\ Len(r) = Len(l) - 1 /\ Len(l) \in Nat
        /\ \A j \in 1..(Len(l) - 1) : r[j] = IF j < n THEN l[j] ELSE l[j + 1]
    BY Shortened, ListShape
  <1> HIDE DEF r
  <1>2. ASSUME NEW f \in ToSet(r) PROVE f \in ToSet(l) \ {l[n]}
    <2>1. PICK j \in 1..(Len(l) - 1) : r[j] = f
      BY <1>1, ListShape
    <2>2. j \in 1..Len(l) /\ j + 1 \in 1..Len(l)
      BY <1>1
    <2>3. PICK k \in 1..Len(l) : l[k] = f /\ k # n
      BY <1>1, <2>1, <2>2
    <2> QED BY <2>3, ListShape
  <1>3. ASSUME NEW f \in ToSet(l) \ {l[n]} PROVE f \in ToSet(r)
    <2>1. PICK k \in 1..Len(l) : l[k] = f
      BY ListShape
    <2>2. k # n
      BY <2>1
    <2>3. PICK j \in 1..(Len(l) - 1) : r[j] = f
      <3>1. CASE k < n
        <4>1. k \in 1..(Len(l) - 1)
          BY <1>1, <3>1
        <4> QED BY <1>1, <2>1, <3>1, <4>1
      <3>2. CASE k > n
        <4>1. k - 1 \in 1..(Len(l) - 1) /\ (k - 1) + 1 = k /\ ~ (k - 1 < n)
          BY <1>1, <3>2
        <4> QED BY <1>1, <2>1, <4>1
      <3> QED BY <1>1, <2>2, <3>1, <3>2
    <2> QED BY <1>1, <2>3, ListShape
  <1> QED BY <1>2, <1>3 DEF r

\* The head of a queue is its first element.
LEMMA TailRemoves ==
  ASSUME NEW E, NEW l \in Seq(E), l # << >>
  PROVE  /\ 1 \in 1..Len(l) /\ Head(l) = l[1]
         /\ Tail(l) = RemoveAt(l, 1)
  <1>1. Len(l) \in Nat /\ Len(l) > 0 /\ 1 \in 1..Len(l)
    BY EmptySeq, ListShape
  <1>2. /\ Tail(l) \in Seq(E) /\ Len(Tail(l)) = Len(l) - 1
        /\ \A j \in 1..Len(Tail(l)) : Tail(l)[j] = l[j + 1]
    BY HeadTailProperties
  <1>3. /\ RemoveAt(l, 1) \in Seq(E) /\ Len(RemoveAt(l, 1)) = Len(l) - 1
        /\ \A j \in 1..(Len(l) - 1) : RemoveAt(l, 1)[j] = IF j < 1 THEN l[j] ELSE l[j + 1]
    BY <1>1, Shortened
  <1> DEFINE s == Tail(l)
             t == RemoveAt(l, 1)
  <1> HIDE DEF s, t
  <1>4. /\ s \in Seq(E) /\ t \in Seq(E) /\ Len(s) = Len(t)
        /\ \A j \in 1..Len(s) : s[j] = t[j]
    <2>1. \A j \in 1..(Len(l) - 1) : ~ (j < 1)
      BY <1>1
    <2> QED BY <1>2, <1>3, <2>1 DEF s, t
  <1>5. s = t
    BY <1>4, SeqEqual
  <1> QED BY <1>1, <1>5, HeadTailProperties DEF s, t

\* No element is in the list twice.
Distinct(l) == \A j, k \in 1..Len(l) : l[j] = l[k] => j = k

LEMMA AppendedDistinct ==
  ASSUME NEW E, NEW l \in Seq(E), NEW f \in E, Distinct(l), f \notin ToSet(l)
  PROVE  Distinct(Append(l, f))
  <1> DEFINE r == Append(l, f)
  <1>1. /\ Len(l) \in Nat /\ Len(r) = Len(l) + 1
        /\ \A j \in 1..Len(l) : r[j] = l[j] /\ l[j] # f
        /\ r[Len(l) + 1] = f
    BY Appended, ListShape
  <1> HIDE DEF r
  <1>2. ASSUME NEW j \in 1..Len(r), NEW k \in 1..Len(r), r[j] = r[k] PROVE j = k
    <2>1. /\ j \in 1..Len(l) \/ j = Len(l) + 1
          /\ k \in 1..Len(l) \/ k = Len(l) + 1
      BY <1>1
    <2> QED BY <1>1, <1>2, <2>1 DEF Distinct
  <1> QED BY <1>2 DEF Distinct, r

LEMMA ShortenedDistinct ==
  ASSUME NEW E, NEW l \in Seq(E), NEW n \in 1..Len(l), Distinct(l)
  PROVE  /\ Distinct(RemoveAt(l, n))
         /\ ToSet(RemoveAt(l, n)) = ToSet(l) \ {l[n]}
  <1> DEFINE r == RemoveAt(l, n)
  <1>1. /\ Len(l) \in Nat /\ Len(r) = Len(l) - 1
        /\ \A j \in 1..(Len(l) - 1) : r[j] = IF j < n THEN l[j] ELSE l[j + 1]
    BY Shortened, ListShape
  <1> HIDE DEF r
  <1>2. ASSUME NEW j \in 1..Len(r), NEW k \in 1..Len(r), r[j] = r[k] PROVE j = k
    <2> DEFINE a == IF j < n THEN j ELSE j + 1
               b == IF k < n THEN k ELSE k + 1
    <2>1. a \in 1..Len(l) /\ b \in 1..Len(l)
      BY <1>1
    <2>2. l[a] = l[b]
      BY <1>1, <1>2
    <2>3. a = b
      BY <2>1, <2>2 DEF Distinct
    <2> QED BY <1>1, <2>3
  <1>3. Distinct(r)
    BY <1>2 DEF Distinct
  <1> QED BY <1>3, ShortenedSet DEF Distinct, r

\* What is left of a list is out of the list.
LEMMA ShortenedSubset ==
  ASSUME NEW E, NEW l \in Seq(E), NEW n \in 1..Len(l)
  PROVE  ToSet(RemoveAt(l, n)) \subseteq ToSet(l)
  <1> DEFINE r == RemoveAt(l, n)
  <1>1. /\ r \in Seq(E) /\ Len(r) = Len(l) - 1 /\ Len(l) \in Nat
        /\ \A j \in 1..(Len(l) - 1) : r[j] = IF j < n THEN l[j] ELSE l[j + 1]
    BY Shortened, ListShape
  <1> HIDE DEF r
  <1>2. ASSUME NEW f \in ToSet(r) PROVE f \in ToSet(l)
    <2>1. PICK j \in 1..(Len(l) - 1) : r[j] = f
      BY <1>1, ListShape
    <2>2. j \in 1..Len(l) /\ j + 1 \in 1..Len(l)
      BY <1>1
    <2>3. PICK k \in 1..Len(l) : l[k] = f
      BY <1>1, <2>1, <2>2
    <2> QED BY <2>3, ListShape
  <1> QED BY <1>2 DEF r


\* One element comes before another in the list.
Before(l, f, g) == \E j, k \in 1..Len(l) : j < k /\ l[j] = f /\ l[k] = g

\* Adding at the end and taking out a third one leaves the order as it is.
LEMMA BeforeAppended ==
  ASSUME NEW E, NEW l \in Seq(E), NEW e \in E, NEW f, NEW g, Before(l, f, g)
  PROVE  Before(Append(l, e), f, g)
  <1>1. PICK j, k \in 1..Len(l) : j < k /\ l[j] = f /\ l[k] = g
    BY DEF Before
  <1> DEFINE r == Append(l, e)
  <1>2. /\ Len(l) \in Nat /\ Len(r) = Len(l) + 1
        /\ \A i \in 1..Len(l) : r[i] = l[i]
    BY Appended, ListShape
  <1>3. j \in 1..Len(r) /\ k \in 1..Len(r)
    BY <1>2
  <1> QED BY <1>1, <1>2, <1>3 DEF Before

LEMMA BeforeShortened ==
  ASSUME NEW E, NEW l \in Seq(E), NEW n \in 1..Len(l), NEW f, NEW g, Before(l, f, g),
         l[n] # f, l[n] # g
  PROVE  Before(RemoveAt(l, n), f, g)
  <1>1. PICK j, k \in 1..Len(l) : j < k /\ l[j] = f /\ l[k] = g
    BY DEF Before
  <1> DEFINE r == RemoveAt(l, n)
             a == IF j < n THEN j ELSE j - 1
             b == IF k < n THEN k ELSE k - 1
  <1>2. /\ Len(l) \in Nat /\ Len(r) = Len(l) - 1
        /\ \A i \in 1..(Len(l) - 1) : r[i] = IF i < n THEN l[i] ELSE l[i + 1]
    BY Shortened, ListShape
  <1>3. j # n /\ k # n
    BY <1>1
  <1>4. a \in 1..(Len(l) - 1) /\ b \in 1..(Len(l) - 1) /\ a < b
    BY <1>1, <1>2, <1>3
  <1>5. (IF a < n THEN a ELSE a + 1) = j /\ (IF b < n THEN b ELSE b + 1) = k
    BY <1>3
  <1>6. r[a] = f /\ r[b] = g
    BY <1>1, <1>2, <1>4, <1>5
  <1> QED BY <1>2, <1>4, <1>6 DEF Before

\* What is added comes last.
LEMMA BeforeLast ==
  ASSUME NEW E, NEW l \in Seq(E), NEW e \in E, NEW f \in ToSet(l)
  PROVE  Before(Append(l, e), f, e)
  <1>1. PICK j \in 1..Len(l) : l[j] = f
    BY ListShape
  <1> DEFINE r == Append(l, e)
  <1>2. /\ Len(l) \in Nat /\ Len(r) = Len(l) + 1 /\ r[Len(l) + 1] = e
        /\ \A i \in 1..Len(l) : r[i] = l[i]
    BY Appended, ListShape
  <1>3. j \in 1..Len(r) /\ Len(l) + 1 \in 1..Len(r) /\ j < Len(l) + 1
    BY <1>2
  <1> QED BY <1>1, <1>2, <1>3 DEF Before

\* Nothing comes before the head of a list without repetition.
LEMMA HeadFirst ==
  ASSUME NEW l, NEW f, 1 \in 1..Len(l), Distinct(l)
  PROVE  ~ Before(l, f, l[1])
  BY DEF Before, Distinct

=============================================================================
