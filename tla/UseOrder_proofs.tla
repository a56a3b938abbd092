--------------------------- MODULE UseOrder_proofs ---------------------------
(***************************************************************************)
(* What the operators on an order of use do to its elements, and that they *)
(* never make an element come twice.                                       *)
(***************************************************************************)
EXTENDS UseOrder, SequenceTheorems, FiniteSetTheorems, TLAPS

(* The elements of a sequence, by position.                                *)
LEMMA ElementsByPosition ==
  ASSUME NEW S, NEW s \in Seq(S)
  PROVE  /\ DOMAIN s = 1..Len(s) /\ Len(s) \in Nat
         /\ \A x : x \in ToSet(s) <=> \E i \in 1..Len(s) : s[i] = x
         /\ ToSet(s) \subseteq S
         /\ \A x : Contains(s, x) <=> x \in ToSet(s)
BY LenProperties DEF ToSet, Contains

(* A stretch of a sequence, from position m to n.                          *)
LEMMA StretchPositions ==
  ASSUME NEW S, NEW s \in Seq(S), NEW m \in Nat \ {0}, NEW n \in 0..Len(s),
         m <= n + 1
  PROVE  /\ SubSeq(s, m, n) \in Seq(S)
         /\ Len(SubSeq(s, m, n)) = n - m + 1
         /\ \A i \in 1..(n - m + 1) : SubSeq(s, m, n)[i] = s[m + i - 1]
<1>1. \A i \in m..n : s[i] \in S
  BY ElementsByPosition, ElementOfSeq
<1>2. m \in Int /\ n \in Int
  BY ElementsByPosition
<1>3. /\ SubSeq(s, m, n) \in Seq(S)
      /\ Len(SubSeq(s, m, n)) = IF m <= n THEN n - m + 1 ELSE 0
      /\ \A i \in 1..n - m + 1 : SubSeq(s, m, n)[i] = s[m + i - 1]
  BY <1>1, <1>2, SubSeqProperties
<1> QED
  BY <1>2, <1>3

(* Cutting out position k moves what comes after it up by one.             *)
LEMMA RemoveAtPositions ==
  ASSUME NEW S, NEW s \in Seq(S), NEW k \in 1..Len(s)
  PROVE  /\ RemoveAt(s, k) \in Seq(S)
         /\ Len(RemoveAt(s, k)) = Len(s) - 1
         /\ \A i \in 1..(Len(s) - 1) :
              RemoveAt(s, k)[i] = IF i < k THEN s[i] ELSE s[i + 1]
<1>1. Len(s) \in Nat /\ k \in Nat /\ k >= 1 /\ k <= Len(s)
  BY ElementsByPosition
<1> DEFINE a == SubSeq(s, 1, k - 1)
           b == SubSeq(s, k + 1, Len(s))
<1>2. /\ a \in Seq(S) /\ Len(a) = k - 1 - 1 + 1
      /\ \A i \in 1..(k - 1 - 1 + 1) : a[i] = s[1 + i - 1]
  <2>1. k - 1 \in 0..Len(s) /\ 1 \in Nat \ {0} /\ 1 <= k - 1 + 1
    BY <1>1
  <2> QED
    BY <2>1, StretchPositions
<1>3. /\ b \in Seq(S) /\ Len(b) = Len(s) - (k + 1) + 1
      /\ \A i \in 1..(Len(s) - (k + 1) + 1) : b[i] = s[(k + 1) + i - 1]
  <2>1. Len(s) \in 0..Len(s) /\ k + 1 \in Nat \ {0} /\ k + 1 <= Len(s) + 1
    BY <1>1
  <2> QED
    BY <2>1, StretchPositions
<1>4. RemoveAt(s, k) = a \o b
  BY DEF RemoveAt
<1> HIDE DEF a, b
<1>5. /\ a \o b \in Seq(S) /\ Len(a \o b) = Len(a) + Len(b)
      /\ \A i \in 1..(Len(a) + Len(b)) :
           (a \o b)[i] = IF i <= Len(a) THEN a[i] ELSE b[i - Len(a)]
  BY <1>2, <1>3, ConcatProperties
<1>6. ASSUME NEW i \in 1..(Len(s) - 1)
      PROVE  (a \o b)[i] = IF i < k THEN s[i] ELSE s[i + 1]
  <2>1. CASE i < k
    BY <1>1, <1>2, <1>3, <1>5, <2>1
  <2>2. CASE ~(i < k)
    <3>1. i - Len(a) \in 1..(Len(s) - (k + 1) + 1) /\ ~(i <= Len(a))
          /\ i \in 1..(Len(a) + Len(b)) /\ (k + 1) + (i - Len(a)) - 1 = i + 1
      BY <1>1, <1>2, <1>3, <2>2
    <3>2. (a \o b)[i] = b[i - Len(a)]
      BY <1>5, <3>1
    <3>3. b[i - Len(a)] = s[(k + 1) + (i - Len(a)) - 1]
      BY <1>3, <3>1
    <3> QED
      BY <2>2, <3>1, <3>2, <3>3
  <2> QED
    BY <2>1, <2>2
<1> QED
  BY <1>1, <1>2, <1>3, <1>4, <1>5, <1>6

(* Without takes an element out, and nothing else.                         *)
LEMMA WithoutProperties ==
  ASSUME NEW S, NEW s \in Seq(S), NoRepeats(s), NEW x
  PROVE  /\ Without(s, x) \in Seq(S)
         /\ ToSet(Without(s, x)) = ToSet(s) \ {x}
         /\ NoRepeats(Without(s, x))
         /\ Len(Without(s, x)) <= Len(s)
<1>1. /\ DOMAIN s = 1..Len(s) /\ Len(s) \in Nat
      /\ \A y : y \in ToSet(s) <=> \E i \in 1..Len(s) : s[i] = y
      /\ Contains(s, x) <=> x \in ToSet(s)
  BY ElementsByPosition
<1>2. CASE ~Contains(s, x)
  BY <1>1, <1>2 DEF Without
<1>3. CASE Contains(s, x)
  <2> DEFINE k == CHOOSE i \in DOMAIN s : s[i] = x
             w == RemoveAt(s, k)
  <2>1. k \in 1..Len(s) /\ s[k] = x
    BY <1>1, <1>3
  <2> HIDE DEF k
  <2>2. /\ w \in Seq(S) /\ Len(w) = Len(s) - 1
        /\ \A i \in 1..(Len(s) - 1) :
             w[i] = IF i < k THEN s[i] ELSE s[i + 1]
    BY <2>1, RemoveAtPositions
  <2>3. Without(s, x) = w
    BY <1>3 DEF Without, k
  <2> HIDE DEF w
  <2>4. /\ DOMAIN w = 1..(Len(s) - 1)
        /\ \A y : y \in ToSet(w) <=> \E i \in 1..(Len(s) - 1) : w[i] = y
    BY <2>2, ElementsByPosition
  <2>5. NoRepeats(w)
    <3> SUFFICES ASSUME NEW i \in 1..(Len(s) - 1), NEW j \in 1..(Len(s) - 1),
                        w[i] = w[j]
                 PROVE  i = j
      BY <2>4 DEF NoRepeats
    <3>1. /\ i \in 1..Len(s) /\ i + 1 \in 1..Len(s)
          /\ j \in 1..Len(s) /\ j + 1 \in 1..Len(s)
      BY <1>1
    <3>2. \A a, b \in 1..Len(s) : s[a] = s[b] => a = b
      BY <1>1 DEF NoRepeats
    <3>3. /\ w[i] = IF i < k THEN s[i] ELSE s[i + 1]
          /\ w[j] = IF j < k THEN s[j] ELSE s[j + 1]
      BY <2>2
    <3>4. PICK a \in {i, i + 1}, b \in {j, j + 1} :
               /\ w[i] = s[a] /\ a = (IF i < k THEN i ELSE i + 1)
               /\ w[j] = s[b] /\ b = (IF j < k THEN j ELSE j + 1)
      BY <3>3
    <3>5. a = b
      BY <3>1, <3>2, <3>4
    <3> QED
      BY <2>1, <3>4, <3>5
  <2>6. ASSUME NEW y PROVE y \in ToSet(w) <=> y \in ToSet(s) \ {x}
    <3>1. ASSUME y \in ToSet(w) PROVE y \in ToSet(s) \ {x}
      <4>1. PICK i \in 1..(Len(s) - 1) : w[i] = y
        BY <2>4, <3>1
      <4>2. w[i] = IF i < k THEN s[i] ELSE s[i + 1]
        BY <2>2
      <4>3. PICK j \in 1..Len(s) : s[j] = y /\ j # k
        BY <1>1, <2>1, <4>1, <4>2
      <4> QED
        BY <1>1, <2>1, <4>3 DEF NoRepeats
    <3>2. ASSUME y \in ToSet(s), y # x PROVE y \in ToSet(w)
      <4>1. PICK i \in 1..Len(s) : s[i] = y
        BY <1>1, <3>2
      <4>2. CASE i < k
        BY <1>1, <2>1, <2>2, <2>4, <4>1, <4>2
      <4>3. CASE ~(i < k)
        <5>1. i - 1 \in 1..(Len(s) - 1) /\ ~(i - 1 < k) /\ (i - 1) + 1 = i
          BY <1>1, <2>1, <3>2, <4>1, <4>3
        <5> QED
          BY <2>2, <2>4, <4>1, <5>1
      <4> QED
        BY <4>2, <4>3
    <3> QED
      BY <3>1, <3>2
  <2> QED
    BY <1>1, <2>2, <2>3, <2>5, <2>6
<1> QED
  BY <1>2, <1>3

(* A new element at the end.                                               *)
LEMMA AppendNewProperties ==
  ASSUME NEW S, NEW s \in Seq(S), NoRepeats(s), NEW x \in S, x \notin ToSet(s)
  PROVE  /\ Append(s, x) \in Seq(S)
         /\ ToSet(Append(s, x)) = ToSet(s) \cup {x}
         /\ NoRepeats(Append(s, x))
         /\ Len(Append(s, x)) = Len(s) + 1
         /\ Append(s, x)[Len(s) + 1] = x
<1> DEFINE t == Append(s, x)
<1>1. /\ DOMAIN s = 1..Len(s) /\ Len(s) \in Nat
      /\ \A y : y \in ToSet(s) <=> \E i \in 1..Len(s) : s[i] = y
  BY ElementsByPosition
<1>2. /\ t \in Seq(S) /\ Len(t) = Len(s) + 1
      /\ \A i \in 1..Len(s) : t[i] = s[i]
      /\ t[Len(s) + 1] = x
  BY AppendProperties
<1> HIDE DEF t
<1>3. /\ DOMAIN t = 1..(Len(s) + 1)
      /\ \A y : y \in ToSet(t) <=> \E i \in 1..(Len(s) + 1) : t[i] = y
  BY <1>2, ElementsByPosition
<1>4. \A i \in 1..(Len(s) + 1) :
        i \in 1..Len(s) \/ i = Len(s) + 1
  BY <1>1
<1>5. NoRepeats(t)
  <2> SUFFICES ASSUME NEW i \in 1..(Len(s) + 1), NEW j \in 1..(Len(s) + 1),
                      t[i] = t[j]
               PROVE  i = j
    BY <1>3 DEF NoRepeats
  <2> QED
    BY <1>1, <1>2, <1>4 DEF NoRepeats
<1>6. ASSUME NEW y PROVE y \in ToSet(t) <=> y \in ToSet(s) \cup {x}
  <2>1. 1..Len(s) \subseteq 1..(Len(s) + 1) /\ Len(s) + 1 \in 1..(Len(s) + 1)
    BY <1>1
  <2> QED
    BY <1>1, <1>2, <1>3, <1>4, <2>1
<1> QED
  BY <1>2, <1>5, <1>6 DEF t

(* Used puts its element last, once.                                       *)
LEMMA UsedProperties ==
  ASSUME NEW S, NEW s \in Seq(S), NoRepeats(s), NEW x \in S
  PROVE  /\ Used(s, x) \in Seq(S)
         /\ ToSet(Used(s, x)) = ToSet(s) \cup {x}
         /\ NoRepeats(Used(s, x))
         /\ Len(Used(s, x)) \in Nat \ {0} /\ Used(s, x)[Len(Used(s, x))] = x
<1> DEFINE w == Without(s, x)
<1>1. /\ w \in Seq(S) /\ ToSet(w) = ToSet(s) \ {x} /\ NoRepeats(w)
  BY WithoutProperties
<1> HIDE DEF w
<1>2. /\ Append(w, x) \in Seq(S) /\ ToSet(Append(w, x)) = ToSet(w) \cup {x}
      /\ NoRepeats(Append(w, x)) /\ Len(Append(w, x)) = Len(w) + 1
      /\ Append(w, x)[Len(w) + 1] = x
  BY <1>1, AppendNewProperties
<1>3. Len(w) \in Nat
  BY <1>1, LenProperties
<1> QED
  BY <1>1, <1>2, <1>3 DEF Used, w

(* A stretch of an order is an order of some of its elements.              *)
LEMMA StretchProperties ==
  ASSUME NEW S, NEW s \in Seq(S), NoRepeats(s), NEW m \in Nat \ {0},
         NEW n \in 0..Len(s), m <= n + 1
  PROVE  /\ SubSeq(s, m, n) \in Seq(S)
         /\ Len(SubSeq(s, m, n)) = n - m + 1
         /\ ToSet(SubSeq(s, m, n)) = {s[i] : i \in m..n}
         /\ NoRepeats(SubSeq(s, m, n))
<1> DEFINE t == SubSeq(s, m, n)
<1>1. /\ t \in Seq(S) /\ Len(t) = n - m + 1
      /\ \A i \in 1..(n - m + 1) : t[i] = s[m + i - 1]
  BY StretchPositions
<1>2. DOMAIN s = 1..Len(s) /\ Len(s) \in Nat
  BY ElementsByPosition
<1> HIDE DEF t
<1>3. /\ DOMAIN t = 1..(n - m + 1)
      /\ \A y : y \in ToSet(t) <=> \E i \in 1..(n - m + 1) : t[i] = y
  BY <1>1, ElementsByPosition
<1>4. ASSUME NEW i \in 1..(n - m + 1)
      PROVE  m + i - 1 \in 1..Len(s) /\ m + i - 1 \in m..n
  BY <1>2
<1>5. NoRepeats(t)
  <2> SUFFICES ASSUME NEW i \in 1..(n - m + 1), NEW j \in 1..(n - m + 1),
                      t[i] = t[j]
               PROVE  i = j
    BY <1>3 DEF NoRepeats
  <2>1. s[m + i - 1] = s[m + j - 1]
    BY <1>1
  <2>2. m + i - 1 = m + j - 1
    BY <1>2, <1>4, <2>1 DEF NoRepeats
  <2> QED
    BY <2>2
<1>6. ASSUME NEW y PROVE y \in ToSet(t) <=> y \in {s[i] : i \in m..n}
  <2>1. ASSUME y \in ToSet(t) PROVE y \in {s[i] : i \in m..n}
    BY <1>1, <1>3, <1>4, <2>1
  <2>2. ASSUME NEW i \in m..n, y = s[i] PROVE y \in ToSet(t)
    <3>1. i - m + 1 \in 1..(n - m + 1) /\ m + (i - m + 1) - 1 = i
      BY <1>2
    <3> QED
      BY <1>1, <1>3, <2>2, <3>1
  <2> QED
    BY <2>1, <2>2
<1> QED
  BY <1>1, <1>5, <1>6 DEF t

(* Newest keeps no more than n elements, the last one among them.          *)
LEMMA NewestProperties ==
  ASSUME NEW S, NEW s \in Seq(S), NoRepeats(s), s # <<>>, NEW n \in Nat \ {0}
  PROVE  /\ Newest(s, n) \in Seq(S)
         /\ ToSet(Newest(s, n)) \subseteq ToSet(s)
         /\ s[Len(s)] \in ToSet(Newest(s, n))
         /\ NoRepeats(Newest(s, n))
         /\ Len(Newest(s, n)) <= n
<1> DEFINE from == (IF n < Len(s) THEN Len(s) - n ELSE 0) + 1
<1>1. Len(s) \in Nat \ {0} /\ \A y : y \in ToSet(s) <=> \E i \in 1..Len(s) : s[i] = y
  BY ElementsByPosition, EmptySeq
<1>2. from \in Nat \ {0} /\ from <= Len(s) /\ Len(s) - from + 1 <= n
  BY <1>1
<1>5. Newest(s, n) = SubSeq(s, from, Len(s))
  BY DEF Newest
<1> HIDE DEF from
<1>3. Len(s) \in 0..Len(s) /\ from <= Len(s) + 1 /\ Len(s) \in from..Len(s)
      /\ from..Len(s) \subseteq 1..Len(s)
  BY <1>1, <1>2
<1>4. /\ SubSeq(s, from, Len(s)) \in Seq(S)
      /\ Len(SubSeq(s, from, Len(s))) = Len(s) - from + 1
      /\ ToSet(SubSeq(s, from, Len(s))) = {s[i] : i \in from..Len(s)}
      /\ NoRepeats(SubSeq(s, from, Len(s)))
  BY <1>2, <1>3, StretchProperties
<1> QED
  BY <1>1, <1>2, <1>3, <1>4, <1>5

(* The rest of an order, when its first element is dealt with.             *)
LEMMA TailOrderProperties ==
  ASSUME NEW S, NEW s \in Seq(S), NoRepeats(s), s # <<>>
  PROVE  /\ Head(s) \in ToSet(s) /\ Head(s) \in S
         /\ Tail(s) \in Seq(S) /\ NoRepeats(Tail(s))
         /\ ToSet(Tail(s)) = ToSet(s) \ {Head(s)}
<1>1. /\ Len(s) \in Nat \ {0} /\ DOMAIN s = 1..Len(s)
      /\ \A y : y \in ToSet(s) <=> \E i \in 1..Len(s) : s[i] = y
  BY ElementsByPosition, EmptySeq
<1>2. Tail(s) = SubSeq(s, 2, Len(s)) /\ Head(s) = s[1] /\ Head(s) \in S
  BY TailIsSubSeq, HeadTailProperties
<1>3. 2 \in Nat \ {0} /\ Len(s) \in 0..Len(s) /\ 2 <= Len(s) + 1
  BY <1>1
<1>4. /\ SubSeq(s, 2, Len(s)) \in Seq(S) /\ NoRepeats(SubSeq(s, 2, Len(s)))
      /\ ToSet(SubSeq(s, 2, Len(s))) = {s[i] : i \in 2..Len(s)}
  BY <1>3, StretchProperties
<1>5. \A i \in 1..Len(s) : s[i] = s[1] <=> i = 1
  BY <1>1 DEF NoRepeats
<1>6. \A i : i \in 2..Len(s) <=> i \in 1..Len(s) /\ i # 1
  BY <1>1
<1>7. ASSUME NEW y PROVE y \in ToSet(Tail(s)) <=> y \in ToSet(s) \ {Head(s)}
  <2>1. y \in ToSet(Tail(s)) <=> \E i \in 2..Len(s) : s[i] = y
    BY <1>2, <1>4
  <2>2. y \in ToSet(Tail(s)) <=> \E i \in 1..Len(s) : i # 1 /\ s[i] = y
    BY <2>1, <1>6
  <2> QED
    BY <1>1, <1>2, <1>5, <2>2
<1>8. ToSet(Tail(s)) = ToSet(s) \ {Head(s)}
  BY <1>7
<1>9. Head(s) \in ToSet(s)
  BY <1>1, <1>2
<1> QED
  BY <1>2, <1>4, <1>8, <1>9

(* Positions count the elements.                                           *)
LEMMA LengthIsCardinality ==
  ASSUME NEW S, NEW s \in Seq(S)
  PROVE  /\ IsFiniteSet(ToSet(s))
         /\ NoRepeats(s) <=> Cardinality(ToSet(s)) = Len(s)
<1>1. /\ Len(s) \in Nat /\ DOMAIN s = 1..Len(s) /\ s \in [1..Len(s) -> S]
      /\ \A y : y \in ToSet(s) <=> \E i \in 1..Len(s) : s[i] = y
  BY ElementsByPosition, LenProperties
<1>2. s \in Surjection(1..Len(s), ToSet(s))
  BY <1>1 DEF Surjection
<1>3. IsFiniteSet(1..Len(s)) /\ Cardinality(1..Len(s)) = Len(s)
  BY <1>1, FS_Interval
<1>4. /\ IsFiniteSet(ToSet(s))
      /\ Cardinality(ToSet(s)) = Cardinality(1..Len(s))
           <=> s \in Injection(1..Len(s), ToSet(s))
  BY <1>2, <1>3, FS_Surjection
<1>5. s \in Injection(1..Len(s), ToSet(s)) <=> NoRepeats(s)
  BY <1>1, <1>2 DEF Injection, IsInjective, Surjection, NoRepeats
<1> QED
  BY <1>3, <1>4, <1>5
=============================================================================
