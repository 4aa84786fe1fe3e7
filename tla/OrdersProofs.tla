---------------------------- MODULE OrdersProofs ----------------------------
(***************************************************************************)
(* What the proofs of lists and boards need of orders and sequences: a      *)
(* finite set laid out by ranks has each element at one place, and what      *)
(* taking out, putting in and keeping leave of a sequence.                  *)
(***************************************************************************)
EXTENDS Orders, SequencesExt, FiniteSetTheorems, FunctionTheorems, TLAPS

-----------------------------------------------------------------------------
(* The place of an element is the number of those before it: all places are taken,  *)
(* and each by one element.                                                        *)
LEMMA FewerBefore ==
  ASSUME NEW S, IsFiniteSet(S), NEW order, StrictOrder(S, order),
         NEW x \in S, NEW y \in S, <<x, y>> \in order
  PROVE  Cardinality(Before(x, S, order)) < Cardinality(Before(y, S, order))
<1>1. Before(x, S, order) \in SUBSET Before(y, S, order) /\ IsFiniteSet(Before(y, S, order))
  <2>1. Before(y, S, order) \in SUBSET S
    BY DEF Before
  <2>2. Before(x, S, order) \in SUBSET Before(y, S, order)
    BY DEF Before, StrictOrder
  <2>3. QED
    BY <2>1, <2>2, FS_Subset
<1>2. x \in Before(y, S, order) /\ x \notin Before(x, S, order)
  BY DEF Before, StrictOrder
<1>3. /\ IsFiniteSet(Before(x, S, order))
      /\ Cardinality(Before(x, S, order)) <= Cardinality(Before(y, S, order))
      /\ Cardinality(Before(y, S, order)) # Cardinality(Before(x, S, order))
  BY <1>1, <1>2, FS_Subset
<1>4. Cardinality(Before(x, S, order)) \in Nat /\ Cardinality(Before(y, S, order)) \in Nat
  BY <1>1, <1>3, FS_CardinalityType
<1>5. QED
  BY <1>3, <1>4

LEMMA PlacesAreTaken ==
  ASSUME NEW S, IsFiniteSet(S), NEW order, StrictOrder(S, order)
  PROVE  /\ Cardinality(S) \in Nat
         /\ \A x \in S : Cardinality(Before(x, S, order)) \in 0..(Cardinality(S) - 1)
         /\ \A i \in 1..Cardinality(S) : \E x \in S : Cardinality(Before(x, S, order)) = i - 1
<1> DEFINE n == Cardinality(S)
           f == [x \in S |-> Cardinality(Before(x, S, order)) + 1]
<1>1. n \in Nat
  BY FS_CardinalityType
<1>2. ASSUME NEW x \in S PROVE Cardinality(Before(x, S, order)) \in 0..(n - 1)
  <2>1. Before(x, S, order) \in SUBSET S /\ x \notin Before(x, S, order)
    BY DEF Before, StrictOrder
  <2>2. /\ IsFiniteSet(Before(x, S, order))
        /\ Cardinality(Before(x, S, order)) <= n
        /\ n # Cardinality(Before(x, S, order))
    BY <2>1, FS_Subset
  <2>3. Cardinality(Before(x, S, order)) \in Nat
    BY <2>2, FS_CardinalityType
  <2>4. QED
    BY <2>2, <2>3, <1>1
<1>3. f \in Injection(S, 1..n)
  <2>1. f \in [S -> 1..n]
    BY <1>1, <1>2
  <2>2. ASSUME NEW x \in S, NEW y \in S, x # y PROVE f[x] # f[y]
    <3>1. CASE <<x, y>> \in order
      BY <3>1, <1>2, FewerBefore
    <3>2. CASE <<y, x>> \in order
      BY <3>2, <1>2, FewerBefore
    <3>3. QED
      BY <2>2, <3>1, <3>2 DEF StrictOrder
  <2>3. QED
    BY <2>1, <2>2 DEF Injection, IsInjective
<1>4. f \in Surjection(S, 1..n)
  <2>1. IsFiniteSet(1..n) /\ Cardinality(1..n) = n
    BY <1>1, FS_Interval
  <2>2. QED
    BY <1>3, <2>1, FS_Injection
<1>5. ASSUME NEW i \in 1..n PROVE \E x \in S : Cardinality(Before(x, S, order)) = i - 1
  <2>1. PICK x \in S : f[x] = i
    BY <1>4 DEF Surjection
  <2>2. QED
    BY <2>1, <1>1, <1>2
<1>6. QED
  BY <1>1, <1>2, <1>5

(* InOrder is a bijection *)
LEMMA InOrderIsABijection ==
  ASSUME NEW S, IsFiniteSet(S), NEW order, StrictOrder(S, order)
  PROVE  /\ Cardinality(S) \in Nat
         /\ InOrder(S, order) \in Seq(S)
         /\ Len(InOrder(S, order)) = Cardinality(S)
         /\ \A i, j \in 1..Cardinality(S) : InOrder(S, order)[i] = InOrder(S, order)[j] => i = j
         /\ \A x \in S : \E i \in 1..Cardinality(S) : InOrder(S, order)[i] = x
         /\ \A i, j \in 1..Cardinality(S) : <<InOrder(S, order)[i], InOrder(S, order)[j]>> \in order <=> i < j
<1> DEFINE n == Cardinality(S)
           s == InOrder(S, order)
<1>1. n \in Nat
  BY FS_CardinalityType
<1>2. ASSUME NEW i \in 1..n
      PROVE  s[i] \in S /\ Cardinality(Before(s[i], S, order)) = i - 1
  BY PlacesAreTaken DEF InOrder
<1>3. s \in [1..n -> S]
  BY <1>2 DEF InOrder
<1>4. ASSUME NEW x \in S PROVE \E i \in 1..n : s[i] = x
  <2>1. Cardinality(Before(x, S, order)) \in 0..(n - 1)
    BY PlacesAreTaken
  <2>2. PICK i \in 1..n : i = Cardinality(Before(x, S, order)) + 1
    BY <2>1, <1>1
  <2>3. s[i] \in S /\ Cardinality(Before(s[i], S, order)) = Cardinality(Before(x, S, order))
    BY <2>1, <2>2, <1>2, <1>1
  <2>4. ~ (Cardinality(Before(s[i], S, order)) < Cardinality(Before(x, S, order)))
        /\ ~ (Cardinality(Before(x, S, order)) < Cardinality(Before(s[i], S, order)))
    BY <2>1, <2>3, <1>1
  <2>5. <<s[i], x>> \notin order /\ <<x, s[i]>> \notin order
    BY <2>3, <2>4, FewerBefore
  <2>6. s[i] = x
    BY <2>3, <2>5 DEF StrictOrder
  <2>7. QED
    BY <2>6
<1>5. ASSUME NEW i \in 1..n, NEW j \in 1..n, <<s[i], s[j]>> \in order PROVE i < j
  <2>1. Cardinality(Before(s[i], S, order)) < Cardinality(Before(s[j], S, order))
    BY <1>2, <1>5, FewerBefore
  <2>2. QED
    BY <2>1, <1>2, <1>1
<1>6. ASSUME NEW i \in 1..n, NEW j \in 1..n, i < j PROVE <<s[i], s[j]>> \in order
  <2>1. s[i] \in S /\ s[j] \in S /\ s[i] # s[j]
    <3>1. i - 1 # j - 1
      BY <1>6, <1>1
    <3>2. QED
      BY <1>2, <3>1
  <2>2. <<s[j], s[i]>> \notin order
    BY <1>5, <1>6, <1>1
  <2>3. QED
    BY <2>1, <2>2 DEF StrictOrder
<1>7. ASSUME NEW i \in 1..n, NEW j \in 1..n, s[i] = s[j] PROVE i = j
  <2>1. i - 1 = j - 1
    BY <1>2, <1>7
  <2>2. QED
    BY <2>1, <1>1
<1>8. s \in Seq(S) /\ Len(s) = n
  BY <1>1, <1>3
<1>9. QED
  BY <1>1, <1>4, <1>5, <1>6, <1>7, <1>8

(* Who lays a finite set out in its order lays it out as InOrder does. *)
LaysOut(f, n, S, order) ==
  /\ n \in Nat /\ f \in [1..n -> S]
  /\ \A x \in S : \E i \in 1..n : f[i] = x
  /\ \A i, j \in 1..n : i < j => <<f[i], f[j]>> \in order

LEMMA LaidOut ==
  ASSUME NEW S, NEW order, StrictOrder(S, order), NEW n, NEW f, LaysOut(f, n, S, order)
  PROVE  /\ IsFiniteSet(S) /\ Cardinality(S) = n
         /\ \A i \in 1..n : InOrder(S, order)[i] = f[i]
<1> USE DEF LaysOut
<1>1. ASSUME NEW i \in 1..n, NEW j \in 1..n PROVE <<f[i], f[j]>> \in order <=> i < j
  <2>1. f[i] \in S /\ f[j] \in S
    OBVIOUS
  <2>2. i < j \/ i = j \/ j < i
    OBVIOUS
  <2>3. CASE j < i
    <3>1. <<f[j], f[i]>> \in order
      BY <2>3
    <3>2. <<f[i], f[j]>> \notin order
      BY <2>1, <3>1 DEF StrictOrder
    <3>3. QED
      BY <2>3, <3>2
  <2>4. CASE i = j
    BY <2>1, <2>4 DEF StrictOrder
  <2>5. QED
    BY <2>2, <2>3, <2>4
<1>2. ASSUME NEW i \in 1..n, NEW j \in 1..n, f[i] = f[j] PROVE i = j
  <2>1. <<f[i], f[j]>> \notin order /\ <<f[j], f[i]>> \notin order
    <3>1. f[i] \in S
      OBVIOUS
    <3>2. QED
      BY <1>2, <3>1 DEF StrictOrder
  <2>2. ~(i < j) /\ ~(j < i)
    BY <1>1, <2>1
  <2>3. QED
    BY <2>2
<1>3. ASSUME NEW m \in 0..n, NEW T, T = {f[j] : j \in 1..m} PROVE IsFiniteSet(T) /\ Cardinality(T) = m
  <2>1. PICK g : g = [j \in 1..m |-> f[j]]
    OBVIOUS
  <2>2. m \in Nat /\ \A j \in 1..m : j \in 1..n
    OBVIOUS
  <2>3. g \in [1..m -> T]
    BY <1>3, <2>1
  <2>4. \A i, j \in 1..m : g[i] = g[j] => i = j
    BY <1>2, <2>1, <2>2
  <2>5. \A x \in T : \E j \in 1..m : g[j] = x
    BY <1>3, <2>1
  <2>6. g \in Bijection(1..m, T)
    BY <2>3, <2>4, <2>5 DEF Bijection, Injection, Surjection, IsInjective
  <2>7. ExistsBijection(1..m, T)
    BY <2>6 DEF ExistsBijection
  <2>8. QED
    BY <2>2, <2>7, FS_CountingElements, FS_NatBijection
<1>4. IsFiniteSet(S) /\ Cardinality(S) = n
  <2>1. S = {f[j] : j \in 1..n}
    OBVIOUS
  <2>2. n \in 0..n
    OBVIOUS
  <2>3. QED
    BY <1>3, <2>1, <2>2
<1>5. ASSUME NEW i \in 1..n PROVE Cardinality(Before(f[i], S, order)) = i - 1
  <2>1. PICK T : T = {f[j] : j \in 1..(i - 1)}
    OBVIOUS
  <2>2. i - 1 \in 0..n /\ \A j : j \in 1..(i - 1) <=> j \in 1..n /\ j < i
    OBVIOUS
  <2>3. ASSUME NEW x \in S PROVE <<x, f[i]>> \in order <=> x \in T
    <3>1. PICK j \in 1..n : f[j] = x
      OBVIOUS
    <3>2. x \in T <=> \E k \in 1..n : k < i /\ f[k] = x
      BY <2>1, <2>2
    <3>3. QED
      BY <1>1, <1>2, <3>1, <3>2
  <2>4. Before(f[i], S, order) = T
    <3>1. \A x \in T : x \in S
      BY <2>1, <2>2
    <3>2. QED
      BY <2>3, <3>1 DEF Before
  <2>5. QED
    BY <1>3, <2>1, <2>2, <2>4
<1>6. ASSUME NEW i \in 1..n PROVE InOrder(S, order)[i] = f[i]
  <2>1. PICK x : x = InOrder(S, order)[i]
    OBVIOUS
  <2>2. \E y \in S : Cardinality(Before(y, S, order)) = i - 1
    BY <1>5
  <2>3. x \in S /\ Cardinality(Before(x, S, order)) = i - 1
    BY <1>4, <2>1, <2>2 DEF InOrder
  <2>4. PICK k \in 1..n : f[k] = x
    BY <2>3
  <2>5. k - 1 = i - 1
    BY <1>5, <2>3, <2>4
  <2>6. QED
    BY <2>1, <2>4, <2>5
<1>7. QED
  BY <1>4, <1>6

LEMMA RisingIsStrict ==
  ASSUME NEW S \in SUBSET Nat
  PROVE  StrictOrder(S, Rising(S))
BY DEF StrictOrder, Rising

LEMMA RisingPairs == \A S \in SUBSET Nat : \A a, b : <<a, b>> \in Rising(S) => a \in Nat /\ b \in Nat /\ a < b
BY DEF Rising

(* A finite set of numbers that is not empty has a largest and a smallest.         *)
LEMMA LargestNumber ==
  ASSUME NEW S \in SUBSET Nat, IsFiniteSet(S), S # {}
  PROVE  /\ Max(S) \in S /\ \A y \in S : Max(S) >= y
         /\ Min(S) \in S /\ \A y \in S : Min(S) <= y
<1> DEFINE s == InOrder(S, Rising(S))
           n == Cardinality(S)
<1>1. /\ n \in Nat /\ s \in Seq(S) /\ Len(s) = n
      /\ \A x \in S : \E i \in 1..n : s[i] = x
      /\ \A i, j \in 1..n : <<s[i], s[j]>> \in Rising(S) <=> i < j
  BY RisingIsStrict, InOrderIsABijection
<1> HIDE DEF s, n
<1>2. 1 \in 1..n /\ n \in 1..n /\ s[1] \in S /\ s[n] \in S
  <2>1. PICK i \in 1..n : s[i] \in S
    BY <1>1
  <2>2. 1 \in 1..n /\ n \in 1..n
    BY <1>1, <2>1
  <2>3. QED
    BY <1>1, <2>2
<1>3. ASSUME NEW y \in S PROVE s[n] >= y /\ s[1] <= y
  <2>1. PICK i \in 1..n : s[i] = y
    BY <1>1
  <2>2. i = n \/ i < n
    BY <1>1
  <2>3. i = 1 \/ 1 < i
    BY <1>1
  <2>4. s[n] >= y
    <3>1. i = n \/ <<s[i], s[n]>> \in Rising(S)
      BY <1>1, <1>2, <2>2
    <3>2. QED
      BY <1>2, <2>1, <3>1, RisingPairs
  <2>5. s[1] <= y
    <3>1. i = 1 \/ <<s[1], s[i]>> \in Rising(S)
      BY <1>1, <1>2, <2>3
    <3>2. QED
      BY <1>2, <2>1, <3>1, RisingPairs
  <2>6. QED
    BY <2>4, <2>5
<1>4. QED
  BY <1>2, <1>3 DEF Max, Min

(* The place at which an element of a sequence is found.                           *)
LEMMA FoundPlace ==
  ASSUME NEW s \in Seq(Nat), NEW x, Contains(s, x), NEW I, I = {i \in 1..Len(s) : s[i] = x}
  PROVE  I # {} /\ Min(I) \in 1..Len(s) /\ Len(s) \in Nat
<1>0. Len(s) \in Nat /\ \E i \in 1..Len(s) : s[i] = x
  BY DEF Contains
<1>1. I # {} /\ I \in SUBSET Nat /\ I \in SUBSET (1..Len(s)) /\ Len(s) \in Nat
  BY <1>0
<1>2. IsFiniteSet(I)
  <2>1. IsFiniteSet(1..Len(s))
    BY <1>1, FS_Interval
  <2>2. QED
    BY <1>1, <2>1, FS_Subset
<1>3. Min(I) \in I
  BY <1>1, <1>2, LargestNumber
<1>4. QED
  BY <1>1, <1>3

(* Sequences one after the other, and a part of one.                               *)
LEMMA Concatenated ==
  ASSUME NEW S, NEW a \in Seq(S), NEW b \in Seq(S)
  PROVE  /\ a \o b \in Seq(S) /\ Len(a \o b) = Len(a) + Len(b)
         /\ \A k \in 1..(Len(a) + Len(b)) : (a \o b)[k] = IF k <= Len(a) THEN a[k] ELSE b[k - Len(a)]
OBVIOUS

LEMMA PartOf ==
  ASSUME NEW S, NEW s \in Seq(S), NEW i \in 1..(Len(s) + 1), NEW j \in (i - 1)..Len(s)
  PROVE  /\ SubSeq(s, i, j) \in Seq(S) /\ Len(SubSeq(s, i, j)) = j - i + 1
         /\ \A k \in 1..(j - i + 1) : SubSeq(s, i, j)[k] = s[k + i - 1]
OBVIOUS

(* A row is put in another place, or taken out.                                    *)
LEMMA Removed ==
  ASSUME NEW S, NEW s \in Seq(S), NEW i \in DOMAIN s
  PROVE  /\ RemoveAt(s, i) \in Seq(S) /\ Len(RemoveAt(s, i)) = Len(s) - 1
         /\ \A k \in 1..(Len(s) - 1) : RemoveAt(s, i)[k] = IF k < i THEN s[k] ELSE s[k + 1]
<1> DEFINE a == SubSeq(s, 1, i - 1)
           c == SubSeq(s, i + 1, Len(s))
<1>1. Len(s) \in Nat /\ i \in Nat /\ i >= 1 /\ i <= Len(s)
  OBVIOUS
<1>2. a \in Seq(S) /\ Len(a) = i - 1 /\ \A k \in 1..(i - 1) : a[k] = s[k]
  <2>1. 1 \in 1..(Len(s) + 1) /\ i - 1 \in (1 - 1)..Len(s)
    BY <1>1
  <2>2. QED
    BY <1>1, <2>1, PartOf
<1>3. c \in Seq(S) /\ Len(c) = Len(s) - i /\ \A k \in 1..(Len(s) - i) : c[k] = s[k + i]
  <2>1. i + 1 \in 1..(Len(s) + 1) /\ Len(s) \in ((i + 1) - 1)..Len(s)
    BY <1>1
  <2>2. QED
    BY <1>1, <2>1, PartOf
<1>4. RemoveAt(s, i) = a \o c
  BY DEF RemoveAt
<1> HIDE DEF a, c
<1>5. QED
  BY <1>1, <1>2, <1>3, <1>4, Concatenated

PutIn(t, s, i, e) ==
  /\ Len(t) = Len(s) + 1
  /\ \A k \in 1..(Len(s) + 1) : t[k] = IF k < i THEN s[k] ELSE IF k = i THEN e ELSE s[k - 1]

LEMMA Inserted ==
  ASSUME NEW S, NEW s \in Seq(S), NEW i \in 1..(Len(s) + 1), NEW e \in S
  PROVE  InsertAt(s, i, e) \in Seq(S) /\ PutIn(InsertAt(s, i, e), s, i, e)
<1> DEFINE a == SubSeq(s, 1, i - 1)
           b == a \o <<e>>
           c == SubSeq(s, i, Len(s))
<1>1. Len(s) \in Nat /\ i \in Nat /\ i >= 1 /\ i <= Len(s) + 1
  OBVIOUS
<1>2. a \in Seq(S) /\ Len(a) = i - 1 /\ \A k \in 1..(i - 1) : a[k] = s[k]
  <2>1. 1 \in 1..(Len(s) + 1) /\ i - 1 \in (1 - 1)..Len(s)
    BY <1>1
  <2>2. QED
    BY <1>1, <2>1, PartOf
<1>3. c \in Seq(S) /\ Len(c) = Len(s) - i + 1 /\ \A k \in 1..(Len(s) - i + 1) : c[k] = s[k + i - 1]
  <2>1. i \in 1..(Len(s) + 1) /\ Len(s) \in (i - 1)..Len(s)
    BY <1>1
  <2>2. QED
    BY <1>1, <2>1, PartOf
<1>4. InsertAt(s, i, e) = b \o c
  BY DEF InsertAt
<1> HIDE DEF a
<1>5. b \in Seq(S) /\ Len(b) = i /\ b[i] = e /\ \A k \in 1..(i - 1) : b[k] = s[k]
  <2>1. <<e>> \in Seq(S) /\ Len(<<e>>) = 1 /\ <<e>>[1] = e
    OBVIOUS
  <2>2. QED
    BY <1>1, <1>2, <2>1, Concatenated
<1> HIDE DEF b, c
<1>6. /\ b \o c \in Seq(S) /\ Len(b \o c) = Len(s) + 1
      /\ \A k \in 1..(Len(s) + 1) : (b \o c)[k] = IF k <= i THEN b[k] ELSE c[k - i]
  <2>1. Len(b) + Len(c) = Len(s) + 1
    BY <1>1, <1>3, <1>5
  <2>2. /\ b \o c \in Seq(S) /\ Len(b \o c) = Len(b) + Len(c)
        /\ \A k \in 1..(Len(b) + Len(c)) : (b \o c)[k] = IF k <= Len(b) THEN b[k] ELSE c[k - Len(b)]
    BY <1>3, <1>5, Concatenated
  <2>3. QED
    BY <1>5, <2>1, <2>2
<1>7. ASSUME NEW k \in 1..(Len(s) + 1)
      PROVE  InsertAt(s, i, e)[k] = IF k < i THEN s[k] ELSE IF k = i THEN e ELSE s[k - 1]
  <2>1. CASE k <= i
    BY <1>1, <1>4, <1>5, <1>6, <2>1
  <2>2. CASE k > i
    <3>1. k - i \in 1..(Len(s) - i + 1) /\ c[k - i] = s[(k - i) + i - 1]
      BY <1>1, <1>3, <2>2
    <3>2. QED
      BY <1>1, <1>4, <1>6, <2>2, <3>1
  <2>3. QED
    BY <1>1, <2>1, <2>2
<1>8. QED
  BY <1>4, <1>6, <1>7 DEF PutIn

(* What is kept of a sequence is at one of the places, each of them is kept, and  *)
(* nothing twice.                                                                *)
LEMMA KeptElements ==
  ASSUME NEW S, NEW s \in Seq(S), NEW places \in SUBSET (DOMAIN s)
  PROVE  /\ Kept(s, places) \in Seq(S)
         /\ \A k \in DOMAIN Kept(s, places) : \E i \in places : Kept(s, places)[k] = s[i]
         /\ \A i \in places : \E k \in DOMAIN Kept(s, places) : Kept(s, places)[k] = s[i]
         /\ (\A i, j \in places : s[i] = s[j] => i = j) =>
              \A k, m \in DOMAIN Kept(s, places) : Kept(s, places)[k] = Kept(s, places)[m] => k = m
<1> DEFINE t == InOrder(places, Rising(places))
           n == Cardinality(places)
<1>1. places \in SUBSET Nat /\ IsFiniteSet(places)
  <2>1. DOMAIN s = 1..Len(s) /\ Len(s) \in Nat
    OBVIOUS
  <2>2. places \in SUBSET (1..Len(s))
    BY <2>1
  <2>3. IsFiniteSet(1..Len(s))
    BY <2>1, FS_Interval
  <2>4. QED
    BY <2>2, <2>3, FS_Subset
<1>2. /\ n \in Nat /\ t \in Seq(places) /\ Len(t) = n
      /\ \A x \in places : \E i \in 1..n : t[i] = x
      /\ \A k, m \in 1..n : t[k] = t[m] => k = m
  BY <1>1, RisingIsStrict, InOrderIsABijection
<1> DEFINE kept == [k \in 1..n |-> s[t[k]]]
<1>3. Kept(s, places) = kept
  BY DEF Kept
<1>4. n \in Nat /\ \A k \in 1..n : t[k] \in places /\ s[t[k]] \in S
  <2> HIDE DEF t, n
  <2>1. QED
    BY <1>2
<1>5. kept \in Seq(S) /\ DOMAIN kept = 1..n /\ \A k \in 1..n : kept[k] = s[t[k]]
  <2> HIDE DEF t, n
  <2>1. QED
    BY <1>4
<1> HIDE DEF t, n, kept
<1>6. /\ Kept(s, places) \in Seq(S) /\ DOMAIN Kept(s, places) = 1..n
      /\ \A k \in 1..n : Kept(s, places)[k] = s[t[k]]
  BY <1>3, <1>5
<1>7. \A k \in DOMAIN Kept(s, places) : \E i \in places : Kept(s, places)[k] = s[i]
  BY <1>4, <1>6
<1>8. \A i \in places : \E k \in DOMAIN Kept(s, places) : Kept(s, places)[k] = s[i]
  <2> TAKE i \in places
  <2>1. PICK k \in 1..n : t[k] = i
    BY <1>2
  <2>2. QED
    BY <1>6, <2>1
<1>9. ASSUME \A i, j \in places : s[i] = s[j] => i = j
      PROVE  \A k, m \in DOMAIN Kept(s, places) : Kept(s, places)[k] = Kept(s, places)[m] => k = m
  BY <1>2, <1>4, <1>6, <1>9
<1>10. QED
  BY <1>6, <1>7, <1>8, <1>9

LEMMA MovedElement ==
  ASSUME NEW S, NEW s \in Seq(S), NEW i \in DOMAIN s, NEW j \in DOMAIN s,
         NEW t, t = InsertAt(RemoveAt(s, i), j, s[i])
  PROVE  /\ t \in Seq(S)
         /\ \A k \in DOMAIN t : \E m \in DOMAIN s : t[k] = s[m]
         /\ \A m \in DOMAIN s : \E k \in DOMAIN t : t[k] = s[m]
<1>1. PICK u : u = RemoveAt(s, i)
  OBVIOUS
<1>2. /\ u \in Seq(S) /\ Len(u) = Len(s) - 1
      /\ \A k \in 1..(Len(s) - 1) : u[k] = IF k < i THEN s[k] ELSE s[k + 1]
  BY <1>1, Removed
<1>3. PICK n \in Nat : n = Len(s) /\ DOMAIN s = 1..n /\ s[i] \in S
  OBVIOUS
<1>4. /\ t \in Seq(S) /\ Len(t) = n
      /\ \A k \in 1..n : t[k] = IF k < j THEN u[k] ELSE IF k = j THEN s[i] ELSE u[k - 1]
  <2>1. PICK e \in S : e = s[i]
    BY <1>3
  <2>2. n = Len(u) + 1 /\ j \in Nat /\ j \in 1..n
    BY <1>2, <1>3
  <2>3. t = InsertAt(u, j, e)
    BY <1>1, <2>1
  <2>4. j \in 1..(Len(u) + 1)
    BY <2>2
  <2>5. InsertAt(u, j, e) \in Seq(S) /\ PutIn(InsertAt(u, j, e), u, j, e)
    BY <1>2, <2>4, Inserted
  <2>6. t \in Seq(S) /\ Len(t) = n
    BY <2>2, <2>3, <2>5 DEF PutIn
  <2>7. ASSUME NEW k \in 1..n PROVE t[k] = IF k < j THEN u[k] ELSE IF k = j THEN s[i] ELSE u[k - 1]
    BY <2>1, <2>2, <2>3, <2>5 DEF PutIn
  <2>8. QED
    BY <2>6, <2>7
<1>5. DOMAIN t = 1..n
  BY <1>4
<1>6. ASSUME NEW k \in 1..n PROVE \E m \in 1..n : t[k] = s[m]
  <2>1. ASSUME NEW p \in 1..(n - 1) PROVE \E m \in 1..n : u[p] = s[m]
    <3>1. p \in 1..n /\ p + 1 \in 1..n /\ (u[p] = s[p] \/ u[p] = s[p + 1])
      BY <1>2, <1>3
    <3>2. QED
      BY <3>1
  <2>2. CASE k < j
    <3>1. t[k] = u[k] /\ k \in 1..(n - 1)
      BY <1>3, <1>4, <2>2
    <3>2. QED
      BY <2>1, <3>1
  <2>3. CASE k = j
    BY <1>3, <1>4, <2>3
  <2>4. CASE k > j
    <3>1. t[k] = u[k - 1] /\ k - 1 \in 1..(n - 1)
      BY <1>3, <1>4, <2>4
    <3>2. QED
      BY <2>1, <3>1
  <2>5. QED
    BY <1>3, <2>2, <2>3, <2>4
<1>7. ASSUME NEW m \in 1..n PROVE \E k \in 1..n : t[k] = s[m]
  <2>1. ASSUME NEW p \in 1..(n - 1) PROVE \E k \in 1..n : t[k] = u[p]
    <3>1. CASE p < j
      <4>1. p \in 1..n /\ t[p] = u[p]
        BY <1>3, <1>4, <3>1
      <4>2. QED
        BY <4>1
    <3>2. CASE p >= j
      <4>1. PICK q : q = p + 1
        OBVIOUS
      <4>2. q \in 1..n /\ t[q] = u[q - 1] /\ q - 1 = p
        BY <1>3, <1>4, <3>2, <4>1
      <4>3. QED
        BY <4>2
    <3>3. QED
      BY <1>3, <3>1, <3>2
  <2>2. CASE m < i
    <3>1. m \in 1..(n - 1) /\ u[m] = s[m]
      BY <1>2, <1>3, <2>2
    <3>2. QED
      BY <2>1, <3>1
  <2>3. CASE m = i
    BY <1>3, <1>4, <2>3
  <2>4. CASE m > i
    <3>1. PICK p : p = m - 1
      OBVIOUS
    <3>2. p \in 1..(n - 1) /\ u[p] = s[p + 1] /\ p + 1 = m
      BY <1>2, <1>3, <2>4, <3>1
    <3>3. QED
      BY <2>1, <3>2
  <2>5. QED
    BY <1>3, <2>2, <2>3, <2>4
<1>8. DOMAIN s = 1..n
  BY <1>3
<1>9. \A k \in DOMAIN t : \E m \in DOMAIN s : t[k] = s[m]
  BY <1>5, <1>6, <1>8, Zenon
<1>10. \A m \in DOMAIN s : \E k \in DOMAIN t : t[k] = s[m]
  BY <1>5, <1>7, <1>8, Zenon
<1>11. QED
  BY <1>4, <1>9, <1>10

=============================================================================
