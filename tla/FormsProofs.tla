----------------------------- MODULE FormsProofs -----------------------------
(***************************************************************************)
(* Proofs about what the user enters.  Of records and new master passwords *)
(* (MCForms): a form that was accepted reads back as it was saved and loses *)
(* nothing, an edit is later than what it replaces, and form and service   *)
(* decide alike on a password, for lists and passwords of any length.  Of  *)
(* Settings, for every set of delays and themes: a reset reaches the setup *)
(* screen only with everything it removes gone, what is shown is what a    *)
(* restart reads back, and the delays in force are those.  Spec, Init and  *)
(* Next without a prefix are those of Settings.                            *)
(*                                                                         *)
(* Where a fact about lists needs an induction, it is by the least number  *)
(* for which it would fail.                                                *)
(***************************************************************************)
EXTENDS Settings, MCForms, Integers, FiniteSetTheorems, SequenceTheorems, WellFoundedInduction, TLAPS

---------------------------------------------------------------------------
(* Counting.                                                               *)

\* The ways to count a set of numbers upwards.
Countings(F) == {order \in [1..Cardinality(F) -> F] :
                    \A i, j \in 1..Cardinality(F) : i < j => order[i] < order[j]}

\* A set of natural numbers that is not empty has a least element.
LEMMA LeastElement ==
  ASSUME NEW N, N \subseteq Nat, N # {}
  PROVE  \E n \in N : \A m \in N : n <= m
  <1>1. PICK n \in N : \A m \in N : ~(<<m, n>> \in OpToRel(<, Nat))
    BY NatLessThanWellFounded, WFMin, Zenon
  <1>2. \A m \in N : ~(m < n)
    BY <1>1 DEF OpToRel
  <1>. QED
    BY <1>2

LEMMA SubsetOfInterval ==
  ASSUME NEW n \in Nat, NEW F \in SUBSET (1..n)
  PROVE  IsFiniteSet(F) /\ Cardinality(F) \in Nat /\ Cardinality(F) <= n
  <1>1. IsFiniteSet(1..n) /\ Cardinality(1..n) = n
    BY FS_Interval
  <1>2. IsFiniteSet(F) /\ Cardinality(F) <= Cardinality(1..n)
    BY <1>1, FS_Subset
  <1>3. Cardinality(F) \in Nat
    BY <1>2, FS_CardinalityType
  <1>. QED
    BY <1>1, <1>2, <1>3

LEMMA CountOneMore ==
  ASSUME NEW m \in Nat, NEW S \in SUBSET (1..m), m \in S, Countings(S \ {m}) # {}
  PROVE  Countings(S) # {}
  <1>. DEFINE R == S \ {m}
              c == Cardinality(R)
  <1>1. IsFiniteSet(S) /\ Cardinality(S) \in Nat /\ IsFiniteSet(R) /\ c \in Nat
    <2>1. R \in SUBSET (1..m)
      OBVIOUS
    <2>. QED
      BY <2>1, SubsetOfInterval
  <1>2. Cardinality(S) = c + 1
    <2>1. c = Cardinality(S) - 1
      BY <1>1, FS_RemoveElement
    <2>. QED
      BY <1>1, <2>1
  <1>3. PICK order : order \in Countings(R)
    OBVIOUS
  <1>4. order \in [1..c -> R] /\ \A i, j \in 1..c : i < j => order[i] < order[j]
    BY <1>3 DEF Countings
  <1>. DEFINE more == [i \in 1..c + 1 |-> IF i = c + 1 THEN m ELSE order[i]]
  <1>. HIDE DEF c
  <1>5. more \in [1..c + 1 -> S]
    BY <1>1, <1>4
  <1>6. \A i, j \in 1..c + 1 : i < j => more[i] < more[j]
    <2>1. \A i \in 1..c : order[i] < m
      <3>1. \A k \in R : k < m
        OBVIOUS
      <3>. HIDE DEF R
      <3>. QED
        BY <1>4, <3>1
    <2>2. ASSUME NEW i \in 1..c + 1, NEW j \in 1..c + 1, i < j
          PROVE  more[i] < more[j]
      <3>1. i \in 1..c /\ (j \in 1..c \/ j = c + 1)
        BY <1>1, <2>2
      <3>2. more[i] = order[i] /\ more[j] = IF j = c + 1 THEN m ELSE order[j]
        BY <1>1, <3>1
      <3>. HIDE DEF R, more
      <3>. QED
        BY <1>1, <1>4, <2>1, <2>2, <3>1, <3>2
    <2>. QED
      BY <2>2
  <1>. QED
    BY <1>2, <1>5, <1>6 DEF Countings, c

\* The numbers of a set can be counted upwards, ...
LEMMA CanBeCounted ==
  ASSUME NEW n \in Nat, NEW F \in SUBSET (1..n)
  PROVE  Countings(F) # {}
  <1>. DEFINE Hopeless(m) == \E S \in SUBSET (1..m) : Countings(S) = {}
              Uncounted == {m \in Nat : Hopeless(m)}
  <1>1. SUFFICES ASSUME n \in Uncounted PROVE FALSE
    OBVIOUS
  <1>2. PICK m \in Uncounted : \A k \in Uncounted : m <= k
    <2>1. Uncounted # {} /\ Uncounted \subseteq Nat
      BY <1>1
    <2>. HIDE DEF Uncounted
    <2>. QED
      BY <2>1, LeastElement
  <1>3. m \in Nat /\ Hopeless(m)
    OBVIOUS
  <1>4. ASSUME NEW k \in Nat, k < m PROVE ~Hopeless(k)
    <2>1. k \notin Uncounted
      <3>. HIDE DEF Uncounted
      <3>. QED
        BY <1>2, <1>3, <1>4
    <2>. QED
      BY <2>1
  <1>. HIDE DEF Uncounted
  <1>5. PICK S \in SUBSET (1..m) : Countings(S) = {}
    BY <1>3
  <1>. HIDE DEF Hopeless
  <1>6. CASE S = {}
    <2>1. Cardinality(S) = 0
      BY <1>6, FS_EmptySet
    <2>2. [i \in 1..0 |-> 0] \in Countings(S)
      BY <2>1 DEF Countings
    <2>. QED
      BY <1>5, <2>2
  <1>7. CASE S # {} /\ m \notin S
    <2>1. PICK x \in S : TRUE
      BY <1>7
    <2>2. x \in 1..m
      OBVIOUS
    <2>3. m - 1 \in Nat /\ m - 1 < m
      BY <1>3, <2>2
    <2>4. S \in SUBSET (1..m - 1)
      BY <1>3, <1>7
    <2>. QED
      BY <1>4, <1>5, <2>3, <2>4 DEF Hopeless
  <1>8. CASE m \in S
    <2>1. m - 1 \in Nat /\ m - 1 < m /\ S \ {m} \in SUBSET (1..m - 1)
      BY <1>3, <1>8
    <2>2. Countings(S \ {m}) # {}
      BY <1>4, <2>1 DEF Hopeless
    <2>. QED
      BY <1>3, <1>5, <1>8, <2>2, CountOneMore
  <1>. QED
    BY <1>6, <1>7, <1>8

\* ... in a way that comes to each of them, ...
LEMMA AllAreCounted ==
  ASSUME NEW n \in Nat, NEW F \in SUBSET (1..n), NEW order \in Countings(F)
  PROVE  \A i \in F : \E k \in 1..Cardinality(F) : order[k] = i
  <1>. DEFINE c == Cardinality(F)
  <1>1. IsFiniteSet(F) /\ c \in Nat
    BY SubsetOfInterval
  <1>2. order \in [1..c -> F] /\ \A i, j \in 1..c : i < j => order[i] < order[j]
    BY DEF Countings
  <1>. HIDE DEF c
  <1>3. IsFiniteSet(1..c) /\ Cardinality(1..c) = c
    BY <1>1, FS_Interval
  <1>4. ASSUME NEW i \in 1..c, NEW j \in 1..c, order[i] = order[j]
        PROVE  i = j
    <2>1. order[i] \in 1..n
      BY <1>2
    <2>2. ~(i < j) /\ ~(j < i)
      BY <1>2, <1>4, <2>1
    <2>. QED
      BY <1>1, <2>2
  <1>5. order \in Injection(1..c, F)
    BY <1>2, <1>4 DEF Injection, IsInjective
  <1>6. order \in Surjection(1..c, F)
    <2>1. Cardinality(1..c) = Cardinality(F)
      BY <1>3 DEF c
    <2>. QED
      BY <1>1, <1>5, <2>1, FS_Injection
  <1>. QED
    BY <1>6 DEF Surjection, c

\* ... and to all numbers up to n one after the other.
LEMMA CountedInTurn ==
  ASSUME NEW n \in Nat, NEW order \in [1..n -> 1..n],
         \A i, j \in 1..n : i < j => order[i] < order[j]
  PROVE  \A i \in 1..n : order[i] = i
  <1>. DEFINE Lags(d) == \E i \in 1..n : i + d \in 1..n /\ order[i + d] < order[i] + d
              Lagging == {d \in Nat : Lags(d)}
  <1>1. Lagging = {}
    <2>1. SUFFICES ASSUME Lagging # {} PROVE FALSE
      OBVIOUS
    <2>2. PICK d \in Lagging : \A e \in Lagging : d <= e
      <3>1. Lagging \subseteq Nat
        OBVIOUS
      <3>. HIDE DEF Lagging
      <3>. QED
        BY <2>1, <3>1, LeastElement
    <2>3. d \in Nat /\ Lags(d)
      OBVIOUS
    <2>4. PICK i \in 1..n : i + d \in 1..n /\ order[i + d] < order[i] + d
      BY <2>3
    <2>5. order[i] \in 1..n /\ order[i + d] \in 1..n
      BY <2>4
    <2>6. d # 0
      BY <2>4, <2>5
    <2>7. d - 1 \in Nat /\ d - 1 \notin Lagging
      <3>. HIDE DEF Lagging
      <3>. QED
        BY <2>2, <2>3, <2>6
    <2>8. ~Lags(d - 1)
      BY <2>7
    <2>. HIDE DEF Lagging
    <2>9. PICK e : e = d - 1
      OBVIOUS
    <2>10. e \in Nat /\ i + e \in 1..n /\ i + e < i + d
      BY <2>3, <2>4, <2>6, <2>9
    <2>11. order[i + e] \in 1..n
      BY <2>10
    <2>12. ~(order[i + e] < order[i] + e)
      BY <2>8, <2>9, <2>10
    <2>13. order[i + e] < order[i + d]
      BY <2>4, <2>10
    <2>. QED
      BY <2>3, <2>4, <2>5, <2>9, <2>10, <2>11, <2>12, <2>13
  <1>2. ASSUME NEW i \in 1..n, NEW j \in 1..n, i <= j
        PROVE  order[j] >= order[i] + (j - i)
    <2>1. PICK d \in Nat : j = i + d
      <3>1. j - i \in Nat /\ j = i + (j - i)
        BY <1>2
      <3>. QED
        BY <3>1
    <2>2. ~Lags(d)
      BY <1>1
    <2>3. ~(order[i + d] < order[i] + d)
      BY <1>2, <2>1, <2>2
    <2>4. order[i] \in 1..n /\ order[j] \in 1..n
      BY <1>2
    <2>. HIDE DEF Lagging, Lags
    <2>. QED
      BY <1>2, <2>1, <2>3, <2>4
  <1>3. ASSUME NEW i \in 1..n
        PROVE  order[i] = i
    <2>1. 1 \in 1..n /\ n \in 1..n /\ 1 <= i /\ i <= n
      BY <1>3
    <2>2. order[1] \in 1..n /\ order[n] \in 1..n /\ order[i] \in 1..n
      BY <1>3, <2>1
    <2>3. order[i] >= order[1] + (i - 1) /\ order[n] >= order[i] + (n - i)
      BY <1>2, <1>3, <2>1
    <2>. HIDE DEF Lagging, Lags
    <2>4. order[i] >= i
      BY <1>3, <2>2, <2>3
    <2>5. order[i] <= i
      BY <1>3, <2>2, <2>3
    <2>. QED
      BY <1>3, <2>2, <2>4, <2>5
  <1>. QED
    BY <1>3

---------------------------------------------------------------------------
(* A list without repetitions (Entry!Distinct).                            *)

\* E says which elements of S are the same.
Equivalence(E, S) ==
    /\ \A a \in S : <<a, a>> \in E
    /\ \A a, b \in S : <<a, b>> \in E => <<b, a>> \in E
    /\ \A a, b, c \in S : <<a, b>> \in E /\ <<b, c>> \in E => <<a, c>> \in E

\* Where list s says something for the first time.
Firsts(s, E) == {i \in 1..Len(s) : \A j \in 1..i - 1 : <<s[j], s[i]>> \notin E}

Different(s, E) == \A i, j \in 1..Len(s) : <<s[i], s[j]>> \in E => i = j

Picked(s, F, order) == [k \in 1..Cardinality(F) |-> s[order[k]]]

LEMMA SameCardinality == \A F : Entry!Cardinality(F) = Cardinality(F)
  BY DEF Entry!Cardinality, Cardinality

LEMMA DistinctIsCounted ==
  ASSUME NEW n \in Nat, NEW F \in SUBSET (1..n), NEW s
  PROVE  \E order \in Countings(F) : Entry!Distinct(s, F) = Picked(s, F, order)
  <1>1. Countings(F) # {}
    BY CanBeCounted
  <1>. DEFINE order == CHOOSE order \in [1..Entry!Cardinality(F) -> F] :
                         \A m, k \in 1..Entry!Cardinality(F) : m < k => order[m] < order[k]
  <1>2. Entry!Distinct(s, F) = [k \in 1..Entry!Cardinality(F) |-> s[order[k]]]
    BY DEF Entry!Distinct
  <1>3. PICK c : c = Entry!Cardinality(F)
    OBVIOUS
  <1>4. c = Cardinality(F)
    BY <1>3, SameCardinality
  <1>5. \E other \in [1..c -> F] : \A m, k \in 1..c : m < k => other[m] < other[k]
    BY <1>1, <1>4 DEF Countings
  <1>6. order \in [1..c -> F] /\ \A m, k \in 1..c : m < k => order[m] < order[k]
    BY <1>3, <1>5
  <1>. HIDE DEF order
  <1>7. order \in Countings(F)
    BY <1>4, <1>6 DEF Countings
  <1>. QED
    BY <1>2, <1>3, <1>4, <1>7 DEF Picked

\* Each element is represented, once, and nothing is added.
LEMMA DistinctKeepsAll ==
  ASSUME NEW S, NEW E, Equivalence(E, S), NEW s \in Seq(S), NEW D,
         D = Entry!Distinct(s, Firsts(s, E))
  PROVE  /\ D \in Seq(S) /\ Len(D) <= Len(s)
         /\ \A i \in 1..Len(s) : \E k \in 1..Len(D) : <<s[i], D[k]>> \in E
         /\ \A k \in 1..Len(D) : \E i \in 1..Len(s) : D[k] = s[i]
         /\ Different(D, E)
  <1>. DEFINE F == Firsts(s, E)
              c == Cardinality(F)
  <1>1. Len(s) \in Nat /\ F \in SUBSET (1..Len(s))
    BY DEF Firsts
  <1>2. c \in Nat /\ c <= Len(s)
    BY <1>1, SubsetOfInterval
  <1>3. PICK order \in Countings(F) : D = [k \in 1..c |-> s[order[k]]]
    <2>1. PICK order \in Countings(F) : Entry!Distinct(s, F) = Picked(s, F, order)
      <3>. HIDE DEF F
      <3>. QED
        BY <1>1, DistinctIsCounted
    <2>. QED
      BY <2>1 DEF Picked
  <1>4. order \in [1..c -> F] /\ \A i, j \in 1..c : i < j => order[i] < order[j]
    BY DEF Countings
  <1>5. \A i \in F : \E k \in 1..c : order[k] = i
    BY <1>1, AllAreCounted
  <1>6. \A i \in F : i \in 1..Len(s) /\ \A j \in 1..i - 1 : <<s[j], s[i]>> \notin E
    BY DEF Firsts
  <1>. HIDE DEF c
  <1>7. \A i \in 1..Len(s) : s[i] \in S
    OBVIOUS
  <1>8. D \in Seq(S) /\ Len(D) = c
    <2>1. \A k \in 1..c : s[order[k]] \in S
      BY <1>4, <1>6, <1>7
    <2>2. D \in [1..c -> S]
      BY <1>3, <2>1
    <2>. QED
      BY <1>2, <2>2, SeqDef
  <1>9. ASSUME NEW i \in 1..Len(s)
        PROVE  \E k \in 1..c : <<s[i], D[k]>> \in E
    <2>. DEFINE Same == {j \in 1..Len(s) : <<s[j], s[i]>> \in E}
    <2>1. PICK j \in Same : \A m \in Same : j <= m
      <3>1. i \in Same
        BY <1>7 DEF Equivalence
      <3>2. Same \subseteq Nat
        OBVIOUS
      <3>. HIDE DEF Same
      <3>. QED
        BY <3>1, <3>2, LeastElement
    <2>2. j \in 1..Len(s) /\ <<s[j], s[i]>> \in E
      OBVIOUS
    <2>3. ASSUME NEW m \in 1..j - 1, <<s[m], s[j]>> \in E
          PROVE  FALSE
      <3>1. m \in 1..Len(s) /\ m < j
        BY <2>2
      <3>2. <<s[m], s[i]>> \in E
        BY <1>7, <2>2, <2>3, <3>1 DEF Equivalence
      <3>3. m \in Same
        BY <3>1, <3>2
      <3>. HIDE DEF Same
      <3>. QED
        BY <2>1, <2>2, <3>1, <3>3
    <2>4. j \in F
      BY <2>2, <2>3 DEF Firsts
    <2>5. PICK k \in 1..c : order[k] = j
      BY <1>5, <2>4
    <2>6. D[k] = s[j]
      BY <1>3, <2>5
    <2>. QED
      BY <1>7, <2>2, <2>6 DEF Equivalence
  <1>10. \A k \in 1..c : D[k] = s[order[k]] /\ order[k] \in F /\ order[k] \in 1..Len(s)
    BY <1>3, <1>4, <1>6
  <1>11. ASSUME NEW k \in 1..c, NEW l \in 1..c, <<D[k], D[l]>> \in E
         PROVE  k = l
    <2>1. <<s[order[k]], s[order[l]]>> \in E /\ <<s[order[l]], s[order[k]]>> \in E
      BY <1>7, <1>10, <1>11 DEF Equivalence
    <2>2. ~(order[k] < order[l]) /\ ~(order[l] < order[k])
      BY <1>6, <1>10, <2>1
    <2>3. ~(k < l) /\ ~(l < k)
      BY <1>4, <2>2
    <2>. QED
      BY <1>2, <2>3
  <1>. QED
    BY <1>2, <1>8, <1>9, <1>10, <1>11 DEF Different

\* A list without repetitions stays as it is.
LEMMA DistinctStays ==
  ASSUME NEW S, NEW E, NEW s \in Seq(S), Different(s, E)
  PROVE  Entry!Distinct(s, Firsts(s, E)) = s
  <1>1. Len(s) \in Nat
    OBVIOUS
  <1>2. Firsts(s, E) = 1..Len(s)
    <2>1. \A i \in 1..Len(s) : \A j \in 1..i - 1 : j \in 1..Len(s) /\ j # i
      BY <1>1
    <2>. QED
      BY <2>1 DEF Firsts, Different
  <1>3. Cardinality(1..Len(s)) = Len(s)
    BY <1>1, FS_Interval
  <1>4. PICK order \in Countings(1..Len(s)) :
             Entry!Distinct(s, 1..Len(s)) = [k \in 1..Len(s) |-> s[order[k]]]
    <2>1. 1..Len(s) \in SUBSET (1..Len(s))
      OBVIOUS
    <2>2. PICK order \in Countings(1..Len(s)) :
               Entry!Distinct(s, 1..Len(s)) = Picked(s, 1..Len(s), order)
      BY <1>1, <2>1, DistinctIsCounted
    <2>. QED
      BY <1>3, <2>2 DEF Picked
  <1>5. order \in [1..Len(s) -> 1..Len(s)]
        /\ \A i, j \in 1..Len(s) : i < j => order[i] < order[j]
    BY <1>3 DEF Countings
  <1>6. \A k \in 1..Len(s) : order[k] = k
    BY <1>1, <1>5, CountedInTurn
  <1>7. Entry!Distinct(s, 1..Len(s)) = [k \in 1..Len(s) |-> s[k]]
    BY <1>4, <1>6
  <1>. QED
    BY <1>1, <1>2, <1>7

---------------------------------------------------------------------------
(* Hosts and tags, normalized once and twice.                              *)

Hosts == Seq(Entry!Label)

LEMMA LowerCaseIsLower ==
  ASSUME NEW h \in Hosts
  PROVE  /\ Entry!LowerCase(h) \in Hosts /\ Len(Entry!LowerCase(h)) = Len(h)
         /\ \A i \in 1..Len(h) : Entry!LowerCase(h)[i].word = h[i].word
         /\ Entry!LowerCase(Entry!LowerCase(h)) = Entry!LowerCase(h)
  <1>1. Len(h) \in Nat /\ DOMAIN h = 1..Len(h) /\ \A i \in 1..Len(h) : h[i] \in Entry!Label
    BY DEF Hosts
  <1>2. \A i \in 1..Len(h) : /\ [h[i] EXCEPT !.upper = FALSE] \in Entry!Label
                             /\ [h[i] EXCEPT !.upper = FALSE].word = h[i].word
                             /\ [h[i] EXCEPT !.upper = FALSE].upper = FALSE
    BY <1>1 DEF Entry!Label
  <1>. DEFINE lower == Entry!LowerCase(h)
  <1>3. lower = [i \in 1..Len(h) |-> [h[i] EXCEPT !.upper = FALSE]]
    BY <1>1 DEF Entry!LowerCase
  <1>4. lower \in [1..Len(h) -> Entry!Label]
    BY <1>2, <1>3
  <1>5. lower \in Hosts /\ Len(lower) = Len(h) /\ DOMAIN lower = 1..Len(h)
    BY <1>1, <1>4, SeqDef DEF Hosts
  <1>6. \A i \in 1..Len(h) : lower[i].word = h[i].word /\ lower[i].upper = FALSE
    BY <1>2, <1>3
  <1>7. \A i \in 1..Len(h) : [lower[i] EXCEPT !.upper = FALSE] = lower[i]
    BY <1>4, <1>6 DEF Entry!Label
  <1>8. Entry!LowerCase(lower) = [i \in 1..Len(h) |-> [lower[i] EXCEPT !.upper = FALSE]]
    BY <1>5 DEF Entry!LowerCase
  <1>9. Entry!LowerCase(lower) = lower
    BY <1>4, <1>7, <1>8
  <1>. QED
    BY <1>5, <1>6, <1>9

\* The host without its final dot.
Undotted(h) == IF Len(h) > 1 /\ h[Len(h)].word = "" THEN SubSeq(h, 1, Len(h) - 1) ELSE h

LEMMA CanonicalIs ==
  ASSUME NEW h \in Hosts
  PROVE  /\ Undotted(h) \in Hosts
         /\ Entry!CanonicalLoginHost(h).host = Entry!LowerCase(Undotted(h))
         /\ Entry!CanonicalLoginHost(h).valid
               <=> \A i \in 1..Len(Undotted(h)) : Undotted(h)[i].word # ""
  <1>1. Undotted(h) \in Hosts
    <2>1. Len(h) > 1 => SubSeq(h, 1, Len(h) - 1) \in Hosts
      BY SubSeqProperties DEF Hosts
    <2>. QED
      BY <2>1 DEF Undotted
  <1>2. DOMAIN Undotted(h) = 1..Len(Undotted(h))
    BY <1>1 DEF Hosts
  <1>3. Undotted(h) = IF Len(h) > 1 /\ Entry!Last(h).word = "" THEN Entry!Front(h) ELSE h
    BY DEF Undotted, Entry!Last, Entry!Front
  <1>. QED
    BY <1>1, <1>2, <1>3 DEF Entry!CanonicalLoginHost

Canonical(h) == Entry!CanonicalLoginHost(h).host = h /\ Entry!CanonicalLoginHost(h).valid

\* A host in canonical form is in canonical form, and stays valid.
LEMMA CanonicalTwice ==
  ASSUME NEW h \in Hosts
  PROVE  /\ Entry!CanonicalLoginHost(h).host \in Hosts
         /\ Entry!CanonicalLoginHost(h).valid => Canonical(Entry!CanonicalLoginHost(h).host)
  <1>. DEFINE u == Undotted(h)
              c == Entry!LowerCase(u)
  <1>1. /\ u \in Hosts /\ Entry!CanonicalLoginHost(h).host = c
        /\ Entry!CanonicalLoginHost(h).valid <=> \A i \in 1..Len(u) : u[i].word # ""
    BY CanonicalIs
  <1>. HIDE DEF u
  <1>2. Len(u) \in Nat
    <2>1. u \in Seq(Entry!Label)
      BY <1>1 DEF Hosts
    <2>. QED
      BY <2>1, LenProperties
  <1>3. /\ c \in Hosts /\ Len(c) = Len(u)
        /\ \A i \in 1..Len(u) : c[i].word = u[i].word
        /\ Entry!LowerCase(c) = c
    BY <1>1, LowerCaseIsLower
  <1>. HIDE DEF c
  <1>4. ASSUME \A i \in 1..Len(u) : u[i].word # ""
        PROVE  Canonical(c)
    <2>1. \A i \in 1..Len(c) : c[i].word # ""
      BY <1>3, <1>4
    <2>2. Undotted(c) = c
      <3>1. Len(c) > 1 => Len(c) \in 1..Len(c)
        BY <1>2, <1>3
      <3>. QED
        BY <2>1, <3>1 DEF Undotted
    <2>. QED
      BY <1>3, <2>1, <2>2, CanonicalIs DEF Canonical
  <1>. QED
    BY <1>1, <1>3, <1>4

HostsAreTheSame == {<<h, h>> : h \in Hosts}

LEMMA HostEquivalence == Equivalence(HostsAreTheSame, Hosts)
  BY DEF Equivalence, HostsAreTheSame

\* The hosts of a list, each in canonical form.
EachCanonical(hs) == [i \in 1..Len(hs) |-> Entry!CanonicalLoginHost(hs[i]).host]

LEMMA CanonicalHostsAre ==
  ASSUME NEW hs \in Seq(Hosts)
  PROVE  /\ EachCanonical(hs) \in Seq(Hosts) /\ Len(EachCanonical(hs)) = Len(hs)
         /\ Entry!CanonicalHosts(hs)
              = Entry!Distinct(EachCanonical(hs), Firsts(EachCanonical(hs), HostsAreTheSame))
  <1>. DEFINE s == EachCanonical(hs)
  <1>1. Len(hs) \in Nat /\ DOMAIN hs = 1..Len(hs) /\ \A i \in 1..Len(hs) : hs[i] \in Hosts
    OBVIOUS
  <1>2. \A i \in 1..Len(hs) : Entry!CanonicalLoginHost(hs[i]).host \in Hosts
    BY <1>1, CanonicalTwice
  <1>3. s \in [1..Len(hs) -> Hosts]
    BY <1>2 DEF EachCanonical
  <1>4. s \in Seq(Hosts) /\ Len(s) = Len(hs) /\ DOMAIN s = 1..Len(hs)
    BY <1>1, <1>3, SeqDef
  <1>5. s = [i \in DOMAIN hs |-> Entry!CanonicalLoginHost(hs[i]).host]
    BY <1>1 DEF EachCanonical
  <1>. HIDE DEF s
  <1>6. {i \in DOMAIN s : \A j \in 1..i - 1 : s[j] # s[i]} = Firsts(s, HostsAreTheSame)
    <2>1. ASSUME NEW i \in 1..Len(hs), NEW j \in 1..i - 1
          PROVE  s[j] # s[i] <=> <<s[j], s[i]>> \notin HostsAreTheSame
      <3>1. s[j] \in Hosts /\ s[i] \in Hosts
        BY <1>1, <1>3
      <3>. QED
        BY <3>1 DEF HostsAreTheSame
    <2>. QED
      BY <1>4, <2>1 DEF Firsts
  <1>7. Entry!CanonicalHosts(hs)
          = Entry!Distinct(s, {i \in DOMAIN s : \A j \in 1..i - 1 : s[j] # s[i]})
    BY <1>5 DEF Entry!CanonicalHosts
  <1>. QED
    BY <1>4, <1>6, <1>7 DEF s

\* The hosts of an accepted form are accepted again, and stay as they are.
LEMMA HostsTwice ==
  ASSUME NEW hs \in Seq(Hosts), NEW r, r = Entry!CanonicalHosts(hs)
  PROVE  /\ r \in Seq(Hosts) /\ Len(r) <= Len(hs)
         /\ (\A i \in 1..Len(hs) : Entry!CanonicalLoginHost(hs[i]).valid) =>
               /\ \A k \in 1..Len(r) : Entry!CanonicalLoginHost(r[k]).valid
               /\ Entry!CanonicalHosts(r) = r
  <1>. DEFINE s == EachCanonical(hs)
  <1>1. s \in Seq(Hosts) /\ Len(s) = Len(hs) /\ Len(s) \in Nat
        /\ r = Entry!Distinct(s, Firsts(s, HostsAreTheSame))
    BY CanonicalHostsAre
  <1>2. \A i \in 1..Len(hs) : s[i] = Entry!CanonicalLoginHost(hs[i]).host /\ hs[i] \in Hosts
    BY <1>1 DEF EachCanonical
  <1>. HIDE DEF s
  <1>3. r \in Seq(Hosts) /\ Len(r) <= Len(s)
    BY <1>1, HostEquivalence, DistinctKeepsAll
  <1>4. \A k \in 1..Len(r) : \E i \in 1..Len(s) : r[k] = s[i]
    BY <1>1, HostEquivalence, DistinctKeepsAll
  <1>5. Different(r, HostsAreTheSame)
    BY <1>1, HostEquivalence, DistinctKeepsAll
  <1>6. ASSUME \A i \in 1..Len(hs) : Entry!CanonicalLoginHost(hs[i]).valid
        PROVE  \A k \in 1..Len(r) : Canonical(r[k])
    BY <1>1, <1>2, <1>4, <1>6, CanonicalTwice
  <1>7. ASSUME \A i \in 1..Len(hs) : Entry!CanonicalLoginHost(hs[i]).valid
        PROVE  /\ \A k \in 1..Len(r) : Entry!CanonicalLoginHost(r[k]).valid
               /\ Entry!CanonicalHosts(r) = r
    <2>1. \A k \in 1..Len(r) : Entry!CanonicalLoginHost(r[k]).host = r[k]
      BY <1>6, <1>7 DEF Canonical
    <2>2. EachCanonical(r) = r
      BY <1>3, <2>1 DEF EachCanonical
    <2>3. Entry!CanonicalHosts(r) = Entry!Distinct(r, Firsts(r, HostsAreTheSame))
      BY <1>3, <2>2, CanonicalHostsAre
    <2>4. Entry!CanonicalHosts(r) = r
      BY <1>3, <1>5, <2>3, DistinctStays
    <2>. QED
      BY <1>6, <1>7, <2>4 DEF Canonical
  <1>. QED
    BY <1>1, <1>3, <1>7

EndsInDot(h) == h[Len(h)].word = ""

LabelInLowerCase(l) == [l EXCEPT !.upper = FALSE]

LEMMA SameLabels ==
  ASSUME NEW a \in Entry!Label, NEW b \in Entry!Label, a.word = b.word, a.upper = b.upper
  PROVE  a = b
  <1>1. a = [word |-> a.word, upper |-> a.upper] /\ b = [word |-> b.word, upper |-> b.upper]
    BY DEF Entry!Label
  <1>. QED
    BY <1>1, Zenon

LEMMA NothingInLowerCase ==
  ASSUME NEW l \in Entry!Label, l.word = ""
  PROVE  [l EXCEPT !.upper = FALSE] = Entry!Low("")
  <1>1. Entry!Low("") \in Entry!Label /\ Entry!Low("").word = "" /\ Entry!Low("").upper = FALSE
    BY DEF Entry!Label, Entry!Low
  <1>2. /\ [l EXCEPT !.upper = FALSE] \in Entry!Label
        /\ [l EXCEPT !.upper = FALSE].word = l.word /\ [l EXCEPT !.upper = FALSE].upper = FALSE
    BY DEF Entry!Label
  <1>. QED
    BY <1>1, <1>2, SameLabels

\* Lowered letter by letter, a host is its beginning, lowered, and its last label.
LEMMA LastLabelComesLast ==
  ASSUME NEW n \in Nat, n > 1, NEW h \in Seq(Entry!Label), Len(h) = n, EndsInDot(h)
  PROVE  Entry!LowerCase(h) = Append(Entry!LowerCase(SubSeq(h, 1, n - 1)), Entry!Low(""))
  <1>. DEFINE short == SubSeq(h, 1, n - 1)
              begin == Entry!LowerCase(short)
              end == Entry!Low("")
              lowered == Entry!LowerCase(h)
  <1>1. n \in 1..n /\ n - 1 \in 1..n /\ 1 \in 1..n /\ n - 1 \in Nat
    OBVIOUS
  <1>2. short \in Seq(Entry!Label) /\ Len(short) = n - 1 /\ \A j \in 1..n - 1 : short[j] = h[j]
    <2>1. SubSeq(h, 1, n - 1) \in Seq(Entry!Label)
      BY <1>1, SubSeqProperties
    <2>2. Len(SubSeq(h, 1, n - 1)) = n - 1
      BY <1>1, SubSeqProperties
    <2>3. \A j \in 1..n - 1 : SubSeq(h, 1, n - 1)[j] = h[j]
      BY <1>1, SubSeqProperties
    <2>. QED
      BY <1>1, <2>1, <2>2, <2>3
  <1>. HIDE DEF short
  <1>3. short \in Hosts /\ h \in Hosts
    BY <1>2 DEF Hosts
  <1>4. begin \in Seq(Entry!Label) /\ Len(begin) = n - 1 /\ lowered \in Seq(Entry!Label) /\ Len(lowered) = n
    BY <1>2, <1>3, LowerCaseIsLower DEF Hosts
  <1>5. DOMAIN h = 1..n /\ DOMAIN short = 1..n - 1
    BY <1>2, LenProperties
  <1>6. /\ \A j \in 1..n : lowered[j] = LabelInLowerCase(h[j])
        /\ \A j \in 1..n - 1 : begin[j] = LabelInLowerCase(short[j])
    <2>1. /\ lowered = [j \in 1..n |-> LabelInLowerCase(h[j])]
          /\ begin = [j \in 1..n - 1 |-> LabelInLowerCase(short[j])]
      BY <1>5 DEF Entry!LowerCase, LabelInLowerCase
    <2>. QED
      BY <2>1
  <1>7. lowered[n] = end /\ end \in Entry!Label
    <2>1. PICK last \in Entry!Label : last = h[n]
      BY <1>1, ElementOfSeq
    <2>2. last.word = ""
      BY <2>1 DEF EndsInDot
    <2>3. LabelInLowerCase(last) = end
      BY <2>2, NothingInLowerCase DEF LabelInLowerCase
    <2>4. lowered[n] = LabelInLowerCase(last)
      BY <1>1, <1>6, <2>1
    <2>. QED
      BY <2>3, <2>4 DEF Entry!Label, Entry!Low
  <1>8. ASSUME NEW j \in 1..n - 1
        PROVE  lowered[j] = begin[j]
    <2>1. j \in 1..n
      OBVIOUS
    <2>. QED
      BY <1>2, <1>6, <2>1
  <1>. HIDE DEF begin, end, lowered
  <1>9. Append(begin, end) \in Seq(Entry!Label) /\ Len(Append(begin, end)) = n
    BY <1>4, <1>7, AppendProperties
  <1>10. \A j \in 1..n - 1 : Append(begin, end)[j] = begin[j]
    BY <1>4, <1>7, AppendProperties
  <1>11. Append(begin, end)[n] = end
    <2>1. Append(begin, end)[Len(begin) + 1] = end
      BY <1>4, <1>7, AppendProperties
    <2>. QED
      BY <1>4, <2>1
  <1>12. \A j \in 1..n : lowered[j] = Append(begin, end)[j]
    <2>1. \A j \in 1..n : j = n \/ j \in 1..n - 1
      OBVIOUS
    <2>. QED
      BY <1>7, <1>8, <1>10, <1>11, <2>1
  <1>13. lowered = Append(begin, end)
    BY <1>4, <1>9, <1>12, SeqEqual
  <1>. QED
    BY <1>13 DEF begin, end, lowered, short

\* Nothing of a host is lost but its letter case and a final dot.
LEMMA HostsAreKept ==
  ASSUME NEW hs \in Seq(Hosts), NEW i \in 1..Len(hs)
  PROVE  \E k \in 1..Len(Entry!CanonicalHosts(hs)) :
            Entry!LowerCase(hs[i]) \in {Entry!CanonicalHosts(hs)[k],
                                        Append(Entry!CanonicalHosts(hs)[k], Entry!Low(""))}
  <1>. DEFINE s == EachCanonical(hs)
              r == Entry!CanonicalHosts(hs)
  <1>1. PICK h \in Hosts : h = hs[i]
    BY ElementOfSeq
  <1>2. s[i] = Entry!LowerCase(Undotted(h)) /\ i \in 1..Len(s)
    <2>1. s[i] = Entry!CanonicalLoginHost(h).host
      BY <1>1 DEF EachCanonical
    <2>2. Len(s) = Len(hs)
      BY CanonicalHostsAre
    <2>. QED
      BY <2>1, <2>2, CanonicalIs
  <1>3. s \in Seq(Hosts) /\ r = Entry!Distinct(s, Firsts(s, HostsAreTheSame))
    BY CanonicalHostsAre
  <1>. HIDE DEF s, r
  <1>4. PICK k \in 1..Len(r) : <<s[i], r[k]>> \in HostsAreTheSame
    BY <1>2, <1>3, HostEquivalence, DistinctKeepsAll
  <1>5. r[k] = Entry!LowerCase(Undotted(h))
    BY <1>2, <1>4 DEF HostsAreTheSame
  <1>6. Entry!LowerCase(h) \in {r[k], Append(r[k], Entry!Low(""))}
    <2>1. CASE Undotted(h) = h
      BY <1>5, <2>1
    <2>2. CASE Undotted(h) # h
      <3>1. Len(h) \in Nat /\ h \in Seq(Entry!Label)
        BY LenProperties DEF Hosts
      <3>2. Len(h) > 1 /\ h[Len(h)].word = "" /\ Undotted(h) = SubSeq(h, 1, Len(h) - 1)
        BY <2>2 DEF Undotted
      <3>3. Entry!LowerCase(h) = Append(Entry!LowerCase(SubSeq(h, 1, Len(h) - 1)), Entry!Low(""))
        <4>1. EndsInDot(h) /\ Len(h) > 1
          BY <3>2 DEF EndsInDot
        <4>. QED
          BY <3>1, <4>1, LastLabelComesLast
      <3>. QED
        BY <1>5, <3>2, <3>3
    <2>. QED
      BY <2>1, <2>2
  <1>. QED
    BY <1>1, <1>4, <1>6 DEF r

\* Which tags are the same, for a credential or a note.
TagsAreTheSame(k) ==
    {p \in Entry!Tag \X Entry!Tag :
        /\ p[1].word = p[2].word
        /\ p[1].upper = p[2].upper \/ k = "credential" \/ p[1].word \notin Accented}

LEMMA TagEquivalence ==
  ASSUME NEW k
  PROVE  Equivalence(TagsAreTheSame(k), Entry!Tag)
  BY DEF Equivalence, TagsAreTheSame

LEMMA TrimmedTags ==
  ASSUME NEW t \in Entry!Tag
  PROVE  /\ Entry!Trimmed(t) \in Entry!Tag
         /\ Entry!Trimmed(t).word = t.word /\ Entry!Trimmed(t).upper = t.upper
         /\ Entry!Trimmed(Entry!Trimmed(t)) = Entry!Trimmed(t)
  BY DEF Entry!Tag, Entry!Trimmed

EachTrimmed(ts) == [i \in 1..Len(ts) |-> Entry!Trimmed(ts[i])]

LEMMA CanonicalTagsAre ==
  ASSUME NEW ts \in Seq(Entry!Tag), NEW k, k = kind
  PROVE  /\ EachTrimmed(ts) \in Seq(Entry!Tag) /\ Len(EachTrimmed(ts)) = Len(ts)
         /\ Entry!CanonicalTags(ts)
              = Entry!Distinct(EachTrimmed(ts), Firsts(EachTrimmed(ts), TagsAreTheSame(k)))
  <1>. DEFINE s == EachTrimmed(ts)
  <1>1. Len(ts) \in Nat /\ DOMAIN ts = 1..Len(ts) /\ \A i \in 1..Len(ts) : ts[i] \in Entry!Tag
    BY LenProperties
  <1>2. s \in [1..Len(ts) -> Entry!Tag]
    BY <1>1, TrimmedTags DEF EachTrimmed
  <1>3. s \in Seq(Entry!Tag) /\ Len(s) = Len(ts) /\ DOMAIN s = 1..Len(ts)
    BY <1>1, <1>2, SeqDef
  <1>4. s = [i \in DOMAIN ts |-> Entry!Trimmed(ts[i])]
    BY <1>1 DEF EachTrimmed
  <1>. HIDE DEF s
  <1>5. {i \in DOMAIN s : \A j \in 1..i - 1 : ~Entry!SameTag(s[j], s[i])}
          = Firsts(s, TagsAreTheSame(k))
    <2>1. ASSUME NEW i \in 1..Len(ts), NEW j \in 1..i - 1
          PROVE  ~Entry!SameTag(s[j], s[i]) <=> <<s[j], s[i]>> \notin TagsAreTheSame(k)
      <3>1. s[j] \in Entry!Tag /\ s[i] \in Entry!Tag
        BY <1>1, <1>2
      <3>. QED
        BY <3>1 DEF TagsAreTheSame, Entry!SameTag
    <2>. QED
      BY <1>3, <2>1 DEF Firsts
  <1>6. Entry!CanonicalTags(ts)
          = Entry!Distinct(s, {i \in DOMAIN s : \A j \in 1..i - 1 : ~Entry!SameTag(s[j], s[i])})
    BY <1>4 DEF Entry!CanonicalTags
  <1>. QED
    BY <1>3, <1>5, <1>6 DEF s

\* The tags of an accepted form are accepted again, and stay as they are; each that was
\* entered is among them, and none twice.
LEMMA TagsTwice ==
  ASSUME NEW ts \in Seq(Entry!Tag), NEW k, k = kind, NEW r, r = Entry!CanonicalTags(ts)
  PROVE  /\ r \in Seq(Entry!Tag) /\ Len(r) <= Len(ts)
         /\ Entry!CanonicalTags(r) = r
         /\ (\A i \in 1..Len(ts) : ts[i].word # "") => \A j \in 1..Len(r) : r[j].word # ""
         /\ \A i \in 1..Len(ts) : \E j \in 1..Len(r) : Entry!SameTag(ts[i], r[j])
         /\ \A i, j \in 1..Len(r) : Entry!SameTag(r[i], r[j]) => i = j
  <1>. DEFINE s == EachTrimmed(ts)
              E == TagsAreTheSame(k)
  <1>1. s \in Seq(Entry!Tag) /\ Len(s) = Len(ts) /\ r = Entry!Distinct(s, Firsts(s, E))
    BY CanonicalTagsAre
  <1>2. \A i \in 1..Len(ts) : s[i] = Entry!Trimmed(ts[i]) /\ ts[i] \in Entry!Tag
    BY LenProperties DEF EachTrimmed
  <1>3. Equivalence(E, Entry!Tag)
    BY TagEquivalence
  <1>4. \A a, b \in Entry!Tag : Entry!SameTag(a, b) <=> <<a, b>> \in E
    BY DEF TagsAreTheSame, Entry!SameTag
  <1>. HIDE DEF s, E
  <1>5. r \in Seq(Entry!Tag) /\ Len(r) <= Len(s)
    BY <1>1, <1>3, DistinctKeepsAll
  <1>6. \A j \in 1..Len(r) : \E i \in 1..Len(s) : r[j] = s[i]
    BY <1>1, <1>3, DistinctKeepsAll
  <1>7. Different(r, E)
    BY <1>1, <1>3, DistinctKeepsAll
  <1>8. \A i \in 1..Len(s) : \E j \in 1..Len(r) : <<s[i], r[j]>> \in E
    BY <1>1, <1>3, DistinctKeepsAll
  <1>9. \A j \in 1..Len(r) : r[j] \in Entry!Tag
    BY <1>5
  <1>10. \A j \in 1..Len(r) : Entry!Trimmed(r[j]) = r[j]
    BY <1>1, <1>2, <1>6, TrimmedTags
  <1>11. Entry!CanonicalTags(r) = r
    <2>1. EachTrimmed(r) = r
      BY <1>5, <1>10 DEF EachTrimmed
    <2>2. Entry!CanonicalTags(r) = Entry!Distinct(r, Firsts(r, E))
      BY <1>5, <2>1, CanonicalTagsAre DEF E
    <2>. QED
      BY <1>5, <1>7, <2>2, DistinctStays
  <1>12. ASSUME \A i \in 1..Len(ts) : ts[i].word # ""
         PROVE  \A j \in 1..Len(r) : r[j].word # ""
    <2>1. ASSUME NEW j \in 1..Len(r)
          PROVE  r[j].word # ""
      <3>1. PICK i \in 1..Len(ts) : r[j] = s[i]
        BY <1>1, <1>6
      <3>2. ts[i] \in Entry!Tag /\ s[i] = Entry!Trimmed(ts[i])
        BY <1>2
      <3>3. s[i].word = ts[i].word
        BY <3>2, TrimmedTags
      <3>. QED
        BY <1>12, <3>1, <3>3
    <2>. QED
      BY <2>1
  <1>13. ASSUME NEW i \in 1..Len(ts)
         PROVE  \E j \in 1..Len(r) : Entry!SameTag(ts[i], r[j])
    <2>1. PICK j \in 1..Len(r) : <<s[i], r[j]>> \in E
      BY <1>1, <1>8
    <2>2. ts[i] \in Entry!Tag /\ s[i] = Entry!Trimmed(ts[i])
      BY <1>2
    <2>3. Entry!SameTag(s[i], r[j])
      BY <1>4, <1>9, <2>1, <2>2, TrimmedTags
    <2>4. s[i].word = ts[i].word /\ s[i].upper = ts[i].upper
      BY <2>2, TrimmedTags
    <2>5. Entry!SameTag(ts[i], r[j])
      BY <2>3, <2>4 DEF Entry!SameTag
    <2>. QED
      BY <2>5
  <1>14. \A i, j \in 1..Len(r) : Entry!SameTag(r[i], r[j]) => i = j
    BY <1>4, <1>7, <1>9 DEF Different
  <1>. QED
    BY <1>1, <1>5, <1>11, <1>12, <1>13, <1>14

---------------------------------------------------------------------------
(* A form, normalized once and twice.                                      *)

LEMMA TrimmedTexts ==
  ASSUME NEW t \in Entry!Text
  PROVE  Entry!Trimmed(t) \in Entry!Text /\ Entry!Trimmed(Entry!Trimmed(t)) = Entry!Trimmed(t)
  BY DEF Entry!Text, Entry!Trimmed

LEMMA PlainIsForm == Entry!Plain \in Entry!Form
  <1>1. MaxText \in Nat \ {0}
    BY FormsAssumption DEF Entry!InputAssumption
  <1>2. /\ [length |-> 1, padded |-> FALSE] \in Entry!Text
        /\ [length |-> 0, padded |-> FALSE] \in Entry!Text
    BY <1>1 DEF Entry!Text
  <1>3. <<>> \in Seq(Seq(Entry!Label)) /\ <<>> \in Seq(Entry!Tag)
    BY EmptySeq
  <1>. QED
    BY <1>2, <1>3 DEF Entry!Plain, Entry!Form

LEMMA FormFields ==
  ASSUME NEW f \in Entry!Form
  PROVE  /\ f.name \in Entry!Text /\ f.password \in Entry!Text /\ f.website \in Entry!Text
         /\ f.hosts \in Seq(Hosts) /\ f.tags \in Seq(Entry!Tag)
         /\ f = [name |-> f.name, password |-> f.password, website |-> f.website,
                 hosts |-> f.hosts, tags |-> f.tags]
         /\ DOMAIN f.hosts = 1..Len(f.hosts) /\ DOMAIN f.tags = 1..Len(f.tags)
         /\ Len(f.hosts) \in Nat /\ Len(f.tags) \in Nat
  <1>1. /\ f.name \in Entry!Text /\ f.password \in Entry!Text /\ f.website \in Entry!Text
        /\ f.hosts \in Seq(Hosts) /\ f.tags \in Seq(Entry!Tag)
        /\ f = [name |-> f.name, password |-> f.password, website |-> f.website,
                hosts |-> f.hosts, tags |-> f.tags]
    BY DEF Entry!Form, Hosts
  <1>. QED
    BY <1>1, LenProperties

LEMMA FormIsBuilt ==
  ASSUME NEW n \in Entry!Text, NEW p \in Entry!Text, NEW w \in Entry!Text,
         NEW hs \in Seq(Hosts), NEW ts \in Seq(Entry!Tag)
  PROVE  [name |-> n, password |-> p, website |-> w, hosts |-> hs, tags |-> ts] \in Entry!Form
  BY DEF Entry!Form, Hosts

LEMMA ShorterIsShort ==
  ASSUME NEW a \in Nat, NEW b \in Nat, b <= a
  PROVE  a <= MaxList => b <= MaxList
  <1>1. MaxList \in Nat
    BY FormsAssumption DEF Entry!InputAssumption
  <1>. QED
    BY <1>1

\* A credential that is accepted is accepted again, as it is.
LEMMA CredentialTwice ==
  ASSUME NEW f \in Entry!Form, NEW k, k = kind,
         NEW g, g = Entry!NormalizedCredential(f).form
  PROVE  /\ g \in Entry!Form
         /\ Entry!NormalizedCredential(f).valid =>
               /\ Entry!NormalizedCredential(g).valid
               /\ Entry!NormalizedCredential(g).form = g
  <1>. DEFINE hosts == Entry!CanonicalHosts(f.hosts)
              tags == Entry!CanonicalTags(f.tags)
              name == Entry!Trimmed(f.name)
              website == Entry!Trimmed(f.website)
  <1>1. PICK hs \in Seq(Hosts), ts \in Seq(Entry!Tag) :
             hs = f.hosts /\ ts = f.tags /\ Len(hs) \in Nat /\ Len(ts) \in Nat
             /\ DOMAIN hs = 1..Len(hs) /\ DOMAIN ts = 1..Len(ts)
    BY FormFields
  <1>2. PICK hr, tr : hr = hosts /\ tr = tags
    OBVIOUS
  <1>3. /\ hr \in Seq(Hosts) /\ Len(hr) <= Len(hs)
        /\ (\A i \in 1..Len(hs) : Entry!CanonicalLoginHost(hs[i]).valid) =>
              /\ \A i \in 1..Len(hr) : Entry!CanonicalLoginHost(hr[i]).valid
              /\ Entry!CanonicalHosts(hr) = hr
    BY <1>1, <1>2, HostsTwice
  <1>4. /\ tr \in Seq(Entry!Tag) /\ Len(tr) <= Len(ts)
        /\ Entry!CanonicalTags(tr) = tr
        /\ (\A i \in 1..Len(ts) : ts[i].word # "") => \A j \in 1..Len(tr) : tr[j].word # ""
    BY <1>1, <1>2, TagsTwice
  <1>5. name \in Entry!Text /\ website \in Entry!Text /\ f.password \in Entry!Text
        /\ Entry!Trimmed(name) = name /\ Entry!Trimmed(website) = website
    BY FormFields, TrimmedTexts
  <1>6. g = [name |-> name, password |-> f.password, website |-> website, hosts |-> hr, tags |-> tr]
    BY <1>2 DEF Entry!NormalizedCredential
  <1>. HIDE DEF name, website, hosts, tags
  <1>7. g \in Entry!Form
    <2>1. hr \in Seq(Hosts) /\ tr \in Seq(Entry!Tag)
      BY <1>3, <1>4
    <2>2. name \in Entry!Text /\ website \in Entry!Text /\ f.password \in Entry!Text
      BY <1>5
    <2>3. [name |-> name, password |-> f.password, website |-> website, hosts |-> hr, tags |-> tr]
            \in Entry!Form
      BY <2>1, <2>2, FormIsBuilt
    <2>. QED
      BY <1>6, <2>3
  <1>8. /\ g.name = name /\ g.password = f.password /\ g.website = website
        /\ g.hosts = hr /\ g.tags = tr
    BY <1>6
  <1>9. Entry!NormalizedCredential(f).valid <=>
           /\ Entry!TextIsValid(name) /\ Entry!TextIsValid(f.password)
           /\ Entry!CharacterCount(website) <= MaxText
           /\ Len(hs) <= MaxList
           /\ \A i \in 1..Len(hs) : Entry!CanonicalLoginHost(hs[i]).valid
           /\ Len(ts) <= MaxList
           /\ \A i \in 1..Len(ts) : ts[i].word # ""
    BY <1>1 DEF Entry!NormalizedCredential, name, website
  <1>10. Entry!NormalizedCredential(g).valid <=>
           /\ Entry!TextIsValid(name) /\ Entry!TextIsValid(f.password)
           /\ Entry!CharacterCount(website) <= MaxText
           /\ Len(hr) <= MaxList
           /\ \A i \in 1..Len(hr) : Entry!CanonicalLoginHost(hr[i]).valid
           /\ Len(tr) <= MaxList
           /\ \A i \in 1..Len(tr) : tr[i].word # ""
    <2>1. DOMAIN hr = 1..Len(hr) /\ DOMAIN tr = 1..Len(tr)
      BY <1>3, <1>4, LenProperties
    <2>. QED
      BY <1>5, <1>8, <2>1 DEF Entry!NormalizedCredential
  <1>11. Entry!NormalizedCredential(g).form
           = [name |-> Entry!Trimmed(name), password |-> f.password,
              website |-> Entry!Trimmed(website),
              hosts |-> Entry!CanonicalHosts(hr), tags |-> Entry!CanonicalTags(tr)]
    BY <1>8 DEF Entry!NormalizedCredential
  <1>12. (Len(hs) <= MaxList => Len(hr) <= MaxList) /\ (Len(ts) <= MaxList => Len(tr) <= MaxList)
    <2>1. Len(hr) \in Nat /\ Len(tr) \in Nat
      BY <1>3, <1>4, LenProperties
    <2>. QED
      BY <1>1, <1>3, <1>4, <2>1, ShorterIsShort
  <1>13. ASSUME Entry!NormalizedCredential(f).valid
         PROVE  Entry!NormalizedCredential(g).valid /\ Entry!NormalizedCredential(g).form = g
    <2>1. Entry!NormalizedCredential(g).valid
      BY <1>3, <1>4, <1>9, <1>10, <1>12, <1>13
    <2>2. Entry!CanonicalHosts(hr) = hr
      BY <1>3, <1>9, <1>13
    <2>. QED
      BY <1>4, <1>5, <1>6, <1>11, <2>1, <2>2
  <1>. QED
    BY <1>7, <1>13

\* So is a note.
LEMMA NoteTwice ==
  ASSUME NEW f \in Entry!Form, NEW k, k = kind, NEW g, g = Entry!NormalizedNote(f).form
  PROVE  /\ g \in Entry!Form
         /\ Entry!NormalizedNote(f).valid =>
               Entry!NormalizedNote(g).valid /\ Entry!NormalizedNote(g).form = g
  <1>. DEFINE tags == Entry!CanonicalTags(f.tags)
              name == Entry!Trimmed(f.name)
              website == [length |-> 0, padded |-> FALSE]
  <1>1. PICK ts \in Seq(Entry!Tag) :
             ts = f.tags /\ Len(ts) \in Nat /\ DOMAIN ts = 1..Len(ts)
    BY FormFields
  <1>2. PICK tr : tr = tags
    OBVIOUS
  <1>3. /\ tr \in Seq(Entry!Tag) /\ Len(tr) <= Len(ts)
        /\ Entry!CanonicalTags(tr) = tr
        /\ (\A i \in 1..Len(ts) : ts[i].word # "") => \A j \in 1..Len(tr) : tr[j].word # ""
    BY <1>1, <1>2, TagsTwice
  <1>4. name \in Entry!Text /\ f.password \in Entry!Text /\ Entry!Trimmed(name) = name
    BY FormFields, TrimmedTexts
  <1>5. g = [name |-> name, password |-> f.password, website |-> website, hosts |-> <<>>, tags |-> tr]
    BY <1>2 DEF Entry!NormalizedNote, Entry!Plain
  <1>6. website \in Entry!Text /\ <<>> \in Seq(Hosts)
    <2>1. MaxText \in Nat
      BY FormsAssumption DEF Entry!InputAssumption
    <2>. QED
      BY <2>1, EmptySeq DEF Entry!Text
  <1>. HIDE DEF name, tags, website
  <1>7. g \in Entry!Form
    <2>1. tr \in Seq(Entry!Tag)
      BY <1>3
    <2>2. name \in Entry!Text /\ f.password \in Entry!Text
      BY <1>4
    <2>3. [name |-> name, password |-> f.password, website |-> website, hosts |-> <<>>, tags |-> tr]
            \in Entry!Form
      BY <1>6, <2>1, <2>2, FormIsBuilt
    <2>. QED
      BY <1>5, <2>3
  <1>8. g.name = name /\ g.password = f.password /\ g.tags = tr
    BY <1>5
  <1>9. Entry!NormalizedNote(f).valid <=>
           /\ Entry!TextIsValid(name) /\ Entry!CharacterCount(f.password) <= MaxText
           /\ Len(ts) <= MaxList /\ \A i \in 1..Len(ts) : ts[i].word # ""
    BY <1>1 DEF Entry!NormalizedNote, name
  <1>10. Entry!NormalizedNote(g).valid <=>
           /\ Entry!TextIsValid(name) /\ Entry!CharacterCount(f.password) <= MaxText
           /\ Len(tr) <= MaxList /\ \A i \in 1..Len(tr) : tr[i].word # ""
    <2>1. DOMAIN tr = 1..Len(tr)
      BY <1>3, LenProperties
    <2>. QED
      BY <1>4, <1>8, <2>1 DEF Entry!NormalizedNote
  <1>11. Entry!NormalizedNote(g).form
           = [name |-> Entry!Trimmed(name), password |-> f.password, website |-> website,
              hosts |-> <<>>, tags |-> Entry!CanonicalTags(tr)]
    BY <1>8 DEF Entry!NormalizedNote, Entry!Plain, website
  <1>12. Len(ts) <= MaxList => Len(tr) <= MaxList
    <2>1. Len(tr) \in Nat
      BY <1>3, LenProperties
    <2>. QED
      BY <1>1, <1>3, <2>1, ShorterIsShort
  <1>13. Entry!NormalizedNote(g).form = g
    BY <1>3, <1>4, <1>5, <1>11
  <1>. QED
    BY <1>3, <1>7, <1>9, <1>10, <1>12, <1>13

\* What is saved of a form can be read again, unchanged.
LEMMA NormalizedTwice ==
  ASSUME NEW f \in Entry!Form, NEW g, g = Entry!Normalized(f).form
  PROVE  /\ g \in Entry!Form
         /\ Entry!Normalized(f).valid => Entry!Normalized(g).valid /\ Entry!Normalized(g).form = g
  <1>1. PICK k : k = kind
    OBVIOUS
  <1>2. CASE kind = "note"
    BY <1>1, <1>2, NoteTwice DEF Entry!Normalized
  <1>3. CASE kind # "note"
    BY <1>1, <1>3, CredentialTwice DEF Entry!Normalized
  <1>. QED
    BY <1>2, <1>3

\* What is saved of a form says what was entered.
LEMMA NormalizedRepresents ==
  ASSUME NEW f \in Entry!Form, NEW g, g = Entry!Normalized(f).form, kind \in {"credential", "note"}
  PROVE  Entry!Represents(f, g)
  <1>1. PICK k : k = kind
    OBVIOUS
  <1>2. PICK hs \in Seq(Hosts), ts \in Seq(Entry!Tag) :
             hs = f.hosts /\ ts = f.tags /\ DOMAIN hs = 1..Len(hs) /\ DOMAIN ts = 1..Len(ts)
    BY FormFields
  <1>3. PICK hr, tr : hr = Entry!CanonicalHosts(hs) /\ tr = Entry!CanonicalTags(ts)
    OBVIOUS
  <1>4. g.password = f.password /\ g.tags = tr /\ (kind = "credential" => g.hosts = hr)
    BY <1>2, <1>3 DEF Entry!Normalized, Entry!NormalizedCredential, Entry!NormalizedNote, Entry!Plain
  <1>5. /\ tr \in Seq(Entry!Tag)
        /\ \A i \in 1..Len(ts) : \E j \in 1..Len(tr) : Entry!SameTag(ts[i], tr[j])
        /\ \A i, j \in 1..Len(tr) : Entry!SameTag(tr[i], tr[j]) => i = j
    BY <1>1, <1>3, TagsTwice
  <1>6. hr \in Seq(Hosts)
    BY <1>3, HostsTwice
  <1>7. \A i \in 1..Len(hs) : \E j \in 1..Len(hr) :
             Entry!LowerCase(hs[i]) \in {hr[j], Append(hr[j], Entry!Low(""))}
    BY <1>3, HostsAreKept
  <1>8. DOMAIN hr = 1..Len(hr) /\ DOMAIN tr = 1..Len(tr)
    BY <1>5, <1>6, LenProperties
  <1>. QED
    BY <1>2, <1>4, <1>5, <1>7, <1>8 DEF Entry!Represents

---------------------------------------------------------------------------
(* Records: what is saved can be read again.                               *)

LEMMA PlainWith ==
  ASSUME NEW t \in Entry!Text, NEW hs \in Seq(Hosts), NEW ts \in Seq(Entry!Tag)
  PROVE  /\ [Entry!Plain EXCEPT !.name = t] \in Entry!Form
         /\ [Entry!Plain EXCEPT !.password = t] \in Entry!Form
         /\ [Entry!Plain EXCEPT !.website = t] \in Entry!Form
         /\ [Entry!Plain EXCEPT !.hosts = hs] \in Entry!Form
         /\ [Entry!Plain EXCEPT !.tags = ts] \in Entry!Form
  <1>1. Entry!Plain \in Entry!Form
    BY PlainIsForm
  <1>2. PICK p \in Entry!Form : p = Entry!Plain
    BY <1>1
  <1>3. /\ [p EXCEPT !.name = t] \in Entry!Form
        /\ [p EXCEPT !.password = t] \in Entry!Form
        /\ [p EXCEPT !.website = t] \in Entry!Form
        /\ [p EXCEPT !.hosts = hs] \in Entry!Form
        /\ [p EXCEPT !.tags = ts] \in Entry!Form
    BY DEF Entry!Form, Hosts
  <1>. QED
    BY <1>2, <1>3

LEMMA TypedHostsAreHosts ==
  ASSUME NEW w \in Words
  PROVE  Entry!TypedHosts(w) \subseteq Hosts
  <1>1. PICK l, u, e \in Entry!Label : l = Entry!Low(w) /\ u = Entry!Up(w) /\ e = Entry!Low("")
    BY DEF Entry!Label, Entry!Low, Entry!Up
  <1>2. Entry!TypedHosts(w) = {<<l>>, <<u>>, <<l, e>>, <<l, e, e>>, <<e>>, <<e, e>>, <<e, l>>, <<l, l>>}
    BY <1>1 DEF Entry!TypedHosts
  <1>3. \A a, b, c \in Entry!Label :
           <<a>> \in Seq(Entry!Label) /\ <<a, b>> \in Seq(Entry!Label) /\ <<a, b, c>> \in Seq(Entry!Label)
    OBVIOUS
  <1>. QED
    BY <1>2, <1>3 DEF Hosts

LEMMA FormsAreForms == Entry!Forms \subseteq Entry!Form
  <1>1. MaxList \in Nat \ {0}
    BY FormsAssumption DEF Entry!InputAssumption
  <1>2. <<>> \in Seq(Hosts) /\ <<>> \in Seq(Entry!Tag)
    BY EmptySeq
  <1>4. ASSUME NEW n \in 1..2, NEW w \in Words, NEW hs \in [1..n -> Entry!TypedHosts(w)]
        PROVE  hs \in Seq(Hosts)
    <2>1. hs \in [1..n -> Hosts] /\ n \in Nat
      BY TypedHostsAreHosts
    <2>. QED
      BY <2>1, SeqDef
  <1>5. ASSUME NEW n \in 2..MaxList, NEW ts \in [1..n -> {t \in Entry!Tag : ~t.padded}]
        PROVE  ts \in Seq(Entry!Tag)
    <2>1. ts \in [1..n -> Entry!Tag] /\ n \in Nat
      BY <1>1
    <2>. QED
      BY <2>1, SeqDef
  <1>6. ASSUME NEW t \in Entry!Tag
        PROVE  <<t>> \in Seq(Entry!Tag) /\ [i \in 1..MaxList + 1 |-> t] \in Seq(Entry!Tag)
    <2>1. [i \in 1..MaxList + 1 |-> t] \in [1..MaxList + 1 -> Entry!Tag] /\ MaxList + 1 \in Nat
      BY <1>1
    <2>2. <<t>> \in Seq(Entry!Tag)
      OBVIOUS
    <2>. QED
      BY <2>1, <2>2, SeqDef
  <1>7. PICK t0 \in Entry!Text : TRUE
    BY FormFields, PlainIsForm
  <1>8. /\ {[Entry!Plain EXCEPT !.name = t] : t \in Entry!Text} \subseteq Entry!Form
        /\ {[Entry!Plain EXCEPT !.password = t] : t \in Entry!Text} \subseteq Entry!Form
        /\ {[Entry!Plain EXCEPT !.website = t] : t \in Entry!Text} \subseteq Entry!Form
    BY <1>2, PlainWith
  <1>9. {[Entry!Plain EXCEPT !.hosts = hs] :
            hs \in UNION {UNION {[1..n -> Entry!TypedHosts(w)] : w \in Words} : n \in 1..2}}
          \subseteq Entry!Form
    <2>1. \A hs \in UNION {UNION {[1..n -> Entry!TypedHosts(w)] : w \in Words} : n \in 1..2} :
             hs \in Seq(Hosts)
      BY <1>4
    <2>. QED
      BY <1>2, <1>7, <2>1, PlainWith
  <1>10. /\ {[Entry!Plain EXCEPT !.tags = <<t>>] : t \in Entry!Tag} \subseteq Entry!Form
         /\ {[Entry!Plain EXCEPT !.tags = [i \in 1..MaxList + 1 |-> t]] : t \in Entry!Tag}
               \subseteq Entry!Form
    BY <1>2, <1>6, <1>7, PlainWith
  <1>11. {[Entry!Plain EXCEPT !.tags = ts] :
             ts \in UNION {[1..n -> {t \in Entry!Tag : ~t.padded}] : n \in 2..MaxList}}
           \subseteq Entry!Form
    <2>1. \A ts \in UNION {[1..n -> {t \in Entry!Tag : ~t.padded}] : n \in 2..MaxList} :
             ts \in Seq(Entry!Tag)
      BY <1>5
    <2>. QED
      BY <1>2, <1>7, <2>1, PlainWith
  <1>. QED
    BY <1>8, <1>9, <1>10, <1>11 DEF Entry!Forms

\* Normalization depends on the kind of the record alone.
LEMMA KindDecides ==
  ASSUME kind' = kind, NEW f
  PROVE  Entry!Normalized(f)' = Entry!Normalized(f)
  <1>1. \A a, b : Entry!SameTag(a, b)' = Entry!SameTag(a, b)
    BY DEF Entry!SameTag
  <1>2. Entry!CanonicalTags(f.tags)' = Entry!CanonicalTags(f.tags)
    BY DEF Entry!CanonicalTags, Entry!SameTag
  <1>. QED
    BY <1>2 DEF Entry!Normalized, Entry!NormalizedCredential, Entry!NormalizedNote

\* An edit is dated after the version it replaces, and not after the last moment.
LEMMA NextStampIsLater ==
  ASSUME NEW c \in 0..MaxStamp, NEW u \in 0..MaxStamp, u # MaxStamp
  PROVE  Entry!Max({c, u + 1}) \in 0..MaxStamp /\ Entry!Max({c, u + 1}) > u
  <1>1. MaxStamp \in Nat
    BY FormsAssumption DEF Entry!InputAssumption
  <1>2. \E x \in {c, u + 1} : \A y \in {c, u + 1} : x >= y
    <2>1. c >= u + 1 \/ u + 1 >= c
      BY <1>1
    <2>. QED
      BY <1>1, <2>1
  <1>3. PICK m : m = Entry!Max({c, u + 1})
    OBVIOUS
  <1>4. m \in {c, u + 1} /\ m >= u + 1
    BY <1>2, <1>3 DEF Entry!Max
  <1>. QED
    BY <1>1, <1>3, <1>4

\* Every row, whichever record it was sealed for, holds a form that is accepted as it is:
\* a row that was copied away may be copied back.
ReadsBack(form) == Entry!Normalized(form).valid /\ Entry!Normalized(form).form = form

RowsReadBack == \A id \in Ids : rows[id] # Entry!NoRow => ReadsBack(rows[id].form)

RecordsInv == Entry!TypeOK /\ RowsReadBack /\ Entry!ShownIsOwn

LEMMA ReadsBackAgain ==
  ASSUME kind' = kind, NEW f, ReadsBack(f)
  PROVE  ReadsBack(f)'
  BY KindDecides DEF ReadsBack

\* A step that moves rows about leaves them readable.
LEMMA RowsAreMoved ==
  ASSUME RowsReadBack, kind' = kind, \A id \in Ids : \E other \in Ids : rows'[id] = rows[other]
  PROVE  RowsReadBack'
  <1>1. ASSUME NEW id \in Ids, rows'[id] # Entry!NoRow
        PROVE  ReadsBack(rows[id].form)'
    <2>1. PICK other \in Ids : rows'[id] = rows[other]
      OBVIOUS
    <2>2. PICK h : h = rows[other].form
      OBVIOUS
    <2>3. ReadsBack(h)
      BY <1>1, <2>1, <2>2 DEF RowsReadBack
    <2>4. ReadsBack(h)' /\ rows'[id].form = h
      BY <2>1, <2>2, <2>3, ReadsBackAgain
    <2>. QED
      BY <2>4
  <1>. QED
    BY <1>1 DEF RowsReadBack

LEMMA RowsAreRows ==
  ASSUME Entry!TypeOK, NEW id \in Ids, rows[id] # Entry!NoRow
  PROVE  /\ rows[id] \in Entry!Row
         /\ rows[id].form \in Entry!Form /\ rows[id].sealedFor \in Ids
         /\ rows[id].createdAt \in 0..MaxStamp /\ rows[id].updatedAt \in 0..MaxStamp
  BY DEF Entry!TypeOK, Entry!Row

LEMMA RefusalKeeps ==
  ASSUME RecordsInv, NEW why \in {"invalid", "NotFound", "DataDamaged"}, Entry!Refuse(why)
  PROVE  RecordsInv'
  <1>1. kind' = kind /\ clock' = clock /\ rows' = rows /\ typed' = typed /\ shown' = [result |-> why]
    BY DEF Entry!Refuse, Entry!Answers
  <1>2. Entry!TypeOK'
    BY <1>1 DEF RecordsInv, Entry!TypeOK
  <1>3. RowsReadBack'
    BY <1>1, RowsAreMoved DEF RecordsInv
  <1>4. Entry!ShownIsOwn'
    BY <1>1 DEF Entry!ShownIsOwn
  <1>. QED
    BY <1>2, <1>3, <1>4 DEF RecordsInv

LEMMA SavingKeeps ==
  ASSUME RecordsInv, NEW id \in Ids, NEW created \in 0..MaxStamp, NEW updated \in 0..MaxStamp,
         Entry!Normalized(typed).valid, Entry!Save(id, created, updated)
  PROVE  RecordsInv'
  <1>1. PICK f \in Entry!Form : f = typed
    BY DEF RecordsInv, Entry!TypeOK
  <1>2. PICK g \in Entry!Form : g = Entry!Normalized(f).form
    BY NormalizedTwice
  <1>3. Entry!Normalized(g).valid /\ Entry!Normalized(g).form = g
    BY <1>1, <1>2, NormalizedTwice
  <1>4. PICK row \in Entry!Row :
             row = [sealedFor |-> id, form |-> g, createdAt |-> created, updatedAt |-> updated]
    BY DEF Entry!Row
  <1>5. /\ rows' = [rows EXCEPT ![id] = row] /\ row.form = g
        /\ kind' = kind /\ clock' = clock
        /\ typed' = Entry!Plain /\ shown' = [result |-> "saved"]
    BY <1>1, <1>2, <1>4 DEF Entry!Save, Entry!Stored, Entry!Answers
  <1>6. Entry!TypeOK'
    BY <1>5, PlainIsForm DEF RecordsInv, Entry!TypeOK
  <1>7. RowsReadBack'
    <2>1. ASSUME NEW other \in Ids, rows'[other] # Entry!NoRow
          PROVE  ReadsBack(rows[other].form)'
      <3>1. CASE other = id
        <4>1. rows'[other].form = g
          BY <1>5, <3>1 DEF RecordsInv, Entry!TypeOK
        <4>2. ReadsBack(g)'
          BY <1>3, <1>5, ReadsBackAgain DEF ReadsBack
        <4>. QED
          BY <4>1, <4>2
      <3>2. CASE other # id
        <4>1. rows'[other] = rows[other]
          BY <1>5, <3>2 DEF RecordsInv, Entry!TypeOK
        <4>2. PICK h : h = rows[other].form
          OBVIOUS
        <4>3. ReadsBack(h)
          BY <2>1, <4>1, <4>2 DEF RecordsInv, RowsReadBack
        <4>4. ReadsBack(h)' /\ rows'[other].form = h
          BY <1>5, <4>1, <4>2, <4>3, ReadsBackAgain
        <4>. QED
          BY <4>4
      <3>. QED
        BY <3>1, <3>2
    <2>. QED
      BY <2>1 DEF RowsReadBack
  <1>8. Entry!ShownIsOwn'
    BY <1>5 DEF Entry!ShownIsOwn
  <1>. QED
    BY <1>6, <1>7, <1>8 DEF RecordsInv

\* What an accepted update does.
LEMMA UpdateSaves ==
  ASSUME RecordsInv, NEW id \in Ids, Entry!Update(id)
  PROVE  \/ \E why \in {"invalid", "NotFound", "DataDamaged"} : Entry!Refuse(why)
         \/ \E created, updated \in 0..MaxStamp :
               /\ rows[id] # Entry!NoRow /\ Entry!Normalized(typed).valid
               /\ updated > rows[id].updatedAt
               /\ Entry!Save(id, created, updated)
  <1>1. CASE ~Entry!Normalized(typed).valid
    BY <1>1 DEF Entry!Update
  <1>2. CASE Entry!Normalized(typed).valid /\ rows[id] = Entry!NoRow
    BY <1>2 DEF Entry!Update
  <1>3. CASE /\ Entry!Normalized(typed).valid /\ rows[id] # Entry!NoRow
             /\ ~Entry!Decrypt(id).valid \/ rows[id].updatedAt = MaxStamp
    BY <1>3 DEF Entry!Update
  <1>4. CASE /\ Entry!Normalized(typed).valid /\ rows[id] # Entry!NoRow
             /\ Entry!Decrypt(id).valid /\ rows[id].updatedAt # MaxStamp
    <2>1. Entry!Save(id, rows[id].createdAt, Entry!NextStamp(id))
      BY <1>4 DEF Entry!Update
    <2>2. rows[id].createdAt \in 0..MaxStamp /\ rows[id].updatedAt \in 0..MaxStamp
          /\ clock \in 0..MaxStamp
      BY <1>4, RowsAreRows DEF RecordsInv, Entry!TypeOK
    <2>3. PICK u \in 0..MaxStamp, c \in 0..MaxStamp : u = rows[id].updatedAt /\ c = clock /\ u # MaxStamp
      BY <1>4, <2>2
    <2>4. Entry!NextStamp(id) = Entry!Max({c, u + 1})
      BY <2>3 DEF Entry!NextStamp
    <2>5. Entry!NextStamp(id) \in 0..MaxStamp /\ Entry!NextStamp(id) > rows[id].updatedAt
      BY <2>3, <2>4, NextStampIsLater
    <2>. QED
      BY <1>4, <2>1, <2>2, <2>5
  <1>. QED
    BY <1>1, <1>2, <1>3, <1>4

LEMMA ShowingKeeps ==
  ASSUME RecordsInv, NEW id \in Ids, Entry!Get(id)
  PROVE  RecordsInv'
  <1>1. CASE rows[id] = Entry!NoRow
    BY <1>1, RefusalKeeps DEF Entry!Get
  <1>2. CASE rows[id] # Entry!NoRow /\ ~Entry!Decrypt(id).valid
    BY <1>2, RefusalKeeps DEF Entry!Get
  <1>3. CASE rows[id] # Entry!NoRow /\ Entry!Decrypt(id).valid
    <2>1. /\ shown' = [result |-> "shown", id |-> id, form |-> Entry!Decrypt(id).form]
          /\ kind' = kind /\ clock' = clock /\ rows' = rows /\ typed' = typed
      BY <1>3 DEF Entry!Get
    <2>2. rows[id].sealedFor = id
      BY <1>3 DEF Entry!Decrypt
    <2>3. Entry!Decrypt(id).form = rows[id].form /\ rows[id].form \in Entry!Form
      BY <1>3, RowsAreRows DEF Entry!Decrypt, RecordsInv, RowsReadBack, ReadsBack
    <2>4. Entry!TypeOK'
      BY <2>1, <2>3 DEF RecordsInv, Entry!TypeOK
    <2>5. RowsReadBack'
      BY <2>1, RowsAreMoved DEF RecordsInv
    <2>6. Entry!ShownIsOwn'
      BY <2>1, <2>2 DEF Entry!ShownIsOwn
    <2>. QED
      BY <2>4, <2>5, <2>6 DEF RecordsInv
  <1>. QED
    BY <1>1, <1>2, <1>3

LEMMA FillingKeeps ==
  ASSUME RecordsInv, NEW f \in Entry!Form, Entry!Fill(f)
  PROVE  RecordsInv'
  <1>1. kind' = kind /\ clock' = clock /\ rows' = rows /\ typed' = f /\ shown' = [result |-> "nothing"]
    BY DEF Entry!Fill, Entry!Nothing
  <1>2. Entry!TypeOK'
    BY <1>1 DEF RecordsInv, Entry!TypeOK
  <1>3. RowsReadBack'
    BY <1>1, RowsAreMoved DEF RecordsInv
  <1>4. Entry!ShownIsOwn'
    BY <1>1 DEF Entry!ShownIsOwn
  <1>. QED
    BY <1>2, <1>3, <1>4 DEF RecordsInv

LEMMA CopyingKeeps ==
  ASSUME RecordsInv, NEW from \in Ids, NEW to \in Ids, Entry!RowIsCopied(from, to)
  PROVE  RecordsInv'
  <1>1. /\ rows[from] # Entry!NoRow
        /\ rows' = [rows EXCEPT ![to] = rows[from]]
        /\ kind' = kind /\ clock' = clock /\ typed' = typed /\ shown' = [result |-> "nothing"]
    BY DEF Entry!RowIsCopied, Entry!Nothing
  <1>2. Entry!TypeOK'
    BY <1>1 DEF RecordsInv, Entry!TypeOK
  <1>3. RowsReadBack'
    <2>1. \A id \in Ids : \E other \in Ids : rows'[id] = rows[other]
      BY <1>1 DEF RecordsInv, Entry!TypeOK
    <2>. QED
      BY <1>1, <2>1, RowsAreMoved DEF RecordsInv
  <1>4. Entry!ShownIsOwn'
    BY <1>1 DEF Entry!ShownIsOwn
  <1>. QED
    BY <1>2, <1>3, <1>4 DEF RecordsInv

LEMMA RecordsInitially ==
  ASSUME Entry!Init
  PROVE  RecordsInv
  <1>1. rows = [id \in Ids |-> Entry!NoRow] /\ typed = Entry!Plain /\ shown = [result |-> "nothing"]
        /\ kind \in {"credential", "note"} /\ clock \in 0..MaxStamp
    BY DEF Entry!Init, Entry!Nothing
  <1>2. Entry!TypeOK
    BY <1>1, PlainIsForm DEF Entry!TypeOK
  <1>3. RowsReadBack
    BY <1>1 DEF RowsReadBack
  <1>4. Entry!ShownIsOwn
    BY <1>1 DEF Entry!ShownIsOwn
  <1>. QED
    BY <1>2, <1>3, <1>4 DEF RecordsInv

LEMMA RecordsStep ==
  ASSUME RecordsInv, Entry!Next
  PROVE  RecordsInv'
  <1>1. ASSUME NEW id \in Ids, Entry!Create(id)
        PROVE  RecordsInv'
    <2>1. CASE Entry!Normalized(typed).valid
      <3>1. PICK c \in 0..MaxStamp : c = clock
        BY DEF RecordsInv, Entry!TypeOK
      <3>2. Entry!Save(id, c, c)
        BY <1>1, <2>1, <3>1 DEF Entry!Create
      <3>. QED
        BY <2>1, <3>2, SavingKeeps
    <2>2. CASE ~Entry!Normalized(typed).valid
      BY <1>1, <2>2, RefusalKeeps DEF Entry!Create
    <2>. QED
      BY <2>1, <2>2
  <1>2. ASSUME NEW id \in Ids, Entry!Update(id)
        PROVE  RecordsInv'
    <2>1. CASE \E why \in {"invalid", "NotFound", "DataDamaged"} : Entry!Refuse(why)
      BY <2>1, RefusalKeeps
    <2>2. CASE \E created, updated \in 0..MaxStamp :
                  Entry!Normalized(typed).valid /\ Entry!Save(id, created, updated)
      BY <2>2, SavingKeeps
    <2>. QED
      BY <1>2, <2>1, <2>2, UpdateSaves
  <1>3. ASSUME NEW id \in Ids, Entry!Get(id)
        PROVE  RecordsInv'
    BY <1>3, ShowingKeeps
  <1>4. ASSUME Entry!Type
        PROVE  RecordsInv'
    BY <1>4, FormsAreForms, FillingKeeps DEF Entry!Type
  <1>5. ASSUME Entry!EditShown
        PROVE  RecordsInv'
    <2>1. PICK f : f = shown.form
      OBVIOUS
    <2>2. f \in Entry!Form
      BY <1>5, <2>1 DEF Entry!EditShown, RecordsInv, Entry!TypeOK
    <2>. QED
      BY <1>5, <2>1, <2>2, FillingKeeps DEF Entry!EditShown
  <1>6. ASSUME Entry!Cancel
        PROVE  RecordsInv'
    <2>1. PICK f \in Entry!Form : f = Entry!Plain
      BY PlainIsForm
    <2>. QED
      BY <1>6, <2>1, FillingKeeps DEF Entry!Cancel
  <1>7. ASSUME Entry!ClockIsSet
        PROVE  RecordsInv'
    <2>1. kind' = kind /\ clock' \in 0..MaxStamp /\ rows' = rows /\ typed' = typed
          /\ shown' = [result |-> "nothing"]
      BY <1>7 DEF Entry!ClockIsSet, Entry!Nothing
    <2>2. Entry!TypeOK'
      BY <2>1 DEF RecordsInv, Entry!TypeOK
    <2>3. RowsReadBack'
      BY <2>1, RowsAreMoved DEF RecordsInv
    <2>4. Entry!ShownIsOwn'
      BY <2>1 DEF Entry!ShownIsOwn
    <2>. QED
      BY <2>2, <2>3, <2>4 DEF RecordsInv
  <1>8. ASSUME NEW from \in Ids, NEW to \in Ids, Entry!RowIsCopied(from, to)
        PROVE  RecordsInv'
    BY <1>8, CopyingKeeps
  <1>. QED
    BY <1>1, <1>2, <1>3, <1>4, <1>5, <1>6, <1>7, <1>8 DEF Entry!Next

\* A step that saves a record saves the form that was typed, normalized, and dates it
\* after the version it replaces.
LEMMA WhatIsSaved ==
  ASSUME RecordsInv, Entry!Next, NEW id \in Ids, Entry!Saves(id)
  PROVE  /\ rows'[id].form = Entry!Normalized(typed).form
         /\ rows[id] # Entry!NoRow => rows'[id].updatedAt > rows[id].updatedAt
  <1>1. rows'[id] # rows[id] /\ shown'.result = "saved"
    BY DEF Entry!Saves
  <1>2. ASSUME NEW other \in Ids, NEW created \in 0..MaxStamp, NEW updated \in 0..MaxStamp,
               Entry!Save(other, created, updated)
        PROVE  /\ other = id
               /\ rows'[id].form = Entry!Normalized(typed).form
               /\ rows'[id].updatedAt = updated
    <2>1. rows' = [rows EXCEPT ![other] = [sealedFor |-> other, form |-> Entry!Normalized(typed).form,
                                           createdAt |-> created, updatedAt |-> updated]]
      BY <1>2 DEF Entry!Save, Entry!Stored
    <2>2. other = id
      BY <1>1, <2>1 DEF RecordsInv, Entry!TypeOK
    <2>. QED
      BY <2>1, <2>2 DEF RecordsInv, Entry!TypeOK
  <1>3. \A why \in {"invalid", "NotFound", "DataDamaged"} : ~Entry!Refuse(why)
    BY <1>1 DEF Entry!Refuse
  <1>4. ASSUME NEW other \in Ids, Entry!Create(other)
        PROVE  /\ rows'[id].form = Entry!Normalized(typed).form
               /\ rows[id] # Entry!NoRow => rows'[id].updatedAt > rows[id].updatedAt
    <2>1. Entry!Save(other, clock, clock) /\ rows[other] = Entry!NoRow
      BY <1>3, <1>4 DEF Entry!Create
    <2>2. PICK c \in 0..MaxStamp : c = clock
      BY DEF RecordsInv, Entry!TypeOK
    <2>3. Entry!Save(other, c, c)
      BY <2>1, <2>2
    <2>. QED
      BY <1>2, <2>1, <2>3
  <1>5. ASSUME NEW other \in Ids, Entry!Update(other)
        PROVE  /\ rows'[id].form = Entry!Normalized(typed).form
               /\ rows[id] # Entry!NoRow => rows'[id].updatedAt > rows[id].updatedAt
    <2>1. PICK created \in 0..MaxStamp, updated \in 0..MaxStamp :
               updated > rows[other].updatedAt /\ Entry!Save(other, created, updated)
      BY <1>3, <1>5, UpdateSaves
    <2>. QED
      BY <1>2, <2>1
  <1>6. ~(\E other \in Ids : Entry!Get(other))
    BY <1>1, <1>3 DEF Entry!Get
  <1>7. ~Entry!Type /\ ~Entry!EditShown /\ ~Entry!Cancel /\ ~Entry!ClockIsSet
    BY <1>1 DEF Entry!Type, Entry!EditShown, Entry!Cancel, Entry!Fill, Entry!ClockIsSet
  <1>8. ~(\E from, to \in Ids : Entry!RowIsCopied(from, to))
    BY <1>1 DEF Entry!RowIsCopied, Entry!Nothing
  <1>. QED
    BY <1>4, <1>5, <1>6, <1>7, <1>8 DEF Entry!Next

LEMMA FormsStepIs ==
  ASSUME FormsNext
  PROVE  Entry!Next \/ UNCHANGED recordVars
  BY DEF FormsNext, FormStep, EditStep

\* The records are always such that every row can be read again.
THEOREM RecordsAreNormal == FormsSpec => []RecordsInv
  <1>1. FormsInit => RecordsInv
    BY RecordsInitially DEF FormsInit
  <1>2. RecordsInv /\ [FormsNext]_formsVars => RecordsInv'
    <2>1. ASSUME RecordsInv, UNCHANGED recordVars
          PROVE  RecordsInv'
      <3>1. kind' = kind /\ clock' = clock /\ rows' = rows /\ typed' = typed /\ shown' = shown
        BY <2>1 DEF recordVars
      <3>2. Entry!TypeOK'
        BY <2>1, <3>1 DEF RecordsInv, Entry!TypeOK
      <3>3. RowsReadBack'
        BY <2>1, <3>1, RowsAreMoved DEF RecordsInv
      <3>4. Entry!ShownIsOwn'
        BY <2>1, <3>1 DEF RecordsInv, Entry!ShownIsOwn
      <3>. QED
        BY <3>2, <3>3, <3>4 DEF RecordsInv
    <2>2. UNCHANGED formsVars => UNCHANGED recordVars
      BY DEF formsVars
    <2>. QED
      BY <2>1, <2>2, FormsStepIs, RecordsStep
  <1>. QED
    BY <1>1, <1>2, PTL DEF FormsSpec

\* What was accepted of a form is decrypted as it was saved, and no record is shown under
\* the id of another (vault/model.rs, vault/crypto.rs): every list can be loaded, however
\* the host names and the tags were written.
THEOREM SavedReadsBack == FormsSpec => []SavedIsReadable
  <1>1. RecordsInv => SavedIsReadable
    <2>1. ASSUME RecordsInv, NEW id \in Ids, rows[id] # Entry!NoRow, rows[id].sealedFor = id
          PROVE  Entry!Decrypt(id) = [valid |-> TRUE, form |-> rows[id].form]
      <3>1. ReadsBack(rows[id].form)
        BY <2>1 DEF RecordsInv, RowsReadBack
      <3>2. (rows[id].sealedFor = id /\ Entry!Normalized(rows[id].form).valid) = TRUE
        BY <2>1, <3>1 DEF ReadsBack
      <3>3. Entry!Normalized(rows[id].form).form = rows[id].form
        BY <3>1 DEF ReadsBack
      <3>. QED
        BY <3>2, <3>3, Zenon DEF Entry!Decrypt
    <2>. QED
      BY <2>1 DEF SavedIsReadable, Entry!SavedIsReadable, RecordsInv
  <1>. QED
    BY <1>1, RecordsAreNormal, PTL

\* Saving a form loses no tag, no host and nothing of the password, and an edit is dated
\* after the version it replaces, whatever the clock says (vault/model.rs, vault/service.rs).
THEOREM EditsLoseNothing == FormsSpec => EditsKeepWhatWasEntered
  <1>1. RecordsInv /\ [FormsNext]_formsVars => [Entry!LosesNothing /\ Entry!MovesForward]_formsVars
    <2>1. ASSUME RecordsInv, Entry!Next
          PROVE  Entry!LosesNothing /\ Entry!MovesForward
      <3>1. ASSUME NEW id \in Ids, Entry!Saves(id)
            PROVE  Entry!Represents(typed, rows'[id].form)
        <4>1. PICK f \in Entry!Form : f = typed
          BY <2>1 DEF RecordsInv, Entry!TypeOK
        <4>2. PICK g : g = Entry!Normalized(f).form
          OBVIOUS
        <4>3. Entry!Represents(f, g)
          BY <2>1, <4>2, NormalizedRepresents DEF RecordsInv, Entry!TypeOK
        <4>4. rows'[id].form = g
          BY <2>1, <3>1, <4>1, <4>2, WhatIsSaved
        <4>. QED
          BY <4>1, <4>3, <4>4
      <3>. QED
        BY <2>1, <3>1, WhatIsSaved DEF Entry!LosesNothing, Entry!MovesForward
    <2>2. ASSUME UNCHANGED recordVars
          PROVE  Entry!LosesNothing /\ Entry!MovesForward
      BY <2>2 DEF recordVars, Entry!LosesNothing, Entry!MovesForward, Entry!Saves
    <2>. QED
      BY <2>1, <2>2, FormsStepIs
  <1>. QED
    BY <1>1, RecordsAreNormal, PTL DEF FormsSpec, EditsKeepWhatWasEntered

---------------------------------------------------------------------------
(* New master passwords: the form and the service look for the same.       *)

Passwords == Seq(32..255)

LEMMA PartOf ==
  ASSUME NEW s \in Passwords, NEW a \in 1..Len(s), NEW b \in a..Len(s)
  PROVE  /\ SubSeq(s, a, b) \in Passwords /\ Len(SubSeq(s, a, b)) = b - a + 1
         /\ \A k \in 1..b - a + 1 : SubSeq(s, a, b)[k] = s[a + k - 1]
  <1>1. s \in Seq(32..255) /\ Len(s) \in Nat
    BY LenProperties DEF Passwords
  <1>2. a \in Nat /\ b \in Nat /\ a <= b /\ a \in 1..Len(s) /\ b \in 1..Len(s)
    BY <1>1
  <1>3. Len(SubSeq(s, a, b)) = b - a + 1
    BY <1>1, <1>2, SubSeqProperties
  <1>4. SubSeq(s, a, b) \in Seq(32..255)
    <2>1. PICK Codes : Codes = 32..255
      OBVIOUS
    <2>2. s \in Seq(Codes) /\ DOMAIN s = 1..Len(s)
      BY <1>1, <2>1
    <2>3. SubSeq(s, a, b) \in Seq(Codes)
      BY <1>1, <1>2, <2>2, SubSeqProperties
    <2>. QED
      BY <2>1, <2>3
  <1>5. \A k \in 1..b - a + 1 : SubSeq(s, a, b)[k] = s[a + k - 1]
    BY <1>1, <1>2, SubSeqProperties
  <1>. QED
    BY <1>3, <1>4, <1>5 DEF Passwords

\* A character that occurs in a password occurs there for the first time somewhere: counting
\* first occurrences, as the service does, or different characters, as the form does, is
\* the same.
LEMMA DiversityIsTheSame ==
  ASSUME NEW s \in Passwords
  PROVE  Policy!low_diversity(s) <=> Policy!hasLowDiversity(s)
  <1>. DEFINE F == {i \in DOMAIN s : \A j \in 1..i - 1 : s[j] # s[i]}
              C == {s[i] : i \in DOMAIN s}
              f == [i \in F |-> s[i]]
  <1>1. Len(s) \in Nat /\ DOMAIN s = 1..Len(s)
    BY LenProperties DEF Passwords
  <1>2. F \in SUBSET (1..Len(s))
    BY <1>1
  <1>3. IsFiniteSet(F)
    <2>. HIDE DEF F
    <2>. QED
      BY <1>1, <1>2, SubsetOfInterval
  <1>4. \A i \in F : i \in 1..Len(s) /\ \A j \in 1..i - 1 : s[j] # s[i]
    BY <1>1
  <1>5. \A c \in C : \E i \in F : s[i] = c
    <2>1. ASSUME NEW c \in C
          PROVE  \E i \in F : s[i] = c
      <3>. DEFINE Places == {i \in 1..Len(s) : s[i] = c}
      <3>1. PICK i \in Places : \A j \in Places : i <= j
        <4>1. Places # {} /\ Places \subseteq Nat
          BY <1>1, <2>1
        <4>. HIDE DEF Places
        <4>. QED
          BY <4>1, LeastElement
      <3>2. i \in 1..Len(s) /\ s[i] = c
        OBVIOUS
      <3>3. \A j \in 1..i - 1 : j \in 1..Len(s) /\ j < i
        BY <1>1, <3>2
      <3>4. \A j \in 1..i - 1 : j \notin Places
        <4>. HIDE DEF Places
        <4>. QED
          BY <1>1, <3>1, <3>2, <3>3
      <3>5. \A j \in 1..i - 1 : s[j] # s[i]
        BY <3>2, <3>3, <3>4
      <3>. QED
        BY <1>1, <3>2, <3>5
    <2>. QED
      BY <2>1
  <1>6. \A i \in F : s[i] \in C
    BY <1>1
  <1>7. ASSUME NEW i \in F, NEW j \in F, s[i] = s[j]
        PROVE  i = j
    <2>1. i \in 1..Len(s) /\ j \in 1..Len(s)
      BY <1>4
    <2>2. ~(i < j) /\ ~(j < i)
      <3>1. i < j => i \in 1..j - 1
        BY <1>1, <2>1
      <3>2. j < i => j \in 1..i - 1
        BY <1>1, <2>1
      <3>. HIDE DEF F, C
      <3>. QED
        BY <1>4, <1>7, <3>1, <3>2
    <2>. QED
      BY <1>1, <2>1, <2>2
  <1>. HIDE DEF F, C
  <1>8. f \in Bijection(F, C)
    <2>1. f \in [F -> C]
      BY <1>6
    <2>2. \A i, j \in F : f[i] = f[j] => i = j
      BY <1>7
    <2>3. \A c \in C : \E i \in F : f[i] = c
      BY <1>5
    <2>. QED
      BY <2>1, <2>2, <2>3 DEF Bijection, Injection, Surjection, IsInjective
  <1>9. Cardinality(C) = Cardinality(F)
    BY <1>3, <1>8, FS_Bijection DEF ExistsBijection
  <1>10. Policy!Cardinality(C) = Policy!Cardinality(F)
    <2>1. Policy!Cardinality(C) = Cardinality(C) /\ Policy!Cardinality(F) = Cardinality(F)
      BY DEF Policy!Cardinality, Cardinality
    <2>. QED
      BY <1>9, <2>1
  <1>11. Policy!unique_character_count(s) = Policy!Cardinality(Policy!ToSet(s))
    BY <1>10 DEF Policy!unique_character_count, Policy!ToSet, F, C
  <1>. QED
    BY <1>11 DEF Policy!low_diversity, Policy!hasLowDiversity

\* Three of the same in a row: a window of three, or a character like the two before it.
LEMMA RunsAreTheSame ==
  ASSUME NEW s \in Passwords
  PROVE  (\E w \in Policy!windows(s, 3) : w[1] = w[2] /\ w[2] = w[3]) <=> Policy!hasRepeatedRun(s)
  <1>1. Len(s) \in Nat
    BY LenProperties DEF Passwords
  <1>2. Policy!windows(s, 3) = {SubSeq(s, i, i + 2) : i \in 1..Len(s) - 2}
    <2>1. \A i \in 1..Len(s) : i + 3 - 1 = i + 2
      BY <1>1
    <2>2. Len(s) - 3 + 1 = Len(s) - 2
      BY <1>1
    <2>. QED
      BY <1>1, <2>1, <2>2 DEF Policy!windows
  <1>3. ASSUME NEW i \in 1..Len(s) - 2
        PROVE  /\ SubSeq(s, i, i + 2)[1] = s[i]
               /\ SubSeq(s, i, i + 2)[2] = s[i + 1]
               /\ SubSeq(s, i, i + 2)[3] = s[i + 2]
    <2>1. i \in 1..Len(s) /\ i + 2 \in i..Len(s)
      BY <1>1
    <2>2. \A k \in 1..(i + 2) - i + 1 : SubSeq(s, i, i + 2)[k] = s[i + k - 1]
      BY <2>1, PartOf
    <2>3. (i + 2) - i + 1 = 3 /\ i + 1 - 1 = i /\ i + 2 - 1 = i + 1 /\ i + 3 - 1 = i + 2
      BY <1>1
    <2>4. 1 \in 1..3 /\ 2 \in 1..3 /\ 3 \in 1..3
      OBVIOUS
    <2>. QED
      BY <2>2, <2>3, <2>4
  <1>4. (\E w \in Policy!windows(s, 3) : w[1] = w[2] /\ w[2] = w[3])
          <=> \E i \in 1..Len(s) - 2 : s[i] = s[i + 1] /\ s[i + 1] = s[i + 2]
    <2>1. ASSUME NEW w \in Policy!windows(s, 3), w[1] = w[2] /\ w[2] = w[3]
          PROVE  \E i \in 1..Len(s) - 2 : s[i] = s[i + 1] /\ s[i + 1] = s[i + 2]
      <3>1. PICK i \in 1..Len(s) - 2 : w = SubSeq(s, i, i + 2)
        BY <1>2
      <3>2. s[i] = s[i + 1] /\ s[i + 1] = s[i + 2]
        BY <1>3, <2>1, <3>1
      <3>. QED
        BY <3>2
    <2>2. ASSUME NEW i \in 1..Len(s) - 2, s[i] = s[i + 1] /\ s[i + 1] = s[i + 2]
          PROVE  \E w \in Policy!windows(s, 3) : w[1] = w[2] /\ w[2] = w[3]
      <3>1. PICK w \in Policy!windows(s, 3) : w = SubSeq(s, i, i + 2)
        BY <1>2
      <3>2. w[1] = w[2] /\ w[2] = w[3]
        BY <1>3, <2>2, <3>1
      <3>. QED
        BY <3>2
    <2>. QED
      BY <2>1, <2>2
  <1>5. (\E i \in 1..Len(s) - 2 : s[i] = s[i + 1] /\ s[i + 1] = s[i + 2])
          <=> \E i \in 3..Len(s) : s[i] = s[i - 1] /\ s[i] = s[i - 2]
    <2>1. ASSUME NEW i \in 1..Len(s) - 2, s[i] = s[i + 1] /\ s[i + 1] = s[i + 2]
          PROVE  \E j \in 3..Len(s) : s[j] = s[j - 1] /\ s[j] = s[j - 2]
      <3>1. i + 2 \in 3..Len(s) /\ (i + 2) - 1 = i + 1 /\ (i + 2) - 2 = i
        BY <1>1
      <3>. QED
        BY <2>1, <3>1
    <2>2. ASSUME NEW i \in 3..Len(s), s[i] = s[i - 1] /\ s[i] = s[i - 2]
          PROVE  \E j \in 1..Len(s) - 2 : s[j] = s[j + 1] /\ s[j + 1] = s[j + 2]
      <3>1. i - 2 \in 1..Len(s) - 2 /\ (i - 2) + 1 = i - 1 /\ (i - 2) + 2 = i
        BY <1>1
      <3>. QED
        BY <2>2, <3>1
    <2>. QED
      BY <2>1, <2>2
  <1>. QED
    BY <1>4, <1>5 DEF Policy!hasRepeatedRun

\* A month of m digits, a separator and a day of d digits, from position a on.
DateAt(s, a, m, d) ==
    /\ a + m + d <= Len(s)
    /\ \A k \in a..a + m - 1 : s[k] \in Policy!Digits
    /\ s[a + m] \in Policy!DateSeparators
    /\ \A k \in a + m + 1..a + m + d : s[k] \in Policy!Digits

LEMMA DigitsAtAre ==
  ASSUME NEW s \in Passwords, NEW a \in Nat \ {0}, NEW n \in Nat \ {0}
  PROVE  Policy!DigitsAt(s, a, n)
           <=> a + n - 1 <= Len(s) /\ \A k \in a..a + n - 1 : s[k] \in Policy!Digits
  <1>1. Len(s) \in Nat
    BY LenProperties DEF Passwords
  <1>2. CASE ~(a + n - 1 <= Len(s))
    BY <1>2 DEF Policy!DigitsAt
  <1>3. CASE a + n - 1 <= Len(s)
    <2>. DEFINE b == a + n - 1
                w == SubSeq(s, a, b)
    <2>1. a \in 1..Len(s) /\ b \in a..Len(s) /\ b - a + 1 = n
      BY <1>1, <1>3
    <2>2. w \in Passwords /\ Len(w) = n /\ \A k \in 1..n : w[k] = s[a + k - 1]
      <3>. HIDE DEF b
      <3>. QED
        BY <2>1, PartOf
    <2>3. DOMAIN w = 1..n
      BY <2>2, LenProperties DEF Passwords
    <2>. HIDE DEF w, b
    <2>4. Policy!All(w, Policy!Digits) <=> \A k \in 1..n : w[k] \in Policy!Digits
      BY <2>3 DEF Policy!All, Policy!ToSet
    <2>5. (\A k \in 1..n : w[k] \in Policy!Digits) <=> \A k \in a..b : s[k] \in Policy!Digits
      <3>1. ASSUME \A k \in 1..n : w[k] \in Policy!Digits, NEW k \in a..b
            PROVE  s[k] \in Policy!Digits
        <4>1. k - a + 1 \in 1..n /\ a + (k - a + 1) - 1 = k
          BY <2>1, <3>1
        <4>2. w[k - a + 1] = s[k]
          BY <2>2, <4>1
        <4>. QED
          BY <3>1, <4>1, <4>2
      <3>2. ASSUME \A k \in a..b : s[k] \in Policy!Digits, NEW k \in 1..n
            PROVE  w[k] \in Policy!Digits
        <4>1. a + k - 1 \in a..b
          BY <2>1, <3>2
        <4>. QED
          BY <2>2, <3>2, <4>1
      <3>. QED
        BY <3>1, <3>2
    <2>6. Policy!DigitsAt(s, a, n) <=> Policy!All(w, Policy!Digits)
      BY <1>3 DEF Policy!DigitsAt, w, b
    <2>. QED
      BY <1>3, <2>4, <2>5, <2>6 DEF b
  <1>. QED
    BY <1>2, <1>3

\* What a part of a password says is said there by the password.
LEMMA DateInPart ==
  ASSUME NEW s \in Passwords, NEW a \in 1..Len(s), NEW b \in a..Len(s),
         NEW m \in 1..2, NEW d \in 1..2, a + m + d <= b
  PROVE  DateAt(SubSeq(s, a, b), 1, m, d) <=> DateAt(s, a, m, d)
  <1>. DEFINE t == SubSeq(s, a, b)
  <1>1. Len(s) \in Nat /\ a \in Nat /\ b \in Nat /\ m \in Nat /\ d \in Nat /\ b <= Len(s)
    BY LenProperties DEF Passwords
  <1>2. Len(t) = b - a + 1 /\ \A k \in 1..b - a + 1 : t[k] = s[a + k - 1]
    BY PartOf
  <1>. HIDE DEF t
  <1>3. 1 + m + d <= Len(t) /\ a + m + d <= Len(s)
    BY <1>1, <1>2
  <1>4. (\A k \in 1..1 + m - 1 : t[k] \in Policy!Digits)
          <=> \A k \in a..a + m - 1 : s[k] \in Policy!Digits
    <2>1. ASSUME \A k \in 1..1 + m - 1 : t[k] \in Policy!Digits, NEW k \in a..a + m - 1
          PROVE  s[k] \in Policy!Digits
      <3>1. k - a + 1 \in 1..1 + m - 1 /\ k - a + 1 \in 1..b - a + 1 /\ a + (k - a + 1) - 1 = k
        BY <1>1, <2>1
      <3>2. t[k - a + 1] = s[k]
        BY <1>2, <3>1
      <3>. QED
        BY <2>1, <3>1, <3>2
    <2>2. ASSUME \A k \in a..a + m - 1 : s[k] \in Policy!Digits, NEW k \in 1..1 + m - 1
          PROVE  t[k] \in Policy!Digits
      <3>1. a + k - 1 \in a..a + m - 1 /\ k \in 1..b - a + 1
        BY <1>1, <2>2
      <3>. QED
        BY <1>2, <2>2, <3>1
    <2>. QED
      BY <2>1, <2>2
  <1>5. t[1 + m] = s[a + m]
    <2>1. 1 + m \in 1..b - a + 1 /\ a + (1 + m) - 1 = a + m
      BY <1>1
    <2>. QED
      BY <1>2, <2>1
  <1>6. (\A k \in 1 + m + 1..1 + m + d : t[k] \in Policy!Digits)
          <=> \A k \in a + m + 1..a + m + d : s[k] \in Policy!Digits
    <2>1. ASSUME \A k \in 1 + m + 1..1 + m + d : t[k] \in Policy!Digits, NEW k \in a + m + 1..a + m + d
          PROVE  s[k] \in Policy!Digits
      <3>1. k - a + 1 \in 1 + m + 1..1 + m + d /\ k - a + 1 \in 1..b - a + 1 /\ a + (k - a + 1) - 1 = k
        BY <1>1, <2>1
      <3>2. t[k - a + 1] = s[k]
        BY <1>2, <3>1
      <3>. QED
        BY <2>1, <3>1, <3>2
    <2>2. ASSUME \A k \in a + m + 1..a + m + d : s[k] \in Policy!Digits, NEW k \in 1 + m + 1..1 + m + d
          PROVE  t[k] \in Policy!Digits
      <3>1. a + k - 1 \in a + m + 1..a + m + d /\ k \in 1..b - a + 1
        BY <1>1, <2>2
      <3>. QED
        BY <1>2, <2>2, <3>1
    <2>. QED
      BY <2>1, <2>2
  <1>. QED
    BY <1>3, <1>4, <1>5, <1>6 DEF DateAt, t

LEMMA MonthAndDayIs ==
  ASSUME NEW t \in Passwords
  PROVE  Policy!MonthAndDay(t) <=> \E m, d \in 1..2 : Len(t) = m + 1 + d /\ DateAt(t, 1, m, d)
  <1>1. Len(t) \in Nat
    BY LenProperties DEF Passwords
  <1>2. ASSUME NEW m \in 1..2, NEW d \in 1..2, Len(t) = m + 1 + d
        PROVE  DateAt(t, 1, m, d) <=> /\ Policy!DigitsAt(t, 1, m)
                                      /\ t[m + 1] \in Policy!DateSeparators
                                      /\ Policy!DigitsAt(t, m + 2, d)
    <2>1. Policy!DigitsAt(t, 1, m) <=> \A k \in 1..1 + m - 1 : t[k] \in Policy!Digits
      <3>1. 1 \in Nat \ {0} /\ m \in Nat \ {0} /\ 1 + m - 1 <= Len(t)
        BY <1>1, <1>2
      <3>2. Policy!DigitsAt(t, 1, m)
              <=> 1 + m - 1 <= Len(t) /\ \A k \in 1..1 + m - 1 : t[k] \in Policy!Digits
        BY <3>1, DigitsAtAre
      <3>. QED
        BY <3>1, <3>2
    <2>2. Policy!DigitsAt(t, m + 2, d) <=> \A k \in m + 2..m + 2 + d - 1 : t[k] \in Policy!Digits
      BY <1>1, <1>2, DigitsAtAre
    <2>3. m + 1 = 1 + m /\ m + 2 = 1 + m + 1 /\ m + 2 + d - 1 = 1 + m + d /\ 1 + m + d <= Len(t)
      BY <1>1, <1>2
    <2>. QED
      BY <2>1, <2>2, <2>3 DEF DateAt
  <1>. QED
    BY <1>2 DEF Policy!MonthAndDay

\* Nothing belongs to the same word on either side of a part.
Alone(s, a, b) == /\ a = 1 \/ ~Policy!IsWordCharacter(s[a - 1])
                  /\ b >= Len(s) \/ ~Policy!IsWordCharacter(s[b + 1])

DateStandsAlone(s) ==
    \E a \in 1..Len(s), m, d \in 1..2 : DateAt(s, a, m, d) /\ Alone(s, a, a + m + d)

LEMMA WordCharacters ==
  /\ \A c \in Policy!Digits : Policy!IsWordCharacter(c)
  /\ \A c \in Policy!DateSeparators : ~Policy!IsWordCharacter(c)
  BY DEF Policy!IsWordCharacter, Policy!DateSeparators, Policy!Digits, Policy!Lowercase, Policy!Uppercase

\* A word begins where the character before does not belong to one, and ends likewise.
LEMMA Boundaries ==
  ASSUME NEW s \in Passwords, NEW a \in 1..Len(s), Policy!IsWordCharacter(s[a])
  PROVE  /\ Policy!Boundary(s, a - 1) <=> (a = 1 \/ ~Policy!IsWordCharacter(s[a - 1]))
         /\ Policy!Boundary(s, a) <=> (a >= Len(s) \/ ~Policy!IsWordCharacter(s[a + 1]))
  <1>1. Len(s) \in Nat /\ a \in Nat /\ a >= 1 /\ a <= Len(s)
    BY LenProperties DEF Passwords
  <1>2. a - 1 < Len(s) /\ (a - 1) + 1 = a /\ (a - 1 >= 1 <=> a # 1) /\ (a < Len(s) <=> ~(a >= Len(s)))
    BY <1>1
  <1>3. Policy!Boundary(s, a - 1) <=>
          ((a # 1 /\ Policy!IsWordCharacter(s[a - 1])) # (TRUE /\ Policy!IsWordCharacter(s[a])))
    BY <1>2 DEF Policy!Boundary
  <1>4. Policy!Boundary(s, a) <=>
          ((TRUE /\ Policy!IsWordCharacter(s[a])) # (~(a >= Len(s)) /\ Policy!IsWordCharacter(s[a + 1])))
    BY <1>1, <1>2 DEF Policy!Boundary
  <1>. QED
    BY <1>3, <1>4

\* The service finds a month and a day that stand alone.
LEMMA ServiceFindsDates ==
  ASSUME NEW s \in Passwords
  PROVE  Policy!has_date_pattern(s) <=> Policy!HasYear(s) \/ DateStandsAlone(s)
  <1>1. Len(s) \in Nat
    BY LenProperties DEF Passwords
  <1>. DEFINE Found(a, m, d) ==
                /\ a = 1 \/ ~Policy!IsWordCharacter(s[a - 1])
                /\ a + m <= Len(s)
                /\ Policy!DigitsAt(s, a, m)
                /\ s[a + m] \in Policy!DateSeparators
                /\ Policy!DigitsAt(s, a + m + 1, d)
                /\ a + m + 1 + d > Len(s) \/ ~Policy!IsWordCharacter(s[a + m + 1 + d])
  <1>2. ASSUME NEW a \in 1..Len(s), NEW m \in 1..2, NEW d \in 1..2
        PROVE  Found(a, m, d) <=> DateAt(s, a, m, d) /\ Alone(s, a, a + m + d)
    <2>1. a \in Nat \ {0} /\ m \in Nat \ {0} /\ d \in Nat \ {0} /\ a + m + 1 \in Nat \ {0}
      BY <1>1
    <2>2. Policy!DigitsAt(s, a, m) <=> a + m - 1 <= Len(s) /\ \A k \in a..a + m - 1 : s[k] \in Policy!Digits
      BY <2>1, DigitsAtAre
    <2>3. PICK b \in Nat \ {0} : b = a + m + 1
      BY <2>1
    <2>4. Policy!DigitsAt(s, b, d) <=> b + d - 1 <= Len(s) /\ \A k \in b..b + d - 1 : s[k] \in Policy!Digits
      BY <2>1, DigitsAtAre
    <2>5. /\ b + d - 1 = a + m + d /\ a + m + 1 + d = (a + m + d) + 1
          /\ (a + m + d <= Len(s) => a + m <= Len(s) /\ a + m - 1 <= Len(s))
          /\ (a + m + d + 1 > Len(s) <=> a + m + d >= Len(s))
      BY <1>1, <2>1, <2>3
    <2>6. Policy!DigitsAt(s, a + m + 1, d)
            <=> a + m + d <= Len(s) /\ \A k \in a + m + 1..a + m + d : s[k] \in Policy!Digits
      BY <2>3, <2>4, <2>5
    <2>. QED
      BY <2>2, <2>5, <2>6 DEF DateAt, Alone
  <1>3. Policy!has_date_pattern(s)
          <=> Policy!HasYear(s) \/ \E a \in 1..Len(s), m, d \in 1..2 : Found(a, m, d)
    BY DEF Policy!has_date_pattern
  <1>. HIDE DEF Found
  <1>. QED
    BY <1>2, <1>3 DEF DateStandsAlone

\* A date of three parts begins with one of two, and the separator after it ends the word.
LEMMA YearComesAfterDate ==
  ASSUME NEW t \in Passwords, Policy!WithYear(t)
  PROVE  \E m, d \in 1..2 : /\ DateAt(t, 1, m, d) /\ m + d + 2 <= Len(t)
                            /\ t[m + d + 2] \in Policy!DateSeparators
  <1>1. Len(t) \in Nat
    BY LenProperties DEF Passwords
  <1>2. PICK rest \in Nat : /\ rest >= 3 /\ rest + 1 <= Len(t)
                            /\ Policy!MonthAndDay(SubSeq(t, 1, rest))
                            /\ t[rest + 1] \in Policy!DateSeparators
    <2>1. PICK y \in 2..4 : /\ Len(t) - y - 1 >= 3
                            /\ Policy!MonthAndDay(SubSeq(t, 1, Len(t) - y - 1))
                            /\ t[Len(t) - y - 1 + 1] \in Policy!DateSeparators
      BY DEF Policy!WithYear
    <2>2. Len(t) - y - 1 \in Nat /\ Len(t) - y - 1 + 1 <= Len(t)
      BY <1>1, <2>1
    <2>. QED
      BY <2>1, <2>2
  <1>3. 1 \in 1..Len(t) /\ rest \in 1..Len(t)
    BY <1>1, <1>2
  <1>4. PICK u \in Passwords : u = SubSeq(t, 1, rest) /\ Len(u) = rest
    <2>1. SubSeq(t, 1, rest) \in Passwords /\ Len(SubSeq(t, 1, rest)) = rest - 1 + 1
      BY <1>3, PartOf
    <2>2. rest - 1 + 1 = rest
      BY <1>3
    <2>. QED
      BY <2>1, <2>2, Zenon
  <1>5. PICK m \in 1..2, d \in 1..2 : Len(u) = m + 1 + d /\ DateAt(u, 1, m, d)
    BY <1>2, <1>4, MonthAndDayIs
  <1>6. 1 + m + d <= rest /\ rest + 1 = m + d + 2
    BY <1>2, <1>4, <1>5
  <1>7. DateAt(t, 1, m, d)
    BY <1>3, <1>4, <1>5, <1>6, DateInPart
  <1>. QED
    BY <1>2, <1>6, <1>7

\* So does the form.
LEMMA FormFindsDates ==
  ASSUME NEW s \in Passwords
  PROVE  Policy!datePattern(s) <=> Policy!HasYear(s) \/ DateStandsAlone(s)
  <1>1. Len(s) \in Nat
    BY LenProperties DEF Passwords
  <1>. DEFINE Found(a, b) ==
                /\ Policy!Boundary(s, a - 1) /\ Policy!Boundary(s, b)
                /\ Policy!MonthAndDay(SubSeq(s, a, b)) \/ Policy!WithYear(SubSeq(s, a, b))
  <1>2. Policy!datePattern(s)
          <=> Policy!HasYear(s) \/ \E a \in 1..Len(s) : \E b \in a + 2..Len(s) : Found(a, b)
    BY DEF Policy!datePattern
  <1>3. ASSUME NEW a \in 1..Len(s), NEW m \in 1..2, NEW d \in 1..2, DateAt(s, a, m, d)
        PROVE  /\ a + m + d \in a + 2..Len(s)
               /\ Policy!Boundary(s, a - 1) <=> (a = 1 \/ ~Policy!IsWordCharacter(s[a - 1]))
               /\ Policy!Boundary(s, a + m + d)
                    <=> (a + m + d >= Len(s) \/ ~Policy!IsWordCharacter(s[a + m + d + 1]))
    <2>1. a + m + d <= Len(s)
      BY <1>3 DEF DateAt
    <2>2. a + m + d \in a + 2..Len(s) /\ a + m + d \in 1..Len(s)
      BY <1>1, <2>1
    <2>3. a \in a..a + m - 1 /\ a + m + d \in a + m + 1..a + m + d
      BY <1>1
    <2>4. s[a] \in Policy!Digits /\ s[a + m + d] \in Policy!Digits
      BY <1>3, <2>3 DEF DateAt
    <2>5. Policy!IsWordCharacter(s[a]) /\ Policy!IsWordCharacter(s[a + m + d])
      BY <2>4, WordCharacters
    <2>6. PICK b \in 1..Len(s) : b = a + m + d
      BY <2>2
    <2>7. Policy!Boundary(s, b) <=> (b >= Len(s) \/ ~Policy!IsWordCharacter(s[b + 1]))
      BY <2>5, <2>6, Boundaries
    <2>8. Policy!Boundary(s, a - 1) <=> (a = 1 \/ ~Policy!IsWordCharacter(s[a - 1]))
      BY <2>5, Boundaries
    <2>. QED
      BY <2>2, <2>6, <2>7, <2>8
  <1>4. ASSUME NEW a \in 1..Len(s), NEW b \in a + 2..Len(s)
        PROVE  /\ SubSeq(s, a, b) \in Passwords /\ Len(SubSeq(s, a, b)) = b - a + 1
               /\ \A k \in 1..b - a + 1 : SubSeq(s, a, b)[k] = s[a + k - 1]
               /\ \A m, d \in 1..2 :
                     a + m + d <= b => (DateAt(SubSeq(s, a, b), 1, m, d) <=> DateAt(s, a, m, d))
    <2>1. b \in a..Len(s)
      BY <1>1
    <2>. QED
      BY <2>1, PartOf, DateInPart
  <1>5. ASSUME NEW a \in 1..Len(s), NEW m \in 1..2, NEW d \in 1..2,
               DateAt(s, a, m, d), Alone(s, a, a + m + d)
        PROVE  \E b \in a + 2..Len(s) : Found(a, b)
    <2>1. PICK b \in a + 2..Len(s) : b = a + m + d
      BY <1>3, <1>5
    <2>2. PICK t \in Passwords : t = SubSeq(s, a, b)
      BY <1>4
    <2>3. Len(t) = m + 1 + d
      BY <1>1, <1>4, <2>1, <2>2
    <2>4. DateAt(t, 1, m, d)
      BY <1>1, <1>4, <1>5, <2>1, <2>2
    <2>5. Policy!MonthAndDay(t)
      BY <2>3, <2>4, MonthAndDayIs
    <2>6. Policy!Boundary(s, a - 1) /\ Policy!Boundary(s, b)
      BY <1>3, <1>5, <2>1 DEF Alone
    <2>. QED
      BY <2>2, <2>5, <2>6
  <1>6. ASSUME NEW a \in 1..Len(s), NEW b \in a + 2..Len(s), Found(a, b)
        PROVE  DateStandsAlone(s)
    <2>1. PICK t \in Passwords : t = SubSeq(s, a, b)
      BY <1>4
    <2>2. Len(t) = b - a + 1 /\ \A k \in 1..b - a + 1 : t[k] = s[a + k - 1]
      BY <1>4, <2>1
    <2>3. CASE Policy!MonthAndDay(t)
      <3>1. PICK m \in 1..2, d \in 1..2 : Len(t) = m + 1 + d /\ DateAt(t, 1, m, d)
        BY <2>3, MonthAndDayIs
      <3>2. b = a + m + d
        BY <1>1, <2>2, <3>1
      <3>3. DateAt(s, a, m, d)
        BY <1>1, <1>4, <2>1, <3>1, <3>2
      <3>4. Alone(s, a, a + m + d)
        BY <1>3, <1>6, <3>2, <3>3 DEF Alone
      <3>. QED
        BY <3>3, <3>4 DEF DateStandsAlone
    <2>4. CASE Policy!WithYear(t)
      <3>1. PICK m \in 1..2, d \in 1..2 : /\ DateAt(t, 1, m, d) /\ m + d + 2 <= Len(t)
                                          /\ t[m + d + 2] \in Policy!DateSeparators
        BY <2>4, YearComesAfterDate
      <3>2. a + m + d <= b /\ m + d + 2 \in 1..b - a + 1 /\ a + (m + d + 2) - 1 = a + m + d + 1
        BY <1>1, <2>2, <3>1
      <3>3. DateAt(s, a, m, d)
        BY <1>4, <2>1, <3>1, <3>2
      <3>4. s[a + m + d + 1] \in Policy!DateSeparators
        BY <2>2, <3>1, <3>2
      <3>5. Alone(s, a, a + m + d)
        BY <1>3, <1>6, <3>3, <3>4, WordCharacters DEF Alone
      <3>. QED
        BY <3>3, <3>5 DEF DateStandsAlone
    <2>. QED
      BY <1>6, <2>1, <2>3, <2>4
  <1>. HIDE DEF Found
  <1>. QED
    BY <1>2, <1>5, <1>6 DEF DateStandsAlone

LEMMA DatesAreTheSame ==
  ASSUME NEW s \in Passwords
  PROVE  Policy!has_date_pattern(s) <=> Policy!datePattern(s)
  BY ServiceFindsDates, FormFindsDates

LEMMA PenaltiesAreTheSame ==
  ASSUME NEW s \in Passwords
  PROVE  Policy!penalty(s) = Policy!formPenalty(s) /\ Policy!penalty(s) \in Nat
  <1>1. Policy!low_diversity(s) <=> Policy!hasLowDiversity(s)
    BY DiversityIsTheSame
  <1>2. (\E w \in Policy!windows(s, 3) : w[1] = w[2] /\ w[2] = w[3]) <=> Policy!hasRepeatedRun(s)
    BY RunsAreTheSame
  <1>3. Policy!has_date_pattern(s) <=> Policy!datePattern(s)
    BY DatesAreTheSame
  <1>4. PICK run : run = \E w \in Policy!windows(s, 3) : w[1] = w[2] /\ w[2] = w[3]
    OBVIOUS
  <1>5. /\ Policy!If(Policy!hasRepeatedRun(s), 24) = Policy!If(run, 24)
        /\ Policy!If(Policy!datePattern(s), 15) = Policy!If(Policy!has_date_pattern(s), 15)
        /\ Policy!If(Policy!hasLowDiversity(s), 30) = Policy!If(Policy!low_diversity(s), 30)
    BY <1>1, <1>2, <1>3, <1>4 DEF Policy!If
  <1>6. Policy!penalty(s)
          = Policy!If(Policy!common_match(s), 30)
            + Policy!If(Policy!has_sequential_pattern(Policy!Lowered(s)), 20)
            + Policy!If(Policy!keyboard_pattern(s), 30) + Policy!If(run, 24)
            + Policy!If(Policy!has_repeated_chunk(s), 24) + Policy!If(Policy!has_date_pattern(s), 15)
            + Policy!If(Policy!low_diversity(s), 30)
    BY <1>4 DEF Policy!penalty
  <1>7. Policy!formPenalty(s)
          = Policy!If(Policy!common_match(s), 30)
            + Policy!If(Policy!has_sequential_pattern(Policy!Lowered(s)), 20)
            + Policy!If(Policy!keyboard_pattern(s), 30) + Policy!If(run, 24)
            + Policy!If(Policy!has_repeated_chunk(s), 24) + Policy!If(Policy!has_date_pattern(s), 15)
            + Policy!If(Policy!low_diversity(s), 30)
    BY <1>5 DEF Policy!formPenalty
  <1>8. \A c : /\ Policy!If(c, 30) \in Nat /\ Policy!If(c, 20) \in Nat
               /\ Policy!If(c, 24) \in Nat /\ Policy!If(c, 15) \in Nat
    BY DEF Policy!If
  <1>. QED
    BY <1>6, <1>7, <1>8

LEMMA NotBelowZero ==
  ASSUME NEW x \in Int
  PROVE  Policy!Max({0, x}) = IF x >= 0 THEN x ELSE 0
  <1>1. PICK m : m = Policy!Max({0, x})
    OBVIOUS
  <1>2. \E y \in {0, x} : \A z \in {0, x} : y >= z
    <2>1. 0 >= x \/ x >= 0
      OBVIOUS
    <2>. QED
      BY <2>1
  <1>3. m \in {0, x} /\ \A z \in {0, x} : m >= z
    BY <1>1, <1>2 DEF Policy!Max
  <1>. QED
    BY <1>1, <1>3

LEMMA PoolsHaveBits ==
  ASSUME NEW pool
  PROVE  Policy!Log2(pool) \in Nat
  BY SMT DEF Policy!Log2

\* The score of the form is three or more when the service accepts a password that is long
\* enough.
LEMMA ScoreIsAcceptance ==
  ASSUME NEW s \in Passwords
  PROVE  /\ Policy!analyzePassword(s) \in 0..4
         /\ Policy!accepts_master_password(s) <=> ~(Len(s) < 12) /\ ~(Policy!analyzePassword(s) < 3)
  <1>1. PICK bits \in Int : bits = Len(s) * Policy!Log2(Policy!PoolSize(s))
    <2>1. PICK b \in Nat : b = Policy!Log2(Policy!PoolSize(s))
      BY PoolsHaveBits
    <2>2. PICK n \in Nat : n = Len(s)
      BY LenProperties DEF Passwords
    <2>3. n * b \in Int
      OBVIOUS
    <2>. QED
      BY <2>1, <2>2, <2>3
  <1>2. PICK p \in Nat : p = Policy!penalty(s) /\ p = Policy!formPenalty(s)
    BY PenaltiesAreTheSame
  <1>3. PICK critical \in BOOLEAN :
             /\ critical <=> Policy!critical_pattern(s)
             /\ critical <=> \/ Policy!hasLowDiversity(s) \/ Policy!has_repeated_chunk(s)
                             \/ Len(s) <= 16 /\ (Policy!common_match(s) \/ Policy!keyboard_pattern(s))
    <2>1. Policy!critical_pattern(s)
            <=> \/ Policy!hasLowDiversity(s) \/ Policy!has_repeated_chunk(s)
                \/ Len(s) <= 16 /\ (Policy!common_match(s) \/ Policy!keyboard_pattern(s))
      BY DiversityIsTheSame DEF Policy!critical_pattern
    <2>. QED
      BY <2>1
  <1>4. PICK entropy \in Int : entropy = Policy!Max({0, bits - 100000 * p})
    <2>1. bits - 100000 * p \in Int
      BY SMT
    <2>2. PICK x \in Int : x = bits - 100000 * p
      BY <2>1, SMT
    <2>. QED
      BY <2>2, NotBelowZero, SMT
  <1>5. entropy >= 5500000 <=> bits >= 100000 * (55 + p)
    <2>1. PICK x \in Int : x = bits - 100000 * p
      BY SMT
    <2>2. entropy = IF x >= 0 THEN x ELSE 0
      BY <1>4, <2>1, NotBelowZero, SMT
    <2>. QED
      BY <2>1, <2>2, SMT
  <1>. DEFINE score == Policy!If(entropy >= 2500000, 1) + Policy!If(entropy >= 4000000, 1)
                       + Policy!If(entropy >= 5500000, 1) + Policy!If(entropy >= 7000000, 1)
  <1>6. Policy!analyzePassword(s) = IF critical /\ score > 1 THEN 1 ELSE score
    BY <1>1, <1>2, <1>3, <1>4, SMT DEF Policy!analyzePassword
  <1>7. score \in 0..4 /\ (score >= 3 <=> entropy >= 5500000)
    BY SMT DEF Policy!If
  <1>. HIDE DEF score
  <1>8. Policy!analyzePassword(s) >= 3 <=> ~critical /\ score >= 3
    BY <1>6, <1>7, SMT
  <1>9. Policy!analyzePassword(s) \in 0..4
    BY <1>6, <1>7, SMT
  <1>10. Policy!accepts_master_password(s)
           <=> Len(s) >= 12 /\ ~critical /\ bits >= 100000 * (55 + p)
    BY <1>1, <1>2, <1>3, SMT DEF Policy!accepts_master_password
  <1>11. Len(s) \in Nat
    BY LenProperties DEF Passwords
  <1>. QED
    BY <1>5, <1>7, <1>8, <1>9, <1>10, <1>11, SMT

PasswordInv == password \in Passwords

\* What is typed is a sequence of characters, in every run.
THEOREM TypedIsPassword == FormsSpec => []PasswordInv
  <1>1. \A w \in Begun \cup {<<>>} \cup DatePieces \cup ChoicePieces : w \in Passwords
    BY FormsAssumption DEF Policy!PasswordPolicyAssumption, Passwords
  <1>2. FormsInit => PasswordInv
    BY <1>1 DEF FormsInit, PasswordInv
  <1>3. PasswordInv /\ [FormsNext]_formsVars => PasswordInv'
    <2>1. ASSUME PasswordInv, NEW piece \in DatePieces \cup ChoicePieces, Policy!Type(piece)
          PROVE  PasswordInv'
      <3>1. piece \in Passwords /\ password' = password \o piece
        BY <1>1, <2>1 DEF Policy!Type
      <3>2. password \o piece \in Passwords
        BY <2>1, <3>1, ConcatProperties DEF PasswordInv, Passwords
      <3>. QED
        BY <3>1, <3>2 DEF PasswordInv
    <2>2. ASSUME PasswordInv, UNCHANGED password
          PROVE  PasswordInv'
      BY <2>2 DEF PasswordInv
    <2>3. FormsNext => UNCHANGED password
                       \/ \E piece \in DatePieces \cup ChoicePieces : Policy!Type(piece)
      BY DEF FormsNext, DateStep, ChoiceStep
    <2>4. UNCHANGED formsVars => UNCHANGED password
      BY DEF formsVars
    <2>. QED
      BY <2>1, <2>2, <2>3, <2>4
  <1>. QED
    BY <1>2, <1>3, PTL DEF FormsSpec

\* The form calls a new master password good exactly when the service takes it, and both
\* find a date in it or neither (password_policy.rs, passwordStrength.ts).
THEOREM FormAndServiceDoAgree == FormsSpec => []FormAndServiceAgree
  <1>1. PasswordInv => FormAndServiceAgree
    <2>1. SUFFICES ASSUME PasswordInv
                   PROVE  Policy!DatesAgree /\ Policy!FormAndServiceAgree
      BY DEF FormAndServiceAgree
    <2>2. PICK s \in Passwords : s = password
      BY <2>1 DEF PasswordInv
    <2>3. Policy!DatesAgree
      BY <2>2, DatesAreTheSame DEF Policy!DatesAgree
    <2>4. Policy!validate_master_password(s) = "Ok"
            <=> ~(Len(s) < 12) /\ Policy!accepts_master_password(s)
      BY DEF Policy!validate_master_password
    <2>5. Policy!masterPasswordStrength(s) # "Weak"
            <=> ~(Len(s) < 12) /\ ~(Policy!analyzePassword(s) < 3)
      BY DEF Policy!masterPasswordStrength
    <2>6. Policy!FormAndServiceAgree
      BY <2>2, <2>4, <2>5, ScoreIsAcceptance, Zenon DEF Policy!FormAndServiceAgree
    <2>. QED
      BY <2>3, <2>6
  <1>. QED
    BY <1>1, TypedIsPassword, PTL

---------------------------------------------------------------------------
(* Settings.                                                               *)

(* How far a reset has come says what it has removed, and without a        *)
(* profile everything has been: a restart finds "no profile" alone.        *)
ResetIsOrdered ==
    /\ ~running => ~owned /\ step = "none"
    /\ step \in { "clipboard", "settings", "profile", "auth" } => ~startup
    /\ step \in { "settings", "profile", "auth" } => ~owned
    /\ step \in { "profile", "auth" } => file = NoFile
    /\ ~profileExists => ~startup /\ file = NoFile /\ ~owned

(* The setup screen is for processes without a profile, and for commands   *)
(* that have no second step.                                               *)
SessionFollowsProfile ==
    /\ (running /\ session = "SetupRequired") => ~profileExists
    /\ (running /\ session # "SetupRequired") => profileExists
    /\ step # "none" => session # "SetupRequired"

(* Between saving a delay and applying it only that delay is behind.       *)
DelaysFollow ==
    (running /\ ~settingsReset) =>
        /\ step # "applyAutoLock" => autoLockTimeout = values.auto_lock_seconds
        /\ step # "applyClipboard" => clipboardTimeout = values.clipboard_clear_seconds

IInv ==
    /\ TypeOK
    /\ ShownSettingsAreSaved
    /\ ResetIsOrdered
    /\ SessionFollowsProfile
    /\ DelaysFollow

(* The defaults are settings, and changing one setting leaves the others.  *)
LEMMA DefaultType ==
    /\ Default \in SettingsValues
    /\ Default.auto_lock_seconds = DefaultAutoLock
    /\ Default.clipboard_clear_seconds = DefaultClipboard
  BY SettingsAssumption
  DEF SettingsAssumption, Default, SettingsValues, AutoLockDelays, ClipboardDelays

LEMMA OneIsChanged ==
  ASSUME NEW v \in SettingsValues
  PROVE  /\ \A s \in AutoLockDelays :
               /\ [v EXCEPT !.auto_lock_seconds = s] \in SettingsValues
               /\ [v EXCEPT !.auto_lock_seconds = s].clipboard_clear_seconds
                    = v.clipboard_clear_seconds
         /\ \A s \in ClipboardDelays :
               /\ [v EXCEPT !.clipboard_clear_seconds = s] \in SettingsValues
               /\ [v EXCEPT !.clipboard_clear_seconds = s].auto_lock_seconds
                    = v.auto_lock_seconds
         /\ \A b \in BOOLEAN :
               /\ [v EXCEPT !.lock_on_sleep = b] \in SettingsValues
               /\ [v EXCEPT !.lock_on_sleep = b].auto_lock_seconds = v.auto_lock_seconds
               /\ [v EXCEPT !.lock_on_sleep = b].clipboard_clear_seconds
                    = v.clipboard_clear_seconds
         /\ \A t \in Themes :
               /\ [v EXCEPT !.theme = t] \in SettingsValues
               /\ [v EXCEPT !.theme = t].auto_lock_seconds = v.auto_lock_seconds
               /\ [v EXCEPT !.theme = t].clipboard_clear_seconds
                    = v.clipboard_clear_seconds
         /\ v.auto_lock_seconds \in AutoLockDelays
         /\ v.clipboard_clear_seconds \in ClipboardDelays
  BY DEF SettingsValues

(* What a start reads is settings, whatever is in the file; what was saved *)
(* reads back as it was, and a missing or unreadable file as the defaults. *)
LEMMA LoadedType ==
  ASSUME TypeOK
  PROVE  Loaded \in SettingsValues
  <1>1. CASE file \in { NoFile, Damaged } \/ file.auto_lock_seconds \notin AutoLockDelays
    BY <1>1, DefaultType DEF Loaded
  <1>2. CASE /\ file \notin { NoFile, Damaged } /\ file.auto_lock_seconds \in AutoLockDelays
             /\ file \in SettingsValues
    BY <1>2, SettingsAssumption DEF Loaded, SettingsAssumption, SettingsValues
  <1>3. CASE /\ file \notin { NoFile, Damaged } /\ file.auto_lock_seconds \in AutoLockDelays
             /\ file \in { OutOfRange, Earlier }
    <2>1. CASE file = OutOfRange
      BY <1>3, <2>1, SettingsAssumption, DefaultType
      DEF OutOfRange, SettingsAssumption, Default
    <2>2. CASE file = Earlier
      <3>1. file = [auto_lock_seconds |-> file.auto_lock_seconds,
                    clipboard_clear_seconds |-> DefaultClipboard,
                    lock_on_sleep |-> Absent, theme |-> DefaultTheme]
        BY <2>2 DEF Earlier, Default
      <3>2. Loaded = [file EXCEPT !.lock_on_sleep = TRUE]
        BY <1>3, <3>1 DEF Loaded
      <3>3. file \in [auto_lock_seconds : AutoLockDelays,
                      clipboard_clear_seconds : ClipboardDelays,
                      lock_on_sleep : { Absent }, theme : Themes]
        BY <1>3, <3>1, SettingsAssumption DEF SettingsAssumption, ClipboardDelays
      <3>. QED  BY <3>2, <3>3 DEF SettingsValues
    <2>. QED  BY <1>3, <2>1, <2>2
  <1>. QED  BY <1>1, <1>2, <1>3 DEF TypeOK

(* Whatever can be saved reads back as it is.                              *)
LEMMA SettingsAreReadable ==
  ASSUME NEW v \in SettingsValues
  PROVE  /\ v \notin { NoFile, Damaged }
         /\ v.auto_lock_seconds \in AutoLockDelays
         /\ v.lock_on_sleep # Absent
  BY SettingsAssumption DEF SettingsAssumption, SettingsValues

LEMMA LoadedFields ==
  ASSUME TypeOK
  PROVE  /\ Loaded.auto_lock_seconds \in AutoLockDelays
         /\ Loaded.clipboard_clear_seconds \in ClipboardDelays
  BY LoadedType DEF SettingsValues

(* Every action keeps the types.                                           *)
LEMMA TypeStep ==
  ASSUME TypeOK, [Next]_vars
  PROVE  TypeOK'
  <1>1. CASE Start
    BY <1>1, LoadedType, LoadedFields DEF Start, StartDelays, TypeOK, delays
  <1>2. CASE Stop
    BY <1>2 DEF Stop, TypeOK, delays
  <1>3. CASE DamageFile
    BY <1>3 DEF DamageFile, TypeOK, delays
  <1>4. CASE SetUp
    BY <1>4 DEF SetUp, Gate, TypeOK, delays
  <1>5. CASE Unlock
    BY <1>5 DEF Unlock, Gate, TypeOK, delays
  <1>6. CASE Lock
    BY <1>6 DEF Lock, Gate, TypeOK, delays
  <1>7. CASE CopySecret
    BY <1>7 DEF CopySecret, Gate, TypeOK, delays
  <1>8. CASE SecretExpires
    BY <1>8 DEF SecretExpires, TypeOK, delays
  <1>9. ASSUME NEW seconds \in AutoLockDelays, SetAutoLock(seconds)
        PROVE  TypeOK'
    BY <1>9, OneIsChanged DEF SetAutoLock, Gate, ReplaceValues, TypeOK, delays
  <1>10. CASE ApplyAutoLock
    BY <1>10, OneIsChanged DEF ApplyAutoLock, TypeOK, delays
  <1>11. ASSUME NEW seconds \in ClipboardDelays, SetClipboardClear(seconds)
        PROVE  TypeOK'
    BY <1>11, OneIsChanged DEF SetClipboardClear, Gate, ReplaceValues, TypeOK, delays
  <1>12. CASE ApplyClipboard
    BY <1>12, OneIsChanged DEF ApplyClipboard, TypeOK, delays
  <1>13. ASSUME NEW enabled \in BOOLEAN, SetStartup(enabled)
        PROVE  TypeOK'
    BY <1>13 DEF SetStartup, Gate, set_enabled, TypeOK, delays
  <1>14. ASSUME NEW enabled \in BOOLEAN, SetLockOnSleep(enabled)
        PROVE  TypeOK'
    BY <1>14, OneIsChanged DEF SetLockOnSleep, Gate, ReplaceValues, TypeOK, delays
  <1>15. ASSUME NEW theme \in Themes, SetTheme(theme)
        PROVE  TypeOK'
    BY <1>15, OneIsChanged DEF SetTheme, Gate, ReplaceValues, TypeOK, delays
  <1>16. CASE Reset
    BY <1>16 DEF Reset, ResetSteps, Gate, TypeOK, delays
  <1>17. CASE ResetAborts
    BY <1>17 DEF ResetAborts, ResetSteps, TypeOK, delays
  <1>18. CASE ResetStartup
    BY <1>18 DEF ResetStartup, At, After, ResetSteps, TypeOK, delays
  <1>19. CASE ResetClipboard
    BY <1>19 DEF ResetClipboard, At, After, ResetSteps, TypeOK, delays
  <1>20. CASE ResetSettings
    BY <1>20, DefaultType DEF ResetSettings, At, After, ResetSteps, TypeOK, delays
  <1>21. CASE ResetProfile
    BY <1>21 DEF ResetProfile, At, After, ResetSteps, TypeOK, delays
  <1>22. CASE FinishReset
    BY <1>22 DEF FinishReset, At, TypeOK, delays
  <1>23. CASE UNCHANGED vars
    BY <1>23 DEF TypeOK, delays, vars
  <1>. QED
    BY <1>1, <1>2, <1>3, <1>4, <1>5, <1>6, <1>7, <1>8, <1>9, <1>10, <1>11, <1>12,
       <1>13, <1>14, <1>15, <1>16, <1>17, <1>18, <1>19, <1>20, <1>21, <1>22, <1>23 DEF
       Next

(* What is shown is what a start reads: a value is saved before it is shown. *)
LEMMA SavedStep ==
  ASSUME TypeOK, ShownSettingsAreSaved, [Next]_vars
  PROVE  ShownSettingsAreSaved'
  <1>1. CASE Start
    BY <1>1 DEF Start, StartDelays, ShownSettingsAreSaved, Loaded
  <1>2. CASE Stop
    BY <1>2 DEF Stop, ShownSettingsAreSaved, Loaded
  <1>3. CASE DamageFile
    BY <1>3 DEF DamageFile, ShownSettingsAreSaved, Loaded
  <1>4. CASE SetUp
    BY <1>4 DEF SetUp, Gate, ShownSettingsAreSaved, Loaded
  <1>5. CASE Unlock
    BY <1>5 DEF Unlock, Gate, ShownSettingsAreSaved, Loaded
  <1>6. CASE Lock
    BY <1>6 DEF Lock, Gate, ShownSettingsAreSaved, Loaded
  <1>7. CASE CopySecret
    BY <1>7 DEF CopySecret, Gate, ShownSettingsAreSaved, Loaded
  <1>8. CASE SecretExpires
    BY <1>8 DEF SecretExpires, ShownSettingsAreSaved, Loaded
  <1>9. ASSUME NEW seconds \in AutoLockDelays, SetAutoLock(seconds)
        PROVE  ShownSettingsAreSaved'
    <2>. DEFINE changed == [values EXCEPT !.auto_lock_seconds = seconds]
    <2>1. changed \in SettingsValues
      BY OneIsChanged DEF TypeOK
    <2>2. \/ file' = changed /\ values' = changed
          \/ UNCHANGED << file, values >>
      BY <1>9 DEF SetAutoLock, ReplaceValues
    <2>3. UNCHANGED running
      BY <1>9 DEF SetAutoLock
    <2>. HIDE DEF changed
    <2>. QED
      BY <2>1, <2>2, <2>3, SettingsAreReadable DEF ShownSettingsAreSaved, Loaded
  <1>10. CASE ApplyAutoLock
    BY <1>10 DEF ApplyAutoLock, ShownSettingsAreSaved, Loaded
  <1>11. ASSUME NEW seconds \in ClipboardDelays, SetClipboardClear(seconds)
        PROVE  ShownSettingsAreSaved'
    <2>. DEFINE changed == [values EXCEPT !.clipboard_clear_seconds = seconds]
    <2>1. changed \in SettingsValues
      BY OneIsChanged DEF TypeOK
    <2>2. \/ file' = changed /\ values' = changed
          \/ UNCHANGED << file, values >>
      BY <1>11 DEF SetClipboardClear, ReplaceValues
    <2>3. UNCHANGED running
      BY <1>11 DEF SetClipboardClear
    <2>. HIDE DEF changed
    <2>. QED
      BY <2>1, <2>2, <2>3, SettingsAreReadable DEF ShownSettingsAreSaved, Loaded
  <1>12. CASE ApplyClipboard
    BY <1>12 DEF ApplyClipboard, ShownSettingsAreSaved, Loaded
  <1>13. ASSUME NEW enabled \in BOOLEAN, SetStartup(enabled)
        PROVE  ShownSettingsAreSaved'
    BY <1>13 DEF SetStartup, Gate, set_enabled, ShownSettingsAreSaved, Loaded
  <1>14. ASSUME NEW enabled \in BOOLEAN, SetLockOnSleep(enabled)
        PROVE  ShownSettingsAreSaved'
    <2>. DEFINE changed == [values EXCEPT !.lock_on_sleep = enabled]
    <2>1. changed \in SettingsValues
      BY OneIsChanged DEF TypeOK
    <2>2. \/ file' = changed /\ values' = changed
          \/ UNCHANGED << file, values >>
      BY <1>14 DEF SetLockOnSleep, ReplaceValues
    <2>3. UNCHANGED running
      BY <1>14 DEF SetLockOnSleep
    <2>. HIDE DEF changed
    <2>. QED
      BY <2>1, <2>2, <2>3, SettingsAreReadable DEF ShownSettingsAreSaved, Loaded
  <1>15. ASSUME NEW theme \in Themes, SetTheme(theme)
        PROVE  ShownSettingsAreSaved'
    <2>. DEFINE changed == [values EXCEPT !.theme = theme]
    <2>1. changed \in SettingsValues
      BY OneIsChanged DEF TypeOK
    <2>2. \/ file' = changed /\ values' = changed
          \/ UNCHANGED << file, values >>
      BY <1>15 DEF SetTheme, ReplaceValues
    <2>3. UNCHANGED running
      BY <1>15 DEF SetTheme
    <2>. HIDE DEF changed
    <2>. QED
      BY <2>1, <2>2, <2>3, SettingsAreReadable DEF ShownSettingsAreSaved, Loaded
  <1>16. CASE Reset
    BY <1>16 DEF Reset, Gate, ShownSettingsAreSaved, Loaded
  <1>17. CASE ResetAborts
    BY <1>17 DEF ResetAborts, ResetSteps, ShownSettingsAreSaved, Loaded
  <1>18. CASE ResetStartup
    BY <1>18 DEF ResetStartup, At, After, ResetSteps, ShownSettingsAreSaved, Loaded
  <1>19. CASE ResetClipboard
    BY <1>19 DEF ResetClipboard, At, After, ResetSteps, ShownSettingsAreSaved, Loaded
  <1>20. CASE ResetSettings
    BY <1>20 DEF ResetSettings, At, ShownSettingsAreSaved, Loaded
  <1>21. CASE ResetProfile
    BY <1>21 DEF ResetProfile, At, After, ResetSteps, ShownSettingsAreSaved, Loaded
  <1>22. CASE FinishReset
    BY <1>22 DEF FinishReset, At, ShownSettingsAreSaved, Loaded
  <1>23. CASE UNCHANGED vars
    BY <1>23 DEF ShownSettingsAreSaved, Loaded, vars, delays
  <1>. QED
    BY <1>1, <1>2, <1>3, <1>4, <1>5, <1>6, <1>7, <1>8, <1>9, <1>10, <1>11, <1>12,
       <1>13, <1>14, <1>15, <1>16, <1>17, <1>18, <1>19, <1>20, <1>21, <1>22, <1>23 DEF
       Next

(* A reset removes in order, and nothing of it comes back before a new vault is set up. *)
LEMMA OrderStep ==
  ASSUME TypeOK, ResetIsOrdered, SessionFollowsProfile, [Next]_vars
  PROVE  ResetIsOrdered'
  <1>1. CASE Start
    BY <1>1 DEF Start, StartDelays, ResetIsOrdered, SessionFollowsProfile
  <1>2. CASE Stop
    BY <1>2 DEF Stop, ResetIsOrdered, SessionFollowsProfile
  <1>3. CASE DamageFile
    BY <1>3 DEF DamageFile, ResetIsOrdered, SessionFollowsProfile
  <1>4. CASE SetUp
    BY <1>4 DEF SetUp, Gate, ResetIsOrdered, SessionFollowsProfile
  <1>5. CASE Unlock
    BY <1>5 DEF Unlock, Gate, ResetIsOrdered, SessionFollowsProfile
  <1>6. CASE Lock
    BY <1>6 DEF Lock, Gate, ResetIsOrdered, SessionFollowsProfile
  <1>7. CASE CopySecret
    BY <1>7 DEF CopySecret, Gate, ResetIsOrdered, SessionFollowsProfile
  <1>8. CASE SecretExpires
    BY <1>8 DEF SecretExpires, ResetIsOrdered, SessionFollowsProfile
  <1>9. ASSUME NEW seconds \in AutoLockDelays, SetAutoLock(seconds)
        PROVE  ResetIsOrdered'
    BY <1>9 DEF SetAutoLock, Gate, ReplaceValues, ResetIsOrdered, SessionFollowsProfile
  <1>10. CASE ApplyAutoLock
    BY <1>10 DEF ApplyAutoLock, ResetIsOrdered, SessionFollowsProfile
  <1>11. ASSUME NEW seconds \in ClipboardDelays, SetClipboardClear(seconds)
        PROVE  ResetIsOrdered'
    BY <1>11 DEF SetClipboardClear, Gate, ReplaceValues, ResetIsOrdered,
       SessionFollowsProfile
  <1>12. CASE ApplyClipboard
    BY <1>12 DEF ApplyClipboard, ResetIsOrdered, SessionFollowsProfile
  <1>13. ASSUME NEW enabled \in BOOLEAN, SetStartup(enabled)
        PROVE  ResetIsOrdered'
    BY <1>13 DEF SetStartup, Gate, set_enabled, ResetIsOrdered, SessionFollowsProfile
  <1>14. ASSUME NEW enabled \in BOOLEAN, SetLockOnSleep(enabled)
        PROVE  ResetIsOrdered'
    BY <1>14 DEF SetLockOnSleep, Gate, ReplaceValues, ResetIsOrdered,
       SessionFollowsProfile
  <1>15. ASSUME NEW theme \in Themes, SetTheme(theme)
        PROVE  ResetIsOrdered'
    BY <1>15 DEF SetTheme, Gate, ReplaceValues, ResetIsOrdered, SessionFollowsProfile
  <1>16. CASE Reset
    BY <1>16 DEF Reset, Gate, ResetIsOrdered, SessionFollowsProfile
  <1>17. CASE ResetAborts
    BY <1>17 DEF ResetAborts, ResetSteps, ResetIsOrdered, SessionFollowsProfile
  <1>18. CASE ResetStartup
    BY <1>18 DEF ResetStartup, At, After, ResetSteps, ResetIsOrdered,
       SessionFollowsProfile
  <1>19. CASE ResetClipboard
    BY <1>19 DEF ResetClipboard, At, After, ResetSteps, ResetIsOrdered,
       SessionFollowsProfile
  <1>20. CASE ResetSettings
    BY <1>20 DEF ResetSettings, At, After, ResetSteps, ResetIsOrdered,
       SessionFollowsProfile
  <1>21. CASE ResetProfile
    BY <1>21 DEF ResetProfile, At, After, ResetSteps, ResetIsOrdered,
       SessionFollowsProfile
  <1>22. CASE FinishReset
    BY <1>22 DEF FinishReset, At, ResetIsOrdered, SessionFollowsProfile
  <1>23. CASE UNCHANGED vars
    BY <1>23 DEF ResetIsOrdered, SessionFollowsProfile, vars, delays
  <1>. QED
    BY <1>1, <1>2, <1>3, <1>4, <1>5, <1>6, <1>7, <1>8, <1>9, <1>10, <1>11, <1>12,
       <1>13, <1>14, <1>15, <1>16, <1>17, <1>18, <1>19, <1>20, <1>21, <1>22, <1>23 DEF
       Next

(* The session knows whether there is a profile.                           *)
LEMMA SessionStep ==
  ASSUME TypeOK, ResetIsOrdered, SessionFollowsProfile, [Next]_vars
  PROVE  SessionFollowsProfile'
  <1>1. CASE Start
    BY <1>1 DEF Start, StartDelays, ResetIsOrdered, SessionFollowsProfile
  <1>2. CASE Stop
    BY <1>2 DEF Stop, ResetIsOrdered, SessionFollowsProfile
  <1>3. CASE DamageFile
    BY <1>3 DEF DamageFile, ResetIsOrdered, SessionFollowsProfile
  <1>4. CASE SetUp
    BY <1>4 DEF SetUp, Gate, ResetIsOrdered, SessionFollowsProfile
  <1>5. CASE Unlock
    BY <1>5 DEF Unlock, Gate, ResetIsOrdered, SessionFollowsProfile
  <1>6. CASE Lock
    BY <1>6 DEF Lock, Gate, ResetIsOrdered, SessionFollowsProfile
  <1>7. CASE CopySecret
    BY <1>7 DEF CopySecret, Gate, ResetIsOrdered, SessionFollowsProfile
  <1>8. CASE SecretExpires
    BY <1>8 DEF SecretExpires, ResetIsOrdered, SessionFollowsProfile
  <1>9. ASSUME NEW seconds \in AutoLockDelays, SetAutoLock(seconds)
        PROVE  SessionFollowsProfile'
    BY <1>9 DEF SetAutoLock, Gate, ReplaceValues, ResetIsOrdered, SessionFollowsProfile
  <1>10. CASE ApplyAutoLock
    BY <1>10 DEF ApplyAutoLock, ResetIsOrdered, SessionFollowsProfile
  <1>11. ASSUME NEW seconds \in ClipboardDelays, SetClipboardClear(seconds)
        PROVE  SessionFollowsProfile'
    BY <1>11 DEF SetClipboardClear, Gate, ReplaceValues, ResetIsOrdered,
       SessionFollowsProfile
  <1>12. CASE ApplyClipboard
    BY <1>12 DEF ApplyClipboard, ResetIsOrdered, SessionFollowsProfile
  <1>13. ASSUME NEW enabled \in BOOLEAN, SetStartup(enabled)
        PROVE  SessionFollowsProfile'
    BY <1>13 DEF SetStartup, Gate, set_enabled, ResetIsOrdered, SessionFollowsProfile
  <1>14. ASSUME NEW enabled \in BOOLEAN, SetLockOnSleep(enabled)
        PROVE  SessionFollowsProfile'
    BY <1>14 DEF SetLockOnSleep, Gate, ReplaceValues, ResetIsOrdered,
       SessionFollowsProfile
  <1>15. ASSUME NEW theme \in Themes, SetTheme(theme)
        PROVE  SessionFollowsProfile'
    BY <1>15 DEF SetTheme, Gate, ReplaceValues, ResetIsOrdered, SessionFollowsProfile
  <1>16. CASE Reset
    BY <1>16 DEF Reset, Gate, ResetIsOrdered, SessionFollowsProfile
  <1>17. CASE ResetAborts
    BY <1>17 DEF ResetAborts, ResetSteps, ResetIsOrdered, SessionFollowsProfile
  <1>18. CASE ResetStartup
    BY <1>18 DEF ResetStartup, At, After, ResetSteps, ResetIsOrdered,
       SessionFollowsProfile
  <1>19. CASE ResetClipboard
    BY <1>19 DEF ResetClipboard, At, After, ResetSteps, ResetIsOrdered,
       SessionFollowsProfile
  <1>20. CASE ResetSettings
    BY <1>20 DEF ResetSettings, At, After, ResetSteps, ResetIsOrdered,
       SessionFollowsProfile
  <1>21. CASE ResetProfile
    BY <1>21 DEF ResetProfile, At, After, ResetSteps, ResetIsOrdered,
       SessionFollowsProfile
  <1>22. CASE FinishReset
    BY <1>22 DEF FinishReset, At, ResetIsOrdered, SessionFollowsProfile
  <1>23. CASE UNCHANGED vars
    BY <1>23 DEF ResetIsOrdered, SessionFollowsProfile, vars, delays
  <1>. QED
    BY <1>1, <1>2, <1>3, <1>4, <1>5, <1>6, <1>7, <1>8, <1>9, <1>10, <1>11, <1>12,
       <1>13, <1>14, <1>15, <1>16, <1>17, <1>18, <1>19, <1>20, <1>21, <1>22, <1>23 DEF
       Next

(* A delay that is saved is applied before the command ends.               *)
LEMMA DelayStep ==
  ASSUME TypeOK, DelaysFollow, [Next]_vars
  PROVE  DelaysFollow'
  <1>1. CASE Start
    BY <1>1 DEF Start, StartDelays, DelaysFollow, delays
  <1>2. CASE Stop
    BY <1>2 DEF Stop, DelaysFollow, delays
  <1>3. CASE DamageFile
    BY <1>3 DEF DamageFile, DelaysFollow, delays
  <1>4. CASE SetUp
    BY <1>4 DEF SetUp, Gate, DelaysFollow, delays
  <1>5. CASE Unlock
    BY <1>5 DEF Unlock, Gate, DelaysFollow, delays
  <1>6. CASE Lock
    BY <1>6 DEF Lock, Gate, DelaysFollow, delays
  <1>7. CASE CopySecret
    BY <1>7 DEF CopySecret, Gate, DelaysFollow, delays
  <1>8. CASE SecretExpires
    BY <1>8 DEF SecretExpires, DelaysFollow, delays
  <1>9. ASSUME NEW seconds \in AutoLockDelays, SetAutoLock(seconds)
        PROVE  DelaysFollow'
    <2>. DEFINE changed == [values EXCEPT !.auto_lock_seconds = seconds]
    <2>1. changed.clipboard_clear_seconds = values.clipboard_clear_seconds
      BY OneIsChanged DEF TypeOK
    <2>2. \/ values' = changed /\ step' = "applyAutoLock"
       \/ UNCHANGED << values, step >>
      BY <1>9 DEF SetAutoLock, ReplaceValues
    <2>3. /\ step = "none"
       /\ UNCHANGED << running, autoLockTimeout, clipboardTimeout, settingsReset >>
      BY <1>9 DEF SetAutoLock, Gate, delays
    <2>. HIDE DEF changed
    <2>. QED
      BY <2>1, <2>2, <2>3 DEF DelaysFollow
  <1>10. CASE ApplyAutoLock
    BY <1>10 DEF ApplyAutoLock, DelaysFollow, delays
  <1>11. ASSUME NEW seconds \in ClipboardDelays, SetClipboardClear(seconds)
        PROVE  DelaysFollow'
    <2>. DEFINE changed == [values EXCEPT !.clipboard_clear_seconds = seconds]
    <2>1. changed.auto_lock_seconds = values.auto_lock_seconds
      BY OneIsChanged DEF TypeOK
    <2>2. \/ values' = changed /\ step' = "applyClipboard"
       \/ UNCHANGED << values, step >>
      BY <1>11 DEF SetClipboardClear, ReplaceValues
    <2>3. /\ step = "none"
       /\ UNCHANGED << running, autoLockTimeout, clipboardTimeout, settingsReset >>
      BY <1>11 DEF SetClipboardClear, Gate, delays
    <2>. HIDE DEF changed
    <2>. QED
      BY <2>1, <2>2, <2>3 DEF DelaysFollow
  <1>12. CASE ApplyClipboard
    BY <1>12 DEF ApplyClipboard, DelaysFollow, delays
  <1>13. ASSUME NEW enabled \in BOOLEAN, SetStartup(enabled)
        PROVE  DelaysFollow'
    BY <1>13 DEF SetStartup, Gate, set_enabled, DelaysFollow, delays
  <1>14. ASSUME NEW enabled \in BOOLEAN, SetLockOnSleep(enabled)
        PROVE  DelaysFollow'
    <2>. DEFINE changed == [values EXCEPT !.lock_on_sleep = enabled]
    <2>1. changed.auto_lock_seconds = values.auto_lock_seconds
      BY OneIsChanged DEF TypeOK
    <2>2. changed.clipboard_clear_seconds = values.clipboard_clear_seconds
      BY OneIsChanged DEF TypeOK
    <2>3. \/ values' = changed /\ step' = "none"
       \/ UNCHANGED << values, step >>
      BY <1>14 DEF SetLockOnSleep, ReplaceValues
    <2>4. /\ step = "none"
       /\ UNCHANGED << running, autoLockTimeout, clipboardTimeout, settingsReset >>
      BY <1>14 DEF SetLockOnSleep, Gate, delays
    <2>. HIDE DEF changed
    <2>. QED
      BY <2>1, <2>2, <2>3, <2>4 DEF DelaysFollow
  <1>15. ASSUME NEW theme \in Themes, SetTheme(theme)
        PROVE  DelaysFollow'
    <2>. DEFINE changed == [values EXCEPT !.theme = theme]
    <2>1. changed.auto_lock_seconds = values.auto_lock_seconds
      BY OneIsChanged DEF TypeOK
    <2>2. changed.clipboard_clear_seconds = values.clipboard_clear_seconds
      BY OneIsChanged DEF TypeOK
    <2>3. \/ values' = changed /\ step' = "none"
       \/ UNCHANGED << values, step >>
      BY <1>15 DEF SetTheme, ReplaceValues
    <2>4. /\ step = "none"
       /\ UNCHANGED << running, autoLockTimeout, clipboardTimeout, settingsReset >>
      BY <1>15 DEF SetTheme, Gate, delays
    <2>. HIDE DEF changed
    <2>. QED
      BY <2>1, <2>2, <2>3, <2>4 DEF DelaysFollow
  <1>16. CASE Reset
    BY <1>16 DEF Reset, Gate, DelaysFollow, delays
  <1>17. CASE ResetAborts
    BY <1>17 DEF ResetAborts, ResetSteps, DelaysFollow, delays
  <1>18. CASE ResetStartup
    BY <1>18 DEF ResetStartup, At, After, ResetSteps, DelaysFollow, delays
  <1>19. CASE ResetClipboard
    BY <1>19 DEF ResetClipboard, At, After, ResetSteps, DelaysFollow, delays
  <1>20. CASE ResetSettings
    BY <1>20 DEF ResetSettings, At, After, ResetSteps, DelaysFollow, delays
  <1>21. CASE ResetProfile
    BY <1>21 DEF ResetProfile, At, After, ResetSteps, DelaysFollow, delays
  <1>22. CASE FinishReset
    BY <1>22 DEF FinishReset, At, DelaysFollow, delays
  <1>23. CASE UNCHANGED vars
    BY <1>23 DEF DelaysFollow, delays, vars
  <1>. QED
    BY <1>1, <1>2, <1>3, <1>4, <1>5, <1>6, <1>7, <1>8, <1>9, <1>10, <1>11, <1>12,
       <1>13, <1>14, <1>15, <1>16, <1>17, <1>18, <1>19, <1>20, <1>21, <1>22, <1>23 DEF
       Next

(* A first start, and an update from an earlier version.                   *)
LEMMA InitInv ==
  ASSUME Init
  PROVE  IInv
  <1>1. TypeOK
    BY DefaultType, SettingsAssumption
    DEF Init, TypeOK, SettingsAssumption, AutoLockDelays, ClipboardDelays
  <1>2. ShownSettingsAreSaved /\ ResetIsOrdered /\ SessionFollowsProfile /\ DelaysFollow
    BY DEF Init, ShownSettingsAreSaved, ResetIsOrdered, SessionFollowsProfile, DelaysFollow
  <1>. QED  BY <1>1, <1>2 DEF IInv

LEMMA NextInv ==
  ASSUME IInv, [Next]_vars
  PROVE  IInv'
  BY TypeStep, SavedStep, OrderStep, SessionStep, DelayStep DEF IInv

(* The conjuncts of the invariant hold in every reachable state of every   *)
(* choice of delays and themes, whatever is refused or cut short.          *)
THEOREM InductiveInvariant == Spec => []IInv
  <1>1. Init => IInv
    BY InitInv
  <1>2. IInv /\ [Next]_vars => IInv'
    BY NextInv
  <1>. QED  BY <1>1, <1>2, PTL DEF Spec

(* KeyNest asks for a new master password only when the login item, the    *)
(* settings file and an owned secret are gone, however a reset (ipc.rs)    *)
(* failed or was cut short before: of what Settings models, nothing else   *)
(* outlives a reset.                                                       *)
THEOREM ResetIsComplete == Spec => []SetupStartsClean
  <1>1. IInv => SetupStartsClean
    BY DEF IInv, ResetIsOrdered, SessionFollowsProfile, SetupStartsClean
  <1>. QED  BY <1>1, InductiveInvariant, PTL

(* What the user is shown (SettingsService) is what a restart will read    *)
(* back, whichever write was refused.                                      *)
THEOREM ShownIsSaved == Spec => []ShownSettingsAreSaved
  <1>1. IInv => ShownSettingsAreSaved
    BY DEF IInv
  <1>. QED  BY <1>1, InductiveInvariant, PTL

(* Between commands, the delays in force are the ones last saved, unless   *)
(* this process has reset its settings.                                    *)
THEOREM DelaysAreApplied == Spec => []ChangesTakeEffect
  <1>1. IInv => ChangesTakeEffect
    BY DEF IInv, DelaysFollow, ChangesTakeEffect, Gate
  <1>. QED  BY <1>1, InductiveInvariant, PTL
=============================================================================
