---------------------------- MODULE SequenceLemmas ----------------------------
(***************************************************************************)
(* Facts about the sequences the modules keep their tables and queues in.  *)
(* Induction over the naturals is stated for a set instead of a predicate, *)
(* which makes it a fact the provers can instantiate; it follows from the  *)
(* well-foundedness of < on the naturals.                                  *)
(***************************************************************************)
EXTENDS SequenceRows, SequencesExt, SequenceTheorems, WellFoundedInduction,
        TLAPS

LEMMA LeastNumber ==
  ASSUME NEW T, T \subseteq Nat, T # {}
  PROVE  \E x \in T : \A y \in T : x <= y
<1> DEFINE R == {pair \in Nat \X Nat : pair[1] < pair[2]}
<1>1. IsWellFoundedOn(R, Nat)
  BY NatLessThanWellFounded DEF OpToRel
<1>2. \A x, y \in Nat : y < x => <<y, x>> \in R
  OBVIOUS
<1> HIDE DEF R
<1>3. PICK x \in T : \A y \in T : ~ (<<y, x>> \in R)
  BY <1>1, WFMin
<1>4. \A y \in T : ~(y < x)
  BY <1>2, <1>3
<1> QED
  BY <1>4

LEMMA SetInduction ==
  ASSUME NEW T, 0 \in T, \A n \in Nat : n \in T => n + 1 \in T
  PROVE  Nat \subseteq T
<1> SUFFICES ASSUME Nat \ T # {}
             PROVE  FALSE
  OBVIOUS
<1>1. PICK x \in Nat \ T : \A y \in Nat \ T : x <= y
  BY LeastNumber
<1>2. x # 0 /\ x - 1 \in Nat
  BY <1>1
<1>3. x - 1 \in T
  BY <1>1, <1>2
<1> QED
  BY <1>1, <1>2, <1>3

-------------------------------------------------------------------------------
(* Kept.                                                                   *)

\* g computes what is kept of the first i rows, for i up to n.
Keeps(g, s, K, n) ==
  g = [i \in 0..n |-> IF i = 0 THEN <<>>
                      ELSE IF s[i] \in K THEN Append(g[i - 1], s[i])
                      ELSE g[i - 1]]

\* The recursion in Kept defines a function.
LEMMA KeepsExists ==
  ASSUME NEW s, NEW K
  PROVE  \A n \in Nat : \E g : Keeps(g, s, K, n)
<1> DEFINE T == {n \in Nat : \E g : Keeps(g, s, K, n)}
<1>1. 0 \in T
  <2> DEFINE g == [i \in 0..0 |-> <<>>]
  <2>1. Keeps(g, s, K, 0)
    BY DEF Keeps
  <2> QED
    BY <2>1
<1>2. ASSUME NEW n \in Nat, n \in T  PROVE n + 1 \in T
  <2>1. PICK g : Keeps(g, s, K, n)
    BY <1>2
  <2> DEFINE last == IF s[n + 1] \in K THEN Append(g[n], s[n + 1]) ELSE g[n]
             h == [i \in 0..(n + 1) |-> IF i = n + 1 THEN last ELSE g[i]]
  <2>2. \A i \in 0..n : h[i] = g[i]
    OBVIOUS
  <2>3. h[n + 1] = last
    OBVIOUS
  <2>4. h = [i \in 0..(n + 1) |-> h[i]]
    OBVIOUS
  <2> HIDE DEF last, h
  <2>5. ASSUME NEW i \in 0..(n + 1)
        PROVE  h[i] = IF i = 0 THEN <<>>
                      ELSE IF s[i] \in K THEN Append(h[i - 1], s[i]) ELSE h[i - 1]
    <3>1. CASE i = n + 1
      <4>1. i # 0 /\ i - 1 = n /\ h[i - 1] = g[n]
        BY <3>1, <2>2
      <4> QED
        BY <3>1, <4>1, <2>3 DEF last
    <3>2. CASE i \in 0..n
      <4>1. h[i] = g[i] /\ (i # 0 => i - 1 \in 0..n /\ h[i - 1] = g[i - 1])
        BY <3>2, <2>2
      <4>2. g[i] = IF i = 0 THEN <<>>
                   ELSE IF s[i] \in K THEN Append(g[i - 1], s[i]) ELSE g[i - 1]
        BY <2>1, <3>2 DEF Keeps
      <4> QED
        BY <4>1, <4>2
    <3> QED
      BY <3>1, <3>2
  <2>6. Keeps(h, s, K, n + 1)
    BY <2>4, <2>5 DEF Keeps
  <2> QED
    BY <2>6
<1> HIDE DEF T
<1>3. Nat \subseteq T
  BY <1>1, <1>2, SetInduction
<1> QED
  BY <1>3 DEF T

LEMMA KeptRecursion ==
  ASSUME NEW S, NEW s \in Seq(S), NEW K
  PROVE  \E g : Keeps(g, s, K, Len(s)) /\ Kept(s, K) = g[Len(s)]
<1> DEFINE k == CHOOSE g : Keeps(g, s, K, Len(s))
<1>1. Kept(s, K) = k[Len(s)]
  BY DEF Kept, Keeps
<1>2. Keeps(k, s, K, Len(s))
  BY KeepsExists
<1> QED
  BY <1>1, <1>2

\* What is kept are rows of s that are in K.
LEMMA KeptElements ==
  ASSUME NEW S, NEW s \in Seq(S), NEW K
  PROVE  /\ Kept(s, K) \in Seq(S)
         /\ \A i \in 1..Len(Kept(s, K)) :
              /\ Kept(s, K)[i] \in K
              /\ \E j \in 1..Len(s) : Kept(s, K)[i] = s[j]
<1>1. PICK g : Keeps(g, s, K, Len(s)) /\ Kept(s, K) = g[Len(s)]
  BY KeptRecursion
<1> DEFINE Good(q) == /\ q \in Seq(S)
                      /\ \A i \in 1..Len(q) : q[i] \in K /\ \E j \in 1..Len(s) : q[i] = s[j]
           T == {n \in Nat : n <= Len(s) => Good(g[n])}
<1>2. 0 \in T
  BY <1>1 DEF Keeps
<1>3. ASSUME NEW n \in Nat, n \in T  PROVE n + 1 \in T
  <2> SUFFICES ASSUME n + 1 <= Len(s)
               PROVE  Good(g[n + 1])
    OBVIOUS
  <2>1. Good(g[n])
    BY <1>3
  <2>2. g[n + 1] = IF s[n + 1] \in K THEN Append(g[n], s[n + 1]) ELSE g[n]
    <3>1. Len(s) \in Nat /\ n + 1 \in 0..Len(s) /\ n + 1 # 0 /\ (n + 1) - 1 = n
      OBVIOUS
    <3>2. g = [i \in 0..Len(s) |-> IF i = 0 THEN <<>>
                                   ELSE IF s[i] \in K THEN Append(g[i - 1], s[i])
                                   ELSE g[i - 1]]
      BY <1>1 DEF Keeps
    <3> QED
      BY <3>1, <3>2
  <2>3. s[n + 1] \in S /\ n + 1 \in 1..Len(s)
    OBVIOUS
  <2> QED
    BY <2>1, <2>2, <2>3
<1> HIDE DEF T
<1>4. Nat \subseteq T
  BY <1>2, <1>3, SetInduction
<1>5. Len(s) \in Nat
  OBVIOUS
<1>6. Good(g[Len(s)])
  BY <1>4, <1>5 DEF T
<1> QED
  BY <1>1, <1>6

\* q holds, in their order, the first n rows of s that are in K, from the places at.
Places(q, n, at, s, K) ==
  /\ at \in [1..Len(q) -> 1..n]
  /\ \A i \in 1..Len(q) : q[i] = s[at[i]]
  /\ \A i, j \in 1..Len(q) : i < j => at[i] < at[j]
  /\ \A m \in 1..n : s[m] \in K => \E i \in 1..Len(q) : at[i] = m

\* The rows kept are, in their order, all the rows of s that are in K.
LEMMA KeptPlaces ==
  ASSUME NEW S, NEW s \in Seq(S), NEW K
  PROVE  \E at : Places(Kept(s, K), Len(s), at, s, K)
<1>1. PICK g : Keeps(g, s, K, Len(s)) /\ Kept(s, K) = g[Len(s)]
  BY KeptRecursion
<1> DEFINE T == {n \in Nat : n <= Len(s) => g[n] \in Seq(S) /\ \E at : Places(g[n], n, at, s, K)}
<1>2. 0 \in T
  <2>1. g[0] = <<>>
    BY <1>1 DEF Keeps
  <2>2. Places(<<>>, 0, [i \in 1..0 |-> 0], s, K)
    BY DEF Places
  <2>3. <<>> \in Seq(S)
    OBVIOUS
  <2> QED
    BY <2>1, <2>2, <2>3
<1>3. ASSUME NEW n \in Nat, n \in T  PROVE n + 1 \in T
  <2> SUFFICES ASSUME n + 1 <= Len(s)
               PROVE  g[n + 1] \in Seq(S) /\ \E at : Places(g[n + 1], n + 1, at, s, K)
    OBVIOUS
  <2>1. PICK at : g[n] \in Seq(S) /\ Places(g[n], n, at, s, K)
    BY <1>3
  <2>2. g[n + 1] = IF s[n + 1] \in K THEN Append(g[n], s[n + 1]) ELSE g[n]
    <3>1. Len(s) \in Nat /\ n + 1 \in 0..Len(s) /\ n + 1 # 0 /\ (n + 1) - 1 = n
      OBVIOUS
    <3>2. g = [i \in 0..Len(s) |-> IF i = 0 THEN <<>>
                                   ELSE IF s[i] \in K THEN Append(g[i - 1], s[i])
                                   ELSE g[i - 1]]
      BY <1>1 DEF Keeps
    <3> QED
      BY <3>1, <3>2
  <2>3. CASE s[n + 1] \notin K
    <3>1. Places(g[n], n + 1, at, s, K)
      BY <2>1, <2>3 DEF Places
    <3> QED
      BY <2>1, <2>2, <2>3, <3>1
  <2>4. CASE s[n + 1] \in K
    <3>1. PICK q : q = g[n] /\ q \in Seq(S)
      BY <2>1
    <3>2. PICK len \in Nat : len = Len(q)
      BY <3>1
    <3> DEFINE all == Append(q, s[n + 1])
               to == [i \in 1..(len + 1) |-> IF i = len + 1 THEN n + 1 ELSE at[i]]
    <3>3. /\ all \in Seq(S) /\ Len(all) = len + 1
          /\ \A i \in 1..len : all[i] = q[i]
          /\ all[len + 1] = s[n + 1]
      <4>1. s[n + 1] \in S
        OBVIOUS
      <4> QED
        BY <3>1, <3>2, <4>1
    <3>4. /\ \A i \in 1..len : to[i] = at[i] /\ at[i] \in 1..n
          /\ to[len + 1] = n + 1
      BY <2>1, <3>1, <3>2 DEF Places
    <3>5. to \in [1..(len + 1) -> 1..(n + 1)]
      <4>1. ASSUME NEW i \in 1..(len + 1)  PROVE to[i] \in 1..(n + 1)
        <5>1. CASE i = len + 1
          BY <3>4, <5>1
        <5>2. CASE i \in 1..len
          <6>1. to[i] = at[i] /\ at[i] \in 1..n
            BY <3>4, <5>2
          <6> QED
            BY <6>1
        <5> QED
          BY <5>1, <5>2
      <4>2. to = [i \in 1..(len + 1) |-> to[i]]
        OBVIOUS
      <4> QED
        BY <4>1, <4>2
    <3> HIDE DEF all, to
    <3>6. \A i \in 1..(len + 1) : all[i] = s[to[i]]
      BY <2>1, <3>1, <3>2, <3>3, <3>4 DEF Places
    <3>7. \A i, j \in 1..(len + 1) : i < j => to[i] < to[j]
      <4> SUFFICES ASSUME NEW i \in 1..(len + 1), NEW j \in 1..(len + 1), i < j
                   PROVE  to[i] < to[j]
        OBVIOUS
      <4>1. i \in 1..len
        OBVIOUS
      <4>2. CASE j = len + 1
        BY <3>4, <4>1, <4>2
      <4>3. CASE j \in 1..len
        BY <2>1, <3>1, <3>2, <3>4, <4>1, <4>3 DEF Places
      <4> QED
        BY <4>2, <4>3
    <3>8. \A m \in 1..(n + 1) : s[m] \in K => \E i \in 1..(len + 1) : to[i] = m
      <4> SUFFICES ASSUME NEW m \in 1..(n + 1), s[m] \in K
                   PROVE  \E i \in 1..(len + 1) : to[i] = m
        OBVIOUS
      <4>1. CASE m = n + 1
        BY <3>4, <4>1
      <4>2. CASE m \in 1..n
        <5>1. PICK i \in 1..len : at[i] = m
          BY <2>1, <3>1, <3>2, <4>2 DEF Places
        <5>2. i \in 1..(len + 1) /\ to[i] = m
          BY <3>4, <5>1
        <5> QED
          BY <5>2
      <4> QED
        BY <4>1, <4>2
    <3>9. Places(all, n + 1, to, s, K)
      BY <3>3, <3>5, <3>6, <3>7, <3>8 DEF Places
    <3>10. g[n + 1] = all
      BY <2>2, <2>4, <3>1 DEF all
    <3> QED
      BY <3>3, <3>9, <3>10
  <2> QED
    BY <2>3, <2>4
<1> HIDE DEF T
<1>4. Nat \subseteq T
  BY <1>2, <1>3, SetInduction
<1>5. Len(s) \in Nat
  OBVIOUS
<1>6. \E at : Places(g[Len(s)], Len(s), at, s, K)
  BY <1>4, <1>5 DEF T
<1> QED
  BY <1>1, <1>6

-------------------------------------------------------------------------------
(* RemoveFirst.                                                            *)

LEMMA RemoveFirstElements ==
  ASSUME NEW S, NEW s \in Seq(S), NEW e
  PROVE  /\ RemoveFirst(s, e) \in Seq(S)
         /\ \A i \in 1..Len(RemoveFirst(s, e)) :
              \E j \in 1..Len(s) : RemoveFirst(s, e)[i] = s[j]
<1>1. CASE ~ \E i \in 1..Len(s) : s[i] = e
  BY <1>1 DEF RemoveFirst
<1>2. CASE \E i \in 1..Len(s) : s[i] = e
  <2> DEFINE T == {i \in 1..Len(s) : s[i] = e}
             k == SelectInSeq(s, LAMBDA v : v = e)
  <2>1. k = Min(T)
    BY <1>2 DEF SelectInSeq
  <2>2. k \in 1..Len(s)
    <3>1. T \subseteq Nat /\ T # {} /\ T \subseteq 1..Len(s)
      BY <1>2
    <3> HIDE DEF T, k
    <3>2. \E x \in T : \A y \in T : x <= y
      BY <3>1, LeastNumber
    <3>3. Min(T) \in T
      BY <3>2 DEF Min
    <3> QED
      BY <2>1, <3>1, <3>3
  <2>3. RemoveFirst(s, e) = RemoveAt(s, k)
    BY <1>2 DEF RemoveFirst
  <2> DEFINE front == SubSeq(s, 1, k - 1)
             back == SubSeq(s, k + 1, Len(s))
  <2>4. RemoveFirst(s, e) = front \o back
    BY <2>3 DEF RemoveAt
  <2> HIDE DEF k
  <2>5. /\ front \in Seq(S)
        /\ \A i \in 1..Len(front) : \E j \in 1..Len(s) : front[i] = s[j]
    BY <2>2
  <2>6. /\ back \in Seq(S)
        /\ \A i \in 1..Len(back) : \E j \in 1..Len(s) : back[i] = s[j]
    BY <2>2
  <2> HIDE DEF front, back
  <2>7. /\ front \o back \in Seq(S)
        /\ Len(front \o back) = Len(front) + Len(back)
        /\ \A i \in 1..Len(front \o back) :
             (front \o back)[i] = IF i <= Len(front) THEN front[i]
                                 ELSE back[i - Len(front)]
    BY <2>5, <2>6, ConcatProperties
  <2>8. ASSUME NEW i \in 1..Len(front \o back)
        PROVE  \E j \in 1..Len(s) : (front \o back)[i] = s[j]
    <3>1. Len(front) \in Nat /\ Len(back) \in Nat
      BY <2>5, <2>6
    <3>2. CASE i <= Len(front)
      BY <2>5, <2>7, <3>1, <3>2
    <3>3. CASE ~(i <= Len(front))
      <4>1. i - Len(front) \in 1..Len(back)
        BY <2>7, <3>1, <3>3
      <4>2. (front \o back)[i] = back[i - Len(front)]
        BY <2>7, <3>3
      <4> QED
        BY <2>6, <4>1, <4>2
    <3> QED
      BY <3>2, <3>3
  <2> QED
    BY <2>4, <2>7, <2>8
<1> QED
  BY <1>1, <1>2
===============================================================================
