----------------------------- MODULE RetainProofs -----------------------------
(***************************************************************************)
(* What retain returns, for every list, and the facts about recursive      *)
(* functions on numbers that this and other proofs need.  The induction is *)
(* that of the least counterexample (LeastNatural).                        *)
(***************************************************************************)
EXTENDS Retain, SequenceTheorems, WellFoundedInduction, TLAPS

\* A set of numbers that is not empty has a least one.
LEMMA LeastNatural ==
  ASSUME NEW S \in SUBSET Nat, S # {}
  PROVE  \E i \in S : \A j \in S : i <= j
<1> DEFINE R == OpToRel(<, Nat)
<1>1. \A x, y \in Nat : <<y, x>> \in R <=> y < x
  BY DEF OpToRel
<1>2. IsWellFoundedOn(R, Nat)
  BY NatLessThanWellFounded
<1> HIDE DEF R
<1>3. PICK x \in S : \A y \in S : ~ (<<y, x>> \in R)
  BY <1>2, WFMin
<1>4. \A y \in S : ~ (y < x)
  BY <1>1, <1>3
<1>5. \A y \in S : x <= y
  BY <1>4
<1> QED
  BY <1>3, <1>5

\* A set that holds 0 and, with each number below n, the next one, holds all
\* numbers up to n.
LEMMA UpTo ==
  ASSUME NEW n \in Nat, NEW Good,
         0 \in Good, \A i \in 0..n : i < n /\ i \in Good => i + 1 \in Good
  PROVE  0..n \subseteq Good
<1> DEFINE Bad == {i \in 0..n : i \notin Good}
<1>1. CASE Bad = {}
  BY <1>1
<1>2. CASE Bad # {}
  <2>1. Bad \in SUBSET Nat
    OBVIOUS
  <2>2. PICK i \in Bad : \A j \in Bad : i <= j
    BY <1>2, <2>1, LeastNatural
  <2>3. i # 0
    OBVIOUS
  <2>4. i - 1 \in 0..n /\ i - 1 < n /\ i - 1 \notin Bad /\ (i - 1) + 1 = i
    BY <2>2, <2>3
  <2> QED
    BY <2>4
<1> QED
  BY <1>1, <1>2

\* A step for each number up to n.
Steps(n, S) == [1..n -> [S -> S]]

\* The function that takes a step for each number up to n exists.
LEMMA StepsExist ==
  ASSUME NEW S, NEW first \in S, NEW n \in Nat, NEW step \in Steps(n, S)
  PROVE  \E f \in [0..n -> S] : f[0] = first /\ \A i \in 1..n : f[i] = step[i][f[i - 1]]
<1> DEFINE Is(f, m) == f = [i \in 0..m |-> IF i = 0 THEN first ELSE step[i][f[i - 1]]]
           Good == {m \in 0..n : \E f \in [0..m -> S] : Is(f, m)}
<1> USE DEF Steps
<1>1. 0 \in Good
  <2> DEFINE f == [i \in 0..0 |-> first]
  <2>1. f \in [0..0 -> S] /\ Is(f, 0)
    OBVIOUS
  <2> HIDE DEF f, Is
  <2>2. \E h \in [0..0 -> S] : Is(h, 0)
    BY <2>1
  <2> QED
    BY <2>2
<1>2. ASSUME NEW m \in 0..n, m < n, m \in Good
      PROVE  m + 1 \in Good
  <2>1. PICK f \in [0..m -> S] : Is(f, m)
    BY <1>2
  <2> DEFINE g == [i \in 0..m + 1 |-> IF i = m + 1 THEN step[m + 1][f[m]] ELSE f[i]]
  <2>2. step[m + 1] \in [S -> S] /\ f[m] \in S
    BY <1>2
  <2>3. g \in [0..m + 1 -> S]
    BY <2>2
  <2>4. \A i \in 0..m + 1 : g[i] = IF i = 0 THEN first ELSE step[i][g[i - 1]]
    <3> TAKE i \in 0..m + 1
    <3>1. CASE i = m + 1
      BY <3>1
    <3>2. CASE i # m + 1
      <4>1. i \in 0..m /\ g[i] = f[i] /\ (i # 0 => i - 1 \in 0..m /\ g[i - 1] = f[i - 1])
        BY <3>2
      <4>2. f[i] = IF i = 0 THEN first ELSE step[i][f[i - 1]]
        BY <2>1, <4>1
      <4> QED
        BY <4>1, <4>2
    <3> QED
      BY <3>1, <3>2
  <2>5. Is(g, m + 1)
    BY <2>3, <2>4
  <2> HIDE DEF g, Is
  <2>6. \E h \in [0..m + 1 -> S] : Is(h, m + 1)
    BY <2>3, <2>5
  <2>7. m + 1 \in 0..n
    BY <1>2
  <2> QED
    BY <2>6, <2>7
<1>3. n \in Good
  <2> HIDE DEF Good
  <2>1. \A m \in 0..n : m < n /\ m \in Good => m + 1 \in Good
    BY <1>2
  <2>2. 0..n \subseteq Good
    BY <1>1, <2>1, UpTo
  <2> QED
    BY <2>2
<1>4. PICK f \in [0..n -> S] : Is(f, n)
  BY <1>3
<1>5. f[0] = first /\ \A i \in 1..n : f[i] = step[i][f[i - 1]]
  BY <1>4
<1> QED
  BY <1>5

\* The recursion of Retain is well defined: it adds one element at a time.
LEMMA RetainStepwise ==
  ASSUME NEW S, NEW s \in Seq(S), NEW kept
  PROVE  \E upTo \in [0..Len(s) -> Seq(S)] :
           /\ upTo[0] = <<>> /\ Retain(s, kept) = upTo[Len(s)]
           /\ \A i \in 1..Len(s) :
                upTo[i] = IF i \in kept THEN Append(upTo[i - 1], s[i]) ELSE upTo[i - 1]
<1> DEFINE n == Len(s)
           add == [i \in 1..n |-> [q \in Seq(S) |-> IF i \in kept THEN Append(q, s[i]) ELSE q]]
           Is(f) == f = [i \in 0..n |-> IF i = 0 THEN <<>>
                                       ELSE IF i \in kept THEN Append(f[i - 1], s[i]) ELSE f[i - 1]]
<1>1. n \in Nat /\ n = Len(s) /\ <<>> \in Seq(S)
  OBVIOUS
<1>2. add \in Steps(n, Seq(S))
  BY DEF Steps
<1>3. \A i \in 1..n : \A q \in Seq(S) :
        add[i][q] = IF i \in kept THEN Append(q, s[i]) ELSE q
  OBVIOUS
<1> HIDE DEF n, add
<1>4. PICK f \in [0..n -> Seq(S)] :
        f[0] = <<>> /\ \A i \in 1..n : f[i] = add[i][f[i - 1]]
  <2> DEFINE T == Seq(S)
  <2>1. <<>> \in T /\ add \in Steps(n, T)
    BY <1>1, <1>2
  <2> HIDE DEF T
  <2>2. \E f \in [0..n -> T] : f[0] = <<>> /\ \A i \in 1..n : f[i] = add[i][f[i - 1]]
    BY <1>1, <2>1, StepsExist
  <2> QED
    BY <2>2 DEF T
<1>5. f = [i \in 0..n |-> f[i]]
  BY <1>4
<1>6. \A i \in 1..n : f[i] = IF i \in kept THEN Append(f[i - 1], s[i]) ELSE f[i - 1]
  <2> TAKE i \in 1..n
  <2>0. i \in 0..n /\ i # 0 /\ i - 1 \in 0..n
    BY <1>1
  <2>1. f[i - 1] \in Seq(S)
    BY <2>0
  <2>2. f[i] = add[i][f[i - 1]]
    BY <1>4
  <2> QED
    BY <1>3, <2>1, <2>2
<1>7. \A g, h : Is(g) /\ Is(h) => g = h
  <2> SUFFICES ASSUME NEW g, NEW h, Is(g), Is(h) PROVE g = h
    OBVIOUS
  <2> DEFINE Good == {i \in 0..n : g[i] = h[i]}
  <2>1. 0 \in Good
    BY <1>1
  <2>2. \A i \in 0..n : i < n /\ i \in Good => i + 1 \in Good
    <3> TAKE i \in 0..n
    <3> HAVE i < n /\ i \in Good
    <3>1. i + 1 \in 0..n /\ i + 1 # 0 /\ (i + 1) - 1 = i
      BY <1>1
    <3>2. /\ g[i + 1] = IF i + 1 \in kept THEN Append(g[i], s[i + 1]) ELSE g[i]
          /\ h[i + 1] = IF i + 1 \in kept THEN Append(h[i], s[i + 1]) ELSE h[i]
      BY <3>1
    <3> QED
      BY <3>1, <3>2
  <2>3. 0..n \subseteq Good
    <3> HIDE DEF Good
    <3> QED
      BY <1>1, <2>1, <2>2, UpTo
  <2> QED
    BY <2>3
<1>8. Is(f)
  <2>1. \A i \in 0..n : f[i] = IF i = 0 THEN <<>>
                              ELSE IF i \in kept THEN Append(f[i - 1], s[i]) ELSE f[i - 1]
    <3> TAKE i \in 0..n
    <3>1. CASE i = 0
      BY <3>1, <1>4
    <3>2. CASE i # 0
      <4>1. i \in 1..n
        BY <3>2, <1>1
      <4> QED
        BY <4>1, <3>2, <1>6
    <3> QED
      BY <3>1, <3>2
  <2> QED
    BY <2>1, <1>5
<1>9. Retain(s, kept) = f[n]
  <2>1. Retain(s, kept) = (CHOOSE g : Is(g))[n]
    BY <1>1 DEF Retain
  <2> HIDE DEF Is
  <2>2. Is(CHOOSE g : Is(g))
    BY <1>8, Zenon
  <2> QED
    BY <1>7, <1>8, <2>1, <2>2
<1> QED
  BY <1>1, <1>4, <1>6, <1>9

\* `place` tells where the elements of r were in s: at the positions of kept,
\* all of them, in their order.
IsKeptAt(r, s, kept, place) ==
  /\ place \in [1..Len(r) -> kept]
  /\ \A i, j \in 1..Len(r) : i < j => place[i] < place[j]
  /\ \A k \in kept : \E i \in 1..Len(r) : place[i] = k
  /\ \A i \in 1..Len(r) : r[i] = s[place[i]]

\* Retain returns the kept elements, each once, in their order.
LEMMA RetainProperties ==
  ASSUME NEW S, NEW s \in Seq(S), NEW kept \in SUBSET (1..Len(s))
  PROVE  /\ Retain(s, kept) \in Seq(S)
         /\ \E place : IsKeptAt(Retain(s, kept), s, kept, place)
<1>1. PICK upTo \in [0..Len(s) -> Seq(S)] :
           /\ upTo[0] = <<>> /\ Retain(s, kept) = upTo[Len(s)]
           /\ \A i \in 1..Len(s) :
                upTo[i] = IF i \in kept THEN Append(upTo[i - 1], s[i]) ELSE upTo[i - 1]
  BY RetainStepwise
<1> DEFINE n == Len(s)
           Good == {i \in 0..n : \E place : IsKeptAt(upTo[i], s, kept \cap 1..i, place)}
<1>2. n \in Nat
  OBVIOUS
<1>3. 0 \in Good
  <2>1. Len(upTo[0]) = 0 /\ 1..0 = {} /\ kept \cap 1..0 = {}
    BY <1>1
  <2>2. IsKeptAt(upTo[0], s, kept \cap 1..0, <<>>)
    BY <2>1 DEF IsKeptAt
  <2> QED
    BY <1>2, <2>2
<1>4. \A i \in 0..n : i < n /\ i \in Good => i + 1 \in Good
  <2> TAKE i \in 0..n
  <2> HAVE i < n /\ i \in Good
  <2>1. i + 1 \in 1..n /\ i + 1 \in 0..n /\ (i + 1) - 1 = i
    BY <1>2
  <2>2. PICK place : IsKeptAt(upTo[i], s, kept \cap 1..i, place)
    OBVIOUS
  <2> DEFINE q == upTo[i]
             r == upTo[i + 1]
  <2>3. q \in Seq(S) /\ s[i + 1] \in S /\ Len(q) \in Nat
    BY <1>1, <2>1
  <2>4. r = IF i + 1 \in kept THEN Append(q, s[i + 1]) ELSE q
    BY <1>1, <2>1
  <2> HIDE DEF q, r
  <2>5. /\ place \in [1..Len(q) -> kept \cap 1..i]
        /\ \A j, k \in 1..Len(q) : j < k => place[j] < place[k]
        /\ \A k \in kept \cap 1..i : \E j \in 1..Len(q) : place[j] = k
        /\ \A j \in 1..Len(q) : q[j] = s[place[j]]
    BY <2>2 DEF IsKeptAt, q
  <2>6. CASE i + 1 \notin kept
    <3>1. kept \cap 1..(i + 1) = kept \cap 1..i
      BY <2>1, <2>6, <1>2
    <3>2. IsKeptAt(r, s, kept \cap 1..(i + 1), place)
      BY <2>2, <2>4, <2>6, <3>1 DEF q
    <3> QED
      BY <2>1, <3>2 DEF r
  <2>7. CASE i + 1 \in kept
    <3> DEFINE more == [j \in 1..Len(q) + 1 |-> IF j = Len(q) + 1 THEN i + 1 ELSE place[j]]
    <3>1. /\ Len(r) = Len(q) + 1
          /\ \A j \in 1..Len(q) : r[j] = q[j]
          /\ r[Len(q) + 1] = s[i + 1]
      BY <2>3, <2>4, <2>7, AppendProperties
    <3>2. /\ more[Len(q) + 1] = i + 1
          /\ \A j \in 1..Len(q) : more[j] = place[j] /\ place[j] \in kept /\ place[j] \in 1..i
      BY <2>3, <2>5
    <3>3. \A j \in 1..Len(q) + 1 : j \in 1..Len(q) \/ j = Len(q) + 1
      BY <2>3
    <3>4. more \in [1..Len(q) + 1 -> kept \cap 1..(i + 1)]
      <4>1. \A j \in 1..Len(q) + 1 : more[j] \in kept \cap 1..(i + 1)
        <5> TAKE j \in 1..Len(q) + 1
        <5>1. CASE j = Len(q) + 1
          BY <2>1, <2>7, <3>2, <5>1
        <5>2. CASE j \in 1..Len(q)
          <6>1. more[j] \in kept /\ more[j] \in 1..i
            BY <3>2, <5>2
          <6>2. 1..i \subseteq 1..(i + 1)
            BY <2>1
          <6> QED
            BY <6>1, <6>2
        <5> QED
          BY <3>3, <5>1, <5>2
      <4> QED
        BY <4>1
    <3> HIDE DEF more
    <3>5. \A j, k \in 1..Len(q) + 1 : j < k => more[j] < more[k]
      <4> TAKE j, k \in 1..Len(q) + 1
      <4> HAVE j < k
      <4>1. j \in 1..Len(q)
        BY <2>3
      <4>2. CASE k \in 1..Len(q)
        BY <2>5, <3>2, <4>1, <4>2
      <4>3. CASE k = Len(q) + 1
        BY <3>2, <4>1, <4>3
      <4> QED
        BY <3>3, <4>2, <4>3
    <3>6. \A k \in kept \cap 1..(i + 1) : \E j \in 1..Len(q) + 1 : more[j] = k
      <4> TAKE k \in kept \cap 1..(i + 1)
      <4>1. CASE k = i + 1
        BY <2>3, <3>2, <4>1
      <4>2. CASE k # i + 1
        <5>1. k \in kept \cap 1..i
          BY <4>2
        <5>2. PICK j \in 1..Len(q) : place[j] = k
          BY <2>5, <5>1
        <5> QED
          BY <2>3, <3>2, <5>2
      <4> QED
        BY <4>1, <4>2
    <3>7. \A j \in 1..Len(q) + 1 : r[j] = s[more[j]]
      BY <2>5, <3>1, <3>2, <3>3
    <3>8. IsKeptAt(r, s, kept \cap 1..(i + 1), more)
      BY <3>1, <3>4, <3>5, <3>6, <3>7 DEF IsKeptAt
    <3> QED
      BY <2>1, <3>8 DEF r
  <2> QED
    BY <2>6, <2>7
<1>5. n \in Good
  <2> HIDE DEF Good
  <2>1. 0..n \subseteq Good
    BY <1>2, <1>3, <1>4, UpTo
  <2> QED
    BY <1>2, <2>1
<1>6. kept \cap 1..n = kept
  OBVIOUS
<1> QED
  BY <1>1, <1>2, <1>5, <1>6

\* A list that is kept in part holds the kept elements and no other.
LEMMA RetainedElements ==
  ASSUME NEW S, NEW s \in Seq(S), NEW kept \in SUBSET (DOMAIN s)
  PROVE  /\ Retain(s, kept) \in Seq(S)
         /\ Len(Retain(s, kept)) <= Len(s)
         /\ \A i \in DOMAIN Retain(s, kept) : \E k \in kept : Retain(s, kept)[i] = s[k]
         /\ \A k \in kept : \E i \in DOMAIN Retain(s, kept) : Retain(s, kept)[i] = s[k]
         /\ \A i, j \in DOMAIN Retain(s, kept) : i < j =>
              \E k, l \in kept : k < l /\ Retain(s, kept)[i] = s[k] /\ Retain(s, kept)[j] = s[l]
<1> DEFINE r == Retain(s, kept)
<1>1. DOMAIN s = 1..Len(s) /\ Len(s) \in Nat
  OBVIOUS
<1>2. r \in Seq(S) /\ \E place : IsKeptAt(r, s, kept, place)
  BY <1>1, RetainProperties
<1>3. PICK place : IsKeptAt(r, s, kept, place)
  BY <1>2
<1> HIDE DEF r
<1>4. DOMAIN r = 1..Len(r) /\ Len(r) \in Nat
  BY <1>2
<1>5. /\ place \in [1..Len(r) -> kept]
      /\ \A i, j \in 1..Len(r) : i < j => place[i] < place[j]
      /\ \A k \in kept : \E i \in 1..Len(r) : place[i] = k
      /\ \A i \in 1..Len(r) : r[i] = s[place[i]]
  BY <1>3 DEF IsKeptAt
<1>6. \A m \in 0..Len(r) : m <= Len(s)
  <2> DEFINE Good == {m \in 0..Len(r) : m = 0 \/ m <= place[m]}
  <2>1. \A m \in 0..Len(r) : m < Len(r) /\ m \in Good => m + 1 \in Good
    <3> TAKE m \in 0..Len(r)
    <3> HAVE m < Len(r) /\ m \in Good
    <3>0. m + 1 \in 1..Len(r)
      BY <1>4
    <3>1. m + 1 \in 1..Len(r) /\ place[m + 1] \in 1..Len(s)
      BY <1>1, <1>5, <3>0
    <3>2. CASE m = 0
      BY <3>1, <3>2, <1>4
    <3>3. CASE m # 0
      <4>1. m \in 1..Len(r) /\ m < m + 1
        BY <3>3, <1>4
      <4>2. place[m] < place[m + 1] /\ place[m] \in 1..Len(s)
        BY <3>1, <4>1, <1>1, <1>5
      <4>3. m <= place[m]
        BY <3>3
      <4> QED
        BY <3>1, <4>1, <4>2, <4>3, <1>1, <1>4
    <3> QED
      BY <3>2, <3>3
  <2>2. 0 \in Good
    BY <1>4
  <2>3. 0..Len(r) \subseteq Good
    <3> HIDE DEF Good
    <3> QED
      BY <1>4, <2>1, <2>2, UpTo
  <2>4. \A m \in 1..Len(r) : m <= place[m] /\ place[m] \in 1..Len(s)
    BY <1>1, <1>4, <1>5, <2>3
  <2> QED
    BY <1>1, <1>4, <2>4
<1>7. Len(r) <= Len(s)
  BY <1>4, <1>6
<1>8. \A i \in DOMAIN r : \E k \in kept : r[i] = s[k]
  BY <1>4, <1>5
<1>9. \A k \in kept : \E i \in DOMAIN r : r[i] = s[k]
  BY <1>4, <1>5
<1>10. \A i, j \in DOMAIN r : i < j =>
         \E k, l \in kept : k < l /\ r[i] = s[k] /\ r[j] = s[l]
  <2> TAKE i, j \in DOMAIN r
  <2> HAVE i < j
  <2>1. place[i] \in kept /\ place[j] \in kept /\ place[i] < place[j]
    BY <1>4, <1>5
  <2>2. r[i] = s[place[i]] /\ r[j] = s[place[j]]
    BY <1>4, <1>5
  <2> QED
    BY <2>1, <2>2
<1> QED
  BY <1>2, <1>7, <1>8, <1>9, <1>10 DEF r
==============================================================================
