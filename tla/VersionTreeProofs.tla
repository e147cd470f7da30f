------------------------- MODULE VersionTreeProofs -------------------------
(***************************************************************************)
(* What the operators of VersionTree compute, for a tree of any size.      *)
(*                                                                         *)
(* A forest is a function from the versions of a route and the top level   *)
(* to lists of children.  Versions are drawn from a forest when their      *)
(* pointers are those of its lists.  Reading the lists of versions that    *)
(* are drawn from a forest gives the forest back, the traversal visits     *)
(* each of its versions once, and so the tree can be read; Rebuilt draws   *)
(* the versions from whatever forest it is given; and an insertion or a    *)
(* move makes a forest of a forest.                                        *)
(***************************************************************************)
EXTENDS VersionTree, SequenceTheorems, FiniteSetTheorems, TLAPS

-----------------------------------------------------------------------------
(* Induction and sequences.                                                *)

\* Induction over the naturals, for a predicate given as the set of those that
\* satisfy it: the intervals 0..m of those that do not have no least one.
LEMMA NatSetInduction ==
  ASSUME NEW S, 0 \in S, \A n \in Nat : n \in S => n + 1 \in S
  PROVE  \A n \in Nat : n \in S
<1> SUFFICES ASSUME NEW n \in Nat, n \notin S PROVE FALSE
  OBVIOUS
<1> DEFINE T == {0..m : m \in {m \in 0..n : m \notin S}}
<1>1. T \subseteq FiniteSubsetsOf(0..n)
  <2>1. FiniteSubsetsOf(0..n) = SUBSET (0..n)
    <3>1. IsFiniteSet(0..n)
      BY FS_Interval
    <3> QED
      BY <3>1, FS_FiniteSubsetsOfFinite
  <2> QED
    BY <2>1
<1>2. T # {}
  OBVIOUS
<1>3. PICK x \in T : \A y \in T : ~ (<<y, x>> \in StrictSubsetOrdering(0..n))
  <2> HIDE DEF T
  <2> QED
    BY <1>1, <1>2, FS_StrictSubsetOrderingWellFounded, WFMin
<1>4. PICK m \in 0..n : m \notin S /\ x = 0..m
  OBVIOUS
<1>5. m # 0
  BY <1>4
<1>6. m - 1 \in 0..n /\ m - 1 \notin S
  BY <1>4, <1>5
<1>7. <<0..(m - 1), x>> \in StrictSubsetOrdering(0..n)
  BY <1>4, <1>6 DEF StrictSubsetOrdering
<1> QED
  BY <1>3, <1>6, <1>7

\* A sequence without repetitions over D.
ListOver(s, D) == s \in Seq(D) /\ IsInjective(s)

\* One version more in a list, in any place.
LEMMA InsertAtFacts ==
  ASSUME NEW D, NEW s \in Seq(D), NEW e \in D, NEW i \in 1..(Len(s) + 1)
  PROVE  LET q == InsertAt(s, i, e) IN
         /\ q \in Seq(D) /\ Len(q) = Len(s) + 1
         /\ q[i] = e
         /\ \A j \in 1..(Len(s) + 1) : /\ j < i => q[j] = s[j]
                                       /\ j > i => q[j] = s[j - 1]
<1> DEFINE a == SubSeq(s, 1, i - 1)
           b == SubSeq(s, i, Len(s))
<1>1. Len(s) \in Nat /\ DOMAIN s = 1..Len(s) /\ \A j \in 1..Len(s) : s[j] \in D
  OBVIOUS
<1>2. /\ a \in Seq(D) /\ Len(a) = i - 1
      /\ \A j \in 1..(i - 1) : a[j] = s[j]
  <2>1. \A j \in 1..(i - 1) : s[j] \in D
    BY <1>1
  <2>2. /\ a \in Seq(D) /\ Len(a) = IF 1 <= i - 1 THEN (i - 1) - 1 + 1 ELSE 0
        /\ \A j \in 1..((i - 1) - 1 + 1) : a[j] = s[1 + j - 1]
    BY <2>1, SubSeqProperties, i - 1 \in Int, 1 \in Int
  <2> HIDE DEF a
  <2> QED
    BY <2>2, <1>1
<1>3. /\ b \in Seq(D) /\ Len(b) = Len(s) - i + 1
      /\ \A j \in 1..(Len(s) - i + 1) : b[j] = s[i + j - 1]
  <2>1. \A j \in i..Len(s) : s[j] \in D
    BY <1>1
  <2>2. /\ b \in Seq(D) /\ Len(b) = IF i <= Len(s) THEN Len(s) - i + 1 ELSE 0
        /\ \A j \in 1..(Len(s) - i + 1) : b[j] = s[i + j - 1]
    BY <2>1, SubSeqProperties, i \in Int, Len(s) \in Int
  <2> HIDE DEF b
  <2> QED
    BY <2>2, <1>1
<1> HIDE DEF a, b
<1>4. <<e>> \in Seq(D) /\ Len(<<e>>) = 1 /\ <<e>>[1] = e
  OBVIOUS
<1> DEFINE c == a \o <<e>>
<1>5. /\ c \in Seq(D) /\ Len(c) = i
      /\ \A j \in 1..i : c[j] = IF j <= i - 1 THEN a[j] ELSE <<e>>[j - (i - 1)]
  BY <1>2, <1>4, ConcatProperties
<1>6. \A j \in 1..i : c[j] = IF j < i THEN s[j] ELSE e
  BY <1>2, <1>4, <1>5
<1> HIDE DEF c
<1>7. /\ c \o b \in Seq(D) /\ Len(c \o b) = Len(s) + 1
      /\ \A j \in 1..(Len(s) + 1) :
           (c \o b)[j] = IF j <= i THEN c[j] ELSE b[j - i]
  <2>1. /\ c \o b \in Seq(D) /\ Len(c \o b) = Len(c) + Len(b)
        /\ \A j \in 1..(Len(c) + Len(b)) :
             (c \o b)[j] = IF j <= Len(c) THEN c[j] ELSE b[j - Len(c)]
    BY ZenonT(60), <1>3, <1>5, ConcatProperties
  <2>2. Len(c) + Len(b) = Len(s) + 1
    BY <1>1, <1>3, <1>5
  <2> QED
    BY <2>1, <2>2, <1>5
<1>8. InsertAt(s, i, e) = c \o b
  BY DEF InsertAt, a, b, c
<1>9. ASSUME NEW j \in 1..(Len(s) + 1)
      PROVE  /\ j < i => (c \o b)[j] = s[j]
             /\ j = i => (c \o b)[j] = e
             /\ j > i => (c \o b)[j] = s[j - 1]
  <2>1. CASE j <= i
    BY <2>1, <1>6, <1>7
  <2>2. CASE j > i
    BY <2>2, <1>1, <1>3, <1>7
  <2>3. j <= i \/ j > i
    BY <1>1
  <2> QED
    BY <2>1, <2>2, <2>3
<1> QED
  BY <1>7, <1>8, <1>9

\* One version less in a list.
LEMMA RemoveAtFacts ==
  ASSUME NEW D, NEW s \in Seq(D), NEW i \in 1..Len(s)
  PROVE  LET q == RemoveAt(s, i) IN
         /\ q \in Seq(D) /\ Len(q) = Len(s) - 1
         /\ \A j \in 1..(Len(s) - 1) : q[j] = IF j < i THEN s[j] ELSE s[j + 1]
<1> DEFINE a == SubSeq(s, 1, i - 1)
           b == SubSeq(s, i + 1, Len(s))
<1>1. Len(s) \in Nat /\ DOMAIN s = 1..Len(s) /\ \A j \in 1..Len(s) : s[j] \in D
  OBVIOUS
<1>2. /\ a \in Seq(D) /\ Len(a) = i - 1
      /\ \A j \in 1..(i - 1) : a[j] = s[j]
  <2>1. \A j \in 1..(i - 1) : s[j] \in D
    BY <1>1
  <2>2. /\ a \in Seq(D) /\ Len(a) = IF 1 <= i - 1 THEN (i - 1) - 1 + 1 ELSE 0
        /\ \A j \in 1..((i - 1) - 1 + 1) : a[j] = s[1 + j - 1]
    BY <2>1, SubSeqProperties, i - 1 \in Int, 1 \in Int
  <2> HIDE DEF a
  <2> QED
    BY <2>2, <1>1
<1>3. /\ b \in Seq(D) /\ Len(b) = Len(s) - i
      /\ \A j \in 1..(Len(s) - i) : b[j] = s[i + j]
  <2>1. \A j \in (i + 1)..Len(s) : s[j] \in D
    BY <1>1
  <2>2. /\ b \in Seq(D) /\ Len(b) = IF i + 1 <= Len(s) THEN Len(s) - (i + 1) + 1 ELSE 0
        /\ \A j \in 1..(Len(s) - (i + 1) + 1) : b[j] = s[i + 1 + j - 1]
    BY <2>1, SubSeqProperties, i + 1 \in Int, Len(s) \in Int
  <2> HIDE DEF b
  <2>3. Len(b) = Len(s) - i
    <3>1. Len(b) = IF i + 1 <= Len(s) THEN Len(s) - (i + 1) + 1 ELSE 0
      BY <2>2
    <3>2. Len(s) \in Nat /\ i \in Nat /\ i <= Len(s)
      OBVIOUS
    <3> DEFINE n == Len(s)
               lb == Len(b)
    <3> HIDE DEF n, lb
    <3>3. n \in Nat /\ i \in Nat /\ i <= n /\ lb = IF i + 1 <= n THEN n - (i + 1) + 1 ELSE 0
      BY <3>1, <3>2 DEF n, lb
    <3>4. lb = n - i
      BY ONLY <3>3
    <3> QED
      BY <3>4 DEF n, lb
  <2>4. ASSUME NEW j \in 1..(Len(s) - i) PROVE b[j] = s[i + j]
    <3>1. j \in 1..(Len(s) - (i + 1) + 1) /\ i + 1 + j - 1 = i + j
      BY <1>1
    <3> QED
      BY <3>1, <2>2
  <2> QED
    BY <2>2, <2>3, <2>4
<1> HIDE DEF a, b
<1>4. /\ a \o b \in Seq(D) /\ Len(a \o b) = Len(a) + Len(b)
      /\ \A j \in 1..(Len(a) + Len(b)) :
           (a \o b)[j] = IF j <= Len(a) THEN a[j] ELSE b[j - Len(a)]
  BY <1>2, <1>3, ConcatProperties
<1>5. Len(a) + Len(b) = Len(s) - 1
  BY <1>1, <1>2, <1>3
<1>6. RemoveAt(s, i) = a \o b
  BY DEF RemoveAt, a, b
<1>7. ASSUME NEW j \in 1..(Len(s) - 1)
      PROVE  (a \o b)[j] = IF j < i THEN s[j] ELSE s[j + 1]
  <2>1. CASE j < i
    BY <2>1, <1>1, <1>2, <1>4, <1>5
  <2>2. CASE ~(j < i)
    <3>1. ~(j <= Len(a)) /\ j - Len(a) \in 1..(Len(s) - i) /\ i + (j - Len(a)) = j + 1
      BY <2>2, <1>1, <1>2
    <3>2. (a \o b)[j] = b[j - Len(a)]
      BY <3>1, <1>4, <1>5
    <3> QED
      BY <3>1, <3>2, <2>2, <1>3
  <2> QED
    BY <2>1, <2>2
<1> QED
  BY <1>4, <1>5, <1>6, <1>7

\* The members of a list into which, or from which, one is taken.
LEMMA InsertAtList ==
  ASSUME NEW D, NEW s, ListOver(s, D), NEW e, e \notin ToSet(s), NEW i \in 1..(Len(s) + 1)
  PROVE  /\ ListOver(InsertAt(s, i, e), D \cup {e})
         /\ ToSet(InsertAt(s, i, e)) = ToSet(s) \cup {e}
<1> DEFINE q == InsertAt(s, i, e)
           E == D \cup {e}
<1>1. /\ s \in Seq(E) /\ Len(s) \in Nat /\ DOMAIN s = 1..Len(s)
      /\ e \in E
  BY DEF ListOver
<1> HIDE DEF E
<1>2. /\ q \in Seq(E) /\ Len(q) = Len(s) + 1 /\ DOMAIN q = 1..(Len(s) + 1)
      /\ q[i] = e
      /\ \A j \in 1..(Len(s) + 1) : /\ j < i => q[j] = s[j]
                                    /\ j > i => q[j] = s[j - 1]
  <2>1. /\ q \in Seq(E) /\ Len(q) = Len(s) + 1
        /\ q[i] = e
        /\ \A j \in 1..(Len(s) + 1) : /\ j < i => q[j] = s[j]
                                      /\ j > i => q[j] = s[j - 1]
    BY SMTT(30), <1>1, InsertAtFacts
  <2> HIDE DEF q
  <2> QED
    BY <2>1
<1> HIDE DEF q
<1>3. \A j \in DOMAIN s : s[j] # e
  BY DEF ToSet
<1>4. IsInjective(s)
  BY DEF ListOver
<1>a. ASSUME NEW j \in DOMAIN q
      PROVE  /\ j < i => q[j] = s[j] /\ j \in DOMAIN s
             /\ j = i => q[j] = e
             /\ j > i => q[j] = s[j - 1] /\ j - 1 \in DOMAIN s
             /\ j < i \/ j = i \/ j > i
  <2>1. j \in 1..(Len(s) + 1) /\ j \in Int /\ i \in Int
    BY <1>1, <1>2
  <2>2. j < i => q[j] = s[j] /\ j \in DOMAIN s
    BY <2>1, <1>1, <1>2
  <2>3. j > i => q[j] = s[j - 1] /\ j - 1 \in DOMAIN s
    BY <2>1, <1>1, <1>2
  <2> QED
    BY <2>1, <2>2, <2>3, <1>2
<1>5. ASSUME NEW j \in DOMAIN q, NEW k \in DOMAIN q, q[j] = q[k]
      PROVE  j = k
  <2>1. CASE j < i
    <3>1. q[j] = s[j] /\ j \in DOMAIN s
      BY <2>1, <1>a
    <3>2. k < i
      <4>1. k # i
        BY <3>1, <1>3, <1>5, <1>a
      <4>2. ~(k > i)
        <5>1. SUFFICES ASSUME k > i PROVE FALSE
          OBVIOUS
        <5>2. q[k] = s[k - 1] /\ k - 1 \in DOMAIN s
          BY <5>1, <1>a
        <5>3. k - 1 = j
          BY <5>2, <3>1, <1>4, <1>5 DEF IsInjective
        <5> QED
          BY <5>1, <5>3, <2>1, <1>1, <1>2
      <4> QED
        BY <4>1, <4>2, <1>a
    <3> QED
      BY <3>1, <3>2, <1>4, <1>5, <1>a DEF IsInjective
  <2>2. CASE j = i
    BY <2>2, <1>3, <1>5, <1>a
  <2>3. CASE j > i
    <3>1. q[j] = s[j - 1] /\ j - 1 \in DOMAIN s
      BY <2>3, <1>a
    <3>2. k > i
      <4>1. k # i
        BY <3>1, <1>3, <1>5, <1>a
      <4>2. ~(k < i)
        BY <2>3, <3>1, <1>1, <1>2, <1>4, <1>5, <1>a DEF IsInjective
      <4> QED
        BY <4>1, <4>2, <1>a
    <3>3. k - 1 = j - 1
      BY <3>1, <3>2, <1>4, <1>5, <1>a DEF IsInjective
    <3> QED
      BY <3>3, <1>2
  <2> QED
    BY <2>1, <2>2, <2>3, <1>a
<1>6. ToSet(q) = ToSet(s) \cup {e}
  <2>1. ASSUME NEW j \in DOMAIN q PROVE q[j] \in ToSet(s) \cup {e}
    <3>1. q[j] = e \/ \E k \in DOMAIN s : q[j] = s[k]
      BY <1>a
    <3> QED
      BY <3>1 DEF ToSet
  <2>2. ASSUME NEW j \in DOMAIN s PROVE \E k \in DOMAIN q : q[k] = s[j]
    <3>1. CASE j < i
      <4>1. j \in DOMAIN q
        BY <1>1, <1>2
      <4> QED
        BY <3>1, <4>1, <1>a
    <3>2. CASE ~(j < i)
      <4>1. j + 1 \in DOMAIN q /\ j + 1 > i /\ (j + 1) - 1 = j
        BY <3>2, <1>1, <1>2
      <4> QED
        BY <4>1, <1>a
    <3> QED
      BY <3>1, <3>2
  <2>3. i \in DOMAIN q /\ q[i] = e
    BY <1>1, <1>2
  <2> QED
    BY <2>1, <2>2, <2>3 DEF ToSet
<1> QED
  BY <1>2, <1>5, <1>6 DEF ListOver, IsInjective, q, E

LEMMA RemoveAtList ==
  ASSUME NEW D, NEW s, ListOver(s, D), NEW i \in DOMAIN s
  PROVE  /\ ListOver(RemoveAt(s, i), D)
         /\ ToSet(RemoveAt(s, i)) = ToSet(s) \ {s[i]}
         /\ Len(RemoveAt(s, i)) = Len(s) - 1
<1> DEFINE q == RemoveAt(s, i)
<1>1. s \in Seq(D) /\ Len(s) \in Nat /\ DOMAIN s = 1..Len(s)
  BY DEF ListOver
<1>2. /\ q \in Seq(D) /\ Len(q) = Len(s) - 1 /\ DOMAIN q = 1..(Len(s) - 1)
      /\ \A j \in 1..(Len(s) - 1) : q[j] = IF j < i THEN s[j] ELSE s[j + 1]
  <2>1. /\ q \in Seq(D) /\ Len(q) = Len(s) - 1
        /\ \A j \in 1..(Len(s) - 1) : q[j] = IF j < i THEN s[j] ELSE s[j + 1]
    BY <1>1, RemoveAtFacts
  <2> HIDE DEF q
  <2> QED
    BY <2>1
<1> HIDE DEF q
<1>3. IsInjective(s)
  BY DEF ListOver
<1>4. ASSUME NEW j \in DOMAIN q
      PROVE  /\ j < i => q[j] = s[j] /\ j \in DOMAIN s
             /\ ~(j < i) => q[j] = s[j + 1] /\ j + 1 \in DOMAIN s
  BY <1>1, <1>2
<1>5. ASSUME NEW j \in DOMAIN q, NEW k \in DOMAIN q, q[j] = q[k]
      PROVE  j = k
  BY <1>1, <1>2, <1>3, <1>4, <1>5 DEF IsInjective
<1>6. ToSet(q) = ToSet(s) \ {s[i]}
  <2>1. ASSUME NEW j \in DOMAIN q PROVE \E k \in DOMAIN s : k # i /\ q[j] = s[k]
    <3>1. CASE j < i
      BY <3>1, <1>1, <1>2, <1>4
    <3>2. CASE ~(j < i)
      <4>1. j + 1 # i
        BY <3>2, <1>1, <1>2
      <4> QED
        BY <3>2, <4>1, <1>4
    <3> QED
      BY <3>1, <3>2
  <2>2. ASSUME NEW j \in DOMAIN s, j # i PROVE \E k \in DOMAIN q : q[k] = s[j]
    <3>1. CASE j < i
      BY <3>1, <1>1, <1>2
    <3>2. CASE ~(j < i)
      <4>1. j - 1 \in DOMAIN q /\ ~(j - 1 < i) /\ (j - 1) + 1 = j
        BY <2>2, <3>2, <1>1, <1>2
      <4> QED
        BY <4>1, <1>2
    <3> QED
      BY <3>1, <3>2
  <2>3. ASSUME NEW j \in DOMAIN q PROVE q[j] \in ToSet(s) \ {s[i]}
    BY <2>1, <1>3 DEF ToSet, IsInjective
  <2>4. ASSUME NEW x \in ToSet(s) \ {s[i]} PROVE x \in ToSet(q)
    BY <2>2 DEF ToSet
  <2> QED
    BY <2>3, <2>4 DEF ToSet
<1> QED
  BY <1>2, <1>5, <1>6 DEF ListOver, IsInjective, q

LEMMA ConcatList ==
  ASSUME NEW D, NEW a \in Seq(D), NEW b \in Seq(D)
  PROVE  /\ a \o b \in Seq(D)
         /\ ToSet(a \o b) = ToSet(a) \cup ToSet(b)
         /\ /\ IsInjective(a) /\ IsInjective(b)
            /\ ToSet(a) \cap ToSet(b) = {}
            => IsInjective(a \o b)
<1> DEFINE c == a \o b
<1>1. /\ Len(a) \in Nat /\ DOMAIN a = 1..Len(a)
      /\ Len(b) \in Nat /\ DOMAIN b = 1..Len(b)
  OBVIOUS
<1>2. /\ c \in Seq(D) /\ Len(c) = Len(a) + Len(b)
      /\ \A j \in 1..(Len(a) + Len(b)) : c[j] = IF j <= Len(a) THEN a[j] ELSE b[j - Len(a)]
  BY ConcatProperties
<1> HIDE DEF c
<1>3. DOMAIN c = 1..(Len(a) + Len(b))
  BY <1>2
<1>4. ASSUME NEW j \in DOMAIN c
      PROVE  /\ j <= Len(a) => c[j] = a[j] /\ j \in DOMAIN a
             /\ ~(j <= Len(a)) => c[j] = b[j - Len(a)] /\ j - Len(a) \in DOMAIN b
  BY <1>1, <1>2, <1>3
<1>5. ToSet(c) = ToSet(a) \cup ToSet(b)
  <2>1. ASSUME NEW j \in DOMAIN a PROVE j \in DOMAIN c /\ c[j] = a[j]
    BY <1>1, <1>2, <1>3
  <2>2. ASSUME NEW j \in DOMAIN b PROVE j + Len(a) \in DOMAIN c /\ c[j + Len(a)] = b[j]
    <3>1. j + Len(a) \in DOMAIN c /\ ~(j + Len(a) <= Len(a)) /\ (j + Len(a)) - Len(a) = j
      BY <1>1, <1>3
    <3> QED
      BY <3>1, <1>4
  <2>3. ASSUME NEW j \in DOMAIN c PROVE c[j] \in ToSet(a) \cup ToSet(b)
    BY <1>4 DEF ToSet
  <2>4. ASSUME NEW x \in ToSet(a) \cup ToSet(b) PROVE x \in ToSet(c)
    BY <2>1, <2>2 DEF ToSet
  <2> QED
    BY <2>3, <2>4 DEF ToSet
<1>6. ASSUME IsInjective(a), IsInjective(b), ToSet(a) \cap ToSet(b) = {},
             NEW j \in DOMAIN c, NEW k \in DOMAIN c, c[j] = c[k]
      PROVE  j = k
  <2>1. \A x \in DOMAIN a, y \in DOMAIN b : a[x] # b[y]
    BY <1>6 DEF ToSet
  <2>2. CASE j <= Len(a) /\ k <= Len(a)
    BY <2>2, <1>4, <1>6 DEF IsInjective
  <2>3. CASE ~(j <= Len(a)) /\ ~(k <= Len(a))
    <3>1. j - Len(a) = k - Len(a)
      BY <2>3, <1>4, <1>6 DEF IsInjective
    <3> QED
      BY <3>1, <1>1, <1>3
  <2>4. CASE j <= Len(a) /\ ~(k <= Len(a))
    BY <2>1, <2>4, <1>4, <1>6
  <2>5. CASE ~(j <= Len(a)) /\ k <= Len(a)
    BY <2>1, <2>5, <1>4, <1>6
  <2> QED
    BY <2>2, <2>3, <2>4, <2>5
<1> QED
  BY <1>2, <1>5, <1>6 DEF IsInjective, c

LEMMA ConsList ==
  ASSUME NEW D, NEW e \in D, NEW b \in Seq(D)
  PROVE  /\ <<e>> \o b \in Seq(D)
         /\ ToSet(<<e>> \o b) = {e} \cup ToSet(b)
         /\ IsInjective(b) /\ e \notin ToSet(b) => IsInjective(<<e>> \o b)
<1> DEFINE a == <<e>>
<1>1. a \in Seq(D) /\ ToSet(a) = {e} /\ IsInjective(a)
  BY DEF ToSet, IsInjective
<1> HIDE DEF a
<1>2. /\ a \o b \in Seq(D)
      /\ ToSet(a \o b) = ToSet(a) \cup ToSet(b)
      /\ /\ IsInjective(a) /\ IsInjective(b)
         /\ ToSet(a) \cap ToSet(b) = {}
         => IsInjective(a \o b)
  BY <1>1, ConcatList
<1> QED
  BY <1>1, <1>2 DEF a

\* The sequences of ss one after the other, up to the k-th.
LEMMA FlattenDefined ==
  ASSUME NEW ss, Len(ss) \in Nat
  PROVE  \E f : f = [i \in 1..Len(ss) |-> IF i = 1 THEN ss[i] ELSE f[i - 1] \o ss[i]]
<1> DEFINE Step(f, i) == IF i = 1 THEN ss[i] ELSE f[i - 1] \o ss[i]
           S == {k \in Nat : \E f : f = [i \in 1..k |-> Step(f, i)]}
<1>1. 0 \in S
  <2>1. <<>> = [i \in 1..0 |-> Step(<<>>, i)]
    OBVIOUS
  <2> QED
    BY <2>1
<1>2. ASSUME NEW k \in Nat, k \in S PROVE k + 1 \in S
  <2>1. PICK f : f = [i \in 1..k |-> Step(f, i)]
    BY <1>2
  <2> DEFINE g == [i \in 1..(k + 1) |-> IF i <= k THEN f[i] ELSE Step(f, i)]
  <2>2. ASSUME NEW i \in 1..(k + 1) PROVE g[i] = Step(g, i)
    <3>1. g[i] = Step(f, i)
      <4>1. i \in 1..k => f[i] = Step(f, i)
        <5> HIDE DEF Step
        <5> QED
          BY <2>1
      <4>2. i <= k => i \in 1..k
        OBVIOUS
      <4> HIDE DEF Step
      <4> QED
        BY <4>1, <4>2
    <3>2. i # 1 => i - 1 \in 1..k /\ g[i - 1] = f[i - 1]
      OBVIOUS
    <3> HIDE DEF g
    <3> QED
      BY <3>1, <3>2
  <2>3. g = [i \in 1..(k + 1) |-> Step(g, i)]
    <3>1. g = [i \in 1..(k + 1) |-> g[i]]
      OBVIOUS
    <3> HIDE DEF g, Step
    <3> QED
      BY <2>2, <3>1
  <2> HIDE DEF g, Step
  <2> QED
    BY <2>3
<1>3. Len(ss) \in S
  <2> HIDE DEF S
  <2> QED
    BY <1>1, <1>2, NatSetInduction
<1> QED
  BY <1>3

LEMMA FlattenFacts ==
  ASSUME NEW D, NEW ss \in Seq(Seq(D))
  PROVE  LET q == FlattenSeq(ss) IN
         /\ q \in Seq(D)
         /\ ToSet(q) = UNION {ToSet(ss[i]) : i \in DOMAIN ss}
         /\ /\ \A i \in DOMAIN ss : IsInjective(ss[i])
            /\ \A i, j \in DOMAIN ss : i # j => ToSet(ss[i]) \cap ToSet(ss[j]) = {}
            => IsInjective(q)
<1> DEFINE n == Len(ss)
           f == CHOOSE f : f = [i \in 1..n |-> IF i = 1 THEN ss[i] ELSE f[i - 1] \o ss[i]]
           Apart == /\ \A i \in DOMAIN ss : IsInjective(ss[i])
                    /\ \A i, j \in DOMAIN ss : i # j => ToSet(ss[i]) \cap ToSet(ss[j]) = {}
           Upto(k) == UNION {ToSet(ss[i]) : i \in 1..k}
           Flat(k) == /\ f[k] \in Seq(D)
                      /\ ToSet(f[k]) = Upto(k)
                      /\ Apart => IsInjective(f[k])
           S == {k \in Nat : k \in 1..n => Flat(k)}
<1>1. n \in Nat /\ DOMAIN ss = 1..n /\ \A i \in 1..n : ss[i] \in Seq(D)
  OBVIOUS
<1>2. f = [i \in 1..n |-> IF i = 1 THEN ss[i] ELSE f[i - 1] \o ss[i]]
  <2> HIDE DEF n
  <2>1. \E g : g = [i \in 1..n |-> IF i = 1 THEN ss[i] ELSE g[i - 1] \o ss[i]]
    BY <1>1, FlattenDefined DEF n
  <2> QED
    BY <2>1
<1>3. FlattenSeq(ss) = IF n = 0 THEN ss ELSE f[n]
  BY DEF FlattenSeq
<1> HIDE DEF n, f
<1>4. 0 \in S
  OBVIOUS
<1>5. ASSUME NEW k \in Nat, k \in S PROVE k + 1 \in S
  <2>1. SUFFICES ASSUME k + 1 \in 1..n PROVE Flat(k + 1)
    OBVIOUS
  <2>2. CASE k = 0
    <3>1. f[1] = ss[1] /\ 1 \in 1..n
      BY <1>2, <2>1, <2>2
    <3>2. Upto(1) = ToSet(ss[1])
      OBVIOUS
    <3> QED
      BY <3>1, <3>2, <2>2, <1>1
  <2>3. CASE k # 0
    <3>1. k \in 1..n /\ Flat(k)
      BY SMTT(30), <1>1, <1>5, <2>1, <2>3
    <3>2. f[k + 1] = f[k] \o ss[k + 1]
      <4>1. k + 1 # 1 /\ (k + 1) - 1 = k
        BY <2>3
      <4>2. f[k + 1] = IF k + 1 = 1 THEN ss[k + 1] ELSE f[(k + 1) - 1] \o ss[k + 1]
        BY <1>2, <2>1
      <4> QED
        BY <4>1, <4>2
    <3>3. Upto(k + 1) = Upto(k) \cup ToSet(ss[k + 1])
      BY <2>1
    <3>4. f[k] \in Seq(D) /\ ss[k + 1] \in Seq(D)
      BY <1>1, <2>1, <3>1
    <3>5. /\ f[k + 1] \in Seq(D)
          /\ ToSet(f[k + 1]) = ToSet(f[k]) \cup ToSet(ss[k + 1])
          /\ /\ IsInjective(f[k]) /\ IsInjective(ss[k + 1])
             /\ ToSet(f[k]) \cap ToSet(ss[k + 1]) = {}
             => IsInjective(f[k + 1])
      BY <3>2, <3>4, ConcatList
    <3>6. ASSUME Apart
          PROVE  /\ IsInjective(f[k]) /\ IsInjective(ss[k + 1])
                 /\ ToSet(f[k]) \cap ToSet(ss[k + 1]) = {}
      <4>1. \A i \in 1..k : i \in DOMAIN ss /\ i # k + 1
        BY <1>1, <3>1
      <4>2. k + 1 \in DOMAIN ss
        BY <1>1, <2>1
      <4>3. ToSet(f[k]) = UNION {ToSet(ss[i]) : i \in 1..k}
        BY <3>1
      <4> QED
        BY <3>1, <3>6, <4>1, <4>2, <4>3
    <3> HIDE DEF Apart, Upto
    <3> QED
      BY <3>1, <3>3, <3>5, <3>6
  <2> QED
    BY <2>2, <2>3
<1>6. \A k \in Nat : k \in S
  <2> HIDE DEF S
  <2> QED
    BY <1>4, <1>5, NatSetInduction
<1>7. CASE n = 0
  <2>1. ss = <<>>
    BY <1>7 DEF n
  <2>2. <<>> \in Seq(D) /\ ToSet(<<>>) = {} /\ IsInjective(<<>>) /\ DOMAIN <<>> = {}
    BY DEF ToSet, IsInjective
  <2> QED
    BY <2>1, <2>2, <1>3, <1>7
<1>8. CASE n # 0
  <2>1. n \in 1..n
    BY <1>1, <1>8
  <2>2. Flat(n)
    BY <1>1, <1>6, <2>1
  <2> QED
    BY <2>2, <1>1, <1>3, <1>8
<1> QED
  BY <1>7, <1>8

-----------------------------------------------------------------------------
(* Forests, and versions drawn from them.                                  *)

\* Each version is in one list, and there is no cycle: among any versions there
\* is one without a child among them, and one without its parent among them.
ForestOf(D, lists) ==
  /\ DOMAIN lists = D \cup {Null} /\ lists = [p \in DOMAIN lists |-> lists[p]]
  /\ \A p \in DOMAIN lists : ListOver(lists[p], D)
  /\ \A v \in D : \E p \in DOMAIN lists : v \in ToSet(lists[p])
  /\ \A p, q \in DOMAIN lists : p # q => ToSet(lists[p]) \cap ToSet(lists[q]) = {}
  /\ \A P \in SUBSET DOMAIN lists : P # {} => \E p \in P : ToSet(lists[p]) \cap P = {}
  /\ \A P \in SUBSET D : P # {} => \E v \in P : \A p \in P : v \notin ToSet(lists[p])

\* The pointers of vs are those of the lists.
Drawn(vs, lists) ==
  \A p \in DOMAIN lists : \A i \in DOMAIN lists[p] :
    LET v == lists[p][i] IN
    /\ vs[v].parent = p
    /\ vs[v].previous = IF i = 1 THEN Null ELSE lists[p][i - 1]
    /\ vs[v].next = IF i = Len(lists[p]) THEN Null ELSE lists[p][i + 1]

\* The children of p are the members of its list.
LEMMA DrawnChildren ==
  ASSUME NEW vs, NEW lists, ForestOf(DOMAIN vs, lists), Drawn(vs, lists),
         NEW p \in DOMAIN lists
  PROVE  Children(vs, p) = ToSet(lists[p])
<1>1. ASSUME NEW v \in Children(vs, p) PROVE v \in ToSet(lists[p])
  <2>1. v \in DOMAIN vs /\ vs[v].parent = p
    BY DEF Children
  <2>2. PICK q \in DOMAIN lists : v \in ToSet(lists[q])
    BY <2>1 DEF ForestOf
  <2>3. PICK i \in DOMAIN lists[q] : v = lists[q][i]
    BY <2>2 DEF ToSet
  <2>4. vs[v].parent = q
    BY <2>3 DEF Drawn
  <2> QED
    BY <2>1, <2>2, <2>4
<1>2. ASSUME NEW v \in ToSet(lists[p]) PROVE v \in Children(vs, p)
  <2>1. PICK i \in DOMAIN lists[p] : v = lists[p][i]
    BY DEF ToSet
  <2>2. v \in DOMAIN vs
    BY <2>1 DEF ForestOf, ListOver
  <2> QED
    BY <2>1, <2>2 DEF Drawn, Children
<1> QED
  BY <1>1, <1>2

\* From each child of p the next pointers lead through the rest of its list.
LEMMA DrawnSiblings ==
  ASSUME NEW vs, NEW lists, ForestOf(DOMAIN vs, lists), Drawn(vs, lists),
         Null \notin DOMAIN vs, NEW p \in DOMAIN lists
  PROVE  Siblings(vs, p) = lists[p]
<1> DEFINE D == DOMAIN vs
           list == lists[p]
           n == Len(list)
           C == ToSet(list)
           Step(f, v) == IF vs[v].next = Null THEN <<v>> ELSE <<v>> \o f[vs[v].next]
           from == CHOOSE from : from = [v \in C |-> Step(from, v)]
           rest(v) == SubSeq(list, Position(list, v), n)
           g == [v \in C |-> rest(v)]
<1>1. /\ list \in Seq(D) /\ IsInjective(list)
      /\ n \in Nat /\ DOMAIN list = 1..n /\ \A i \in 1..n : list[i] \in D
  <2>1. list \in Seq(D) /\ IsInjective(list)
    BY DEF ForestOf, ListOver
  <2> HIDE DEF list
  <2> QED
    BY <2>1
<1>2. ASSUME NEW i \in 1..n
      PROVE  /\ list[i] \in C /\ Position(list, list[i]) = i
             /\ vs[list[i]].previous = IF i = 1 THEN Null ELSE list[i - 1]
             /\ vs[list[i]].next = IF i = n THEN Null ELSE list[i + 1]
  <2>1. \A j \in DOMAIN list : list[j] = list[i] <=> j = i
    BY <1>1 DEF IsInjective
  <2>2. Position(list, list[i]) = i
    BY <2>1, <1>1 DEF Position
  <2>3. list[i] \in C
    BY <1>1 DEF ToSet
  <2>4. /\ vs[list[i]].previous = IF i = 1 THEN Null ELSE list[i - 1]
        /\ vs[list[i]].next = IF i = n THEN Null ELSE list[i + 1]
    <3>1. i \in DOMAIN lists[p]
      BY <1>1
    <3> QED
      BY ZenonT(60), <3>1 DEF Drawn
  <2> QED
    BY <2>2, <2>3, <2>4
<1>3. Children(vs, p) = C
  BY DrawnChildren
<1>4. \A v \in C : \E i \in 1..n : v = list[i]
  BY <1>1 DEF ToSet
<1> HIDE DEF D, list, n, C
<1>5. g = [v \in C |-> Step(g, v)]
  <2>1. ASSUME NEW v \in C PROVE g[v] = Step(g, v)
    <3>1. PICK i \in 1..n : v = list[i]
      BY <1>4
    <3>2. g[v] = SubSeq(list, i, n)
      BY <3>1, <1>2
    <3>3. n \in i..n /\ i \in 1..n
      BY <1>1, <3>1
    <3>4. SubSeq(list, i, n) = <<v>> \o SubSeq(list, i + 1, n)
      BY <1>1, <3>1, <3>3, SubSeqRecursiveFirst DEF n
    <3>5. CASE i = n
      <4>1. SubSeq(list, i + 1, n) = <<>>
        BY <1>1, <3>5, SubSeqEmpty, i + 1 \in Int, n \in Int, n < i + 1
      <4>2. <<v>> \o <<>> = <<v>>
        OBVIOUS
      <4> QED
        BY <3>1, <3>2, <3>4, <3>5, <4>1, <4>2, <1>2
    <3>6. CASE i # n
      <4>1. i + 1 \in 1..n
        BY <3>6, <1>1
      <4>2. vs[v].next = list[i + 1] /\ list[i + 1] # Null
        BY <4>1, <3>1, <3>6, <1>1, <1>2 DEF D
      <4>3. g[list[i + 1]] = SubSeq(list, i + 1, n)
        BY <4>1, <1>2
      <4> QED
        BY <3>2, <3>4, <4>2, <4>3
    <3> QED
      BY <3>5, <3>6
  <2>2. g = [v \in C |-> g[v]]
    OBVIOUS
  <2> HIDE DEF g, Step
  <2> QED
    BY <2>1, <2>2
<1>6. from = [v \in C |-> Step(from, v)]
  <2> HIDE DEF g, Step
  <2> QED
    BY <1>5
<1> HIDE DEF from, g
<1>7. \A v \in C : from[v] = Step(from, v)
  BY <1>6
<1> DEFINE S == {k \in Nat : k < n => from[list[n - k]] = SubSeq(list, n - k, n)}
<1>8. 0 \in S
  <2>1. SUFFICES ASSUME 0 < n PROVE from[list[n]] = SubSeq(list, n, n)
    BY <1>1
  <2>2. n \in 1..n /\ n \in n..n
    BY <2>1, <1>1
  <2>3. from[list[n]] = <<list[n]>>
    BY <2>2, <1>2, <1>7
  <2>4. SubSeq(list, n, n) = <<list[n]>> \o SubSeq(list, n + 1, n)
    BY <1>1, <2>2, SubSeqRecursiveFirst DEF n
  <2>5. SubSeq(list, n + 1, n) = <<>>
    BY <1>1, SubSeqEmpty, n + 1 \in Int, n \in Int, n < n + 1
  <2>6. <<list[n]>> \o <<>> = <<list[n]>>
    OBVIOUS
  <2> QED
    BY <2>3, <2>4, <2>5, <2>6
<1>9. ASSUME NEW k \in Nat, k \in S PROVE k + 1 \in S
  <2>1. SUFFICES ASSUME k + 1 < n
                 PROVE from[list[n - (k + 1)]] = SubSeq(list, n - (k + 1), n)
    OBVIOUS
  <2> DEFINE i == n - (k + 1)
  <2>2. /\ i \in 1..n /\ i + 1 \in 1..n /\ i # n /\ n - k = i + 1 /\ k < n
        /\ n \in i..n
    BY <2>1, <1>1
  <2> HIDE DEF i
  <2>3. vs[list[i]].next = list[i + 1] /\ list[i + 1] # Null
    BY <2>2, <1>1, <1>2 DEF D
  <2>4. from[list[i]] = <<list[i]>> \o from[list[i + 1]]
    BY ZenonT(60), <2>2, <2>3, <1>2, <1>7
  <2>5. from[list[i + 1]] = SubSeq(list, i + 1, n)
    BY <2>2, <1>9
  <2>6. SubSeq(list, i, n) = <<list[i]>> \o SubSeq(list, i + 1, n)
    BY <1>1, <2>2, SubSeqRecursiveFirst DEF n
  <2> QED
    BY <2>4, <2>5, <2>6 DEF i
<1>10. \A k \in Nat : k \in S
  <2> HIDE DEF S
  <2> QED
    BY <1>8, <1>9, NatSetInduction
<1>11. Siblings(vs, p) = IF C = {} THEN <<>>
                         ELSE from[CHOOSE v \in C : vs[v].previous = Null]
  BY <1>3 DEF Siblings, from
<1>12. CASE n = 0
  <2>1. C = {}
    BY <1>4, <1>12
  <2>2. list = <<>>
    BY <1>1, <1>12 DEF n
  <2> QED
    BY <2>1, <2>2, <1>11 DEF list
<1>13. CASE n # 0
  <2>1. 1 \in 1..n /\ n - 1 \in Nat /\ n - 1 < n /\ n - (n - 1) = 1
    BY <1>1, <1>13
  <2>2. from[list[1]] = SubSeq(list, 1, n)
    BY <2>1, <1>10
  <2>3. SubSeq(list, 1, n) = list
    BY <1>1, SubSeqFull DEF n
  <2>4. ASSUME NEW v \in C PROVE vs[v].previous = Null <=> v = list[1]
    <3>1. PICK i \in 1..n : v = list[i]
      BY <1>4
    <3>2. i # 1 => i - 1 \in 1..n /\ list[i - 1] # Null
      BY <3>1, <1>1 DEF D
    <3>3. vs[v].previous = Null <=> i = 1
      BY <3>1, <3>2, <1>2
    <3>4. list[i] = list[1] <=> i = 1
      BY <2>1, <1>1 DEF IsInjective
    <3> QED
      BY <3>1, <3>3, <3>4
  <2>5. (CHOOSE v \in C : vs[v].previous = Null) = list[1]
    BY <2>1, <2>4, <1>2
  <2> QED
    BY <2>1, <2>2, <2>3, <2>5, <1>2, <1>11 DEF list
<1> QED
  BY <1>12, <1>13

-----------------------------------------------------------------------------
(* The traversal.                                                          *)

\* What is below p, from what is below its children.
Unfolded(lists, f, p) ==
  FlattenSeq([i \in DOMAIN lists[p] |-> <<lists[p][i]>> \o f[lists[p][i]]])

LEMMA UnfoldedAgrees ==
  ASSUME NEW lists, NEW p, NEW f, NEW g, \A v \in ToSet(lists[p]) : f[v] = g[v]
  PROVE  Unfolded(lists, f, p) = Unfolded(lists, g, p)
<1>1. \A i \in DOMAIN lists[p] : f[lists[p][i]] = g[lists[p][i]]
  BY DEF ToSet
<1>2. [i \in DOMAIN lists[p] |-> <<lists[p][i]>> \o f[lists[p][i]]]
      = [i \in DOMAIN lists[p] |-> <<lists[p][i]>> \o g[lists[p][i]]]
  BY <1>1
<1> QED
  BY <1>2 DEF Unfolded

\* The recursion of Traversal is well-founded: the largest part of a forest on
\* which it defines a function, and which is closed under children, is all of it.
LEMMA TraversalDefined ==
  ASSUME NEW D, NEW lists, IsFiniteSet(D), ForestOf(D, lists)
  PROVE  \E f : f = [p \in DOMAIN lists |-> Unfolded(lists, f, p)]
<1> DEFINE A == DOMAIN lists
           Closed(U) == \A p \in U : ToSet(lists[p]) \subseteq U
           Part(U) == Closed(U) /\ \E f : f = [p \in U |-> Unfolded(lists, f, p)]
           T == {C \in SUBSET A : Part(A \ C)}
<1>1. IsFiniteSet(A) /\ A = D \cup {Null}
  BY FS_AddElement DEF ForestOf
<1>2. \A p \in A : ToSet(lists[p]) \subseteq A
  <2>1. \A p \in A : \A i \in DOMAIN lists[p] : lists[p][i] \in D
    BY DEF ForestOf, ListOver
  <2> QED
    BY <2>1, <1>1 DEF ToSet
<1> HIDE DEF A
<1>3. T # {}
  <2>1. A \ A = {}
    OBVIOUS
  <2>2. <<>> = [p \in {} |-> Unfolded(lists, <<>>, p)]
    OBVIOUS
  <2>3. Part({})
    BY <2>2
  <2> HIDE DEF Part
  <2> QED
    BY <2>1, <2>3
<1>4. PICK C \in T : \A E \in T : ~ (<<E, C>> \in StrictSubsetOrdering(A))
  <2>1. T \subseteq FiniteSubsetsOf(A)
    <3>1. FiniteSubsetsOf(A) = SUBSET A
      BY <1>1, FS_FiniteSubsetsOfFinite
    <3> QED
      BY <3>1
  <2> HIDE DEF T
  <2> QED
    BY <2>1, <1>3, FS_StrictSubsetOrderingWellFounded, WFMin
<1>5. CASE C = {}
  <2>1. Part(A \ {}) /\ A \ {} = A
    BY <1>4, <1>5
  <2>2. \E f : f = [p \in A |-> Unfolded(lists, f, p)]
    BY <2>1
  <2> QED
    BY <2>2 DEF A
<1>6. CASE C # {}
  <2> DEFINE U == A \ C
  <2>1. C \subseteq A /\ Closed(U)
    BY <1>4
  <2>2. PICK f : f = [p \in U |-> Unfolded(lists, f, p)]
    BY <1>4
  <2>3. PICK q \in C : ToSet(lists[q]) \cap C = {}
    BY <1>6, <2>1 DEF ForestOf, A
  <2>4. q \in A /\ q \notin U /\ ToSet(lists[q]) \subseteq U
    BY <2>1, <2>3, <1>2
  <2> DEFINE W == A \ (C \ {q})
             g == [p \in W |-> IF p \in U THEN f[p] ELSE Unfolded(lists, f, p)]
  <2>5. W = U \cup {q}
    BY <2>1, <2>4
  <2> HIDE DEF W, U
  <2>6. Closed(W)
    BY <2>1, <2>4, <2>5
  <2>7. ASSUME NEW p \in W PROVE g[p] = Unfolded(lists, g, p)
    <3>1. g[p] = Unfolded(lists, f, p)
      BY <2>2
    <3>2. ToSet(lists[p]) \subseteq U
      BY <2>1, <2>4, <2>5
    <3>3. \A v \in ToSet(lists[p]) : f[v] = g[v]
      BY <3>2, <2>5
    <3>4. Unfolded(lists, f, p) = Unfolded(lists, g, p)
      <4> HIDE DEF g
      <4> QED
        BY <3>3, UnfoldedAgrees
    <3> QED
      BY <3>1, <3>4
  <2>8. g = [p \in W |-> Unfolded(lists, g, p)]
    <3>1. g = [p \in W |-> g[p]]
      OBVIOUS
    <3> HIDE DEF g
    <3> QED
      BY <2>7, <3>1
  <2>9. C \ {q} \in T
    <3>1. Part(W)
      <4> HIDE DEF g
      <4> QED
        BY <2>6, <2>8
    <3>2. C \ {q} \in SUBSET A
      BY <2>1
    <3> HIDE DEF Part
    <3> QED
      BY <3>1, <3>2 DEF W
  <2>10. <<C \ {q}, C>> \in StrictSubsetOrdering(A)
    BY <2>1, <2>3 DEF StrictSubsetOrdering
  <2> HIDE DEF T
  <2> QED
    BY <2>9, <2>10, <1>4
<1> QED
  BY <1>5, <1>6

LEMMA TraversalUnfolds ==
  ASSUME NEW D, NEW lists, IsFiniteSet(D), ForestOf(D, lists)
  PROVE  \E f : /\ f = [p \in DOMAIN lists |-> Unfolded(lists, f, p)]
                /\ Traversal(lists) = f[Null]
<1> DEFINE f == CHOOSE f : f = [p \in DOMAIN lists |-> Unfolded(lists, f, p)]
<1>1. f = [p \in DOMAIN lists |-> Unfolded(lists, f, p)]
  BY TraversalDefined
<1>2. Traversal(lists) = f[Null]
  BY DEF Traversal, Unfolded
<1> QED
  BY <1>1, <1>2

\* f gives, for each version and the top level, the versions below it in order.
Unfolds(D, lists, f) ==
  /\ Null \notin D /\ ForestOf(D, lists)
  /\ f = [p \in DOMAIN lists |-> Unfolded(lists, f, p)]

\* Below p are its children and what is below them.
LEMMA BelowMembers ==
  ASSUME NEW D, NEW lists, NEW f, Unfolds(D, lists, f)
  PROVE  \A p \in DOMAIN lists :
           /\ f[p] \in Seq(D)
           /\ \A x : x \in ToSet(f[p]) <=>
                       \E c \in ToSet(lists[p]) : x = c \/ x \in ToSet(f[c])
<1> DEFINE A == DOMAIN lists
           parts(p) == [i \in DOMAIN lists[p] |-> <<lists[p][i]>> \o f[lists[p][i]]]
<1>1. A = D \cup {Null}
  BY DEF Unfolds, ForestOf
<1>2. ASSUME NEW p \in A
      PROVE  /\ lists[p] \in Seq(D)
             /\ \A i \in DOMAIN lists[p] : lists[p][i] \in D /\ lists[p][i] \in ToSet(lists[p])
             /\ \A c \in ToSet(lists[p]) : \E i \in DOMAIN lists[p] : c = lists[p][i]
             /\ \A c \in ToSet(lists[p]) : c \in D
  BY DEF Unfolds, ForestOf, ListOver, ToSet
<1>3. ASSUME NEW p \in A PROVE f[p] = FlattenSeq(parts(p))
  BY DEF Unfolds, Unfolded
<1>4. ASSUME NEW p \in A, \A c \in ToSet(lists[p]) : f[c] \in Seq(D)
      PROVE  /\ parts(p) \in Seq(Seq(D)) /\ DOMAIN parts(p) = DOMAIN lists[p]
             /\ \A i \in DOMAIN lists[p] :
                  ToSet(parts(p)[i]) = {lists[p][i]} \cup ToSet(f[lists[p][i]])
  <2>1. ASSUME NEW i \in DOMAIN lists[p]
        PROVE  /\ <<lists[p][i]>> \o f[lists[p][i]] \in Seq(D)
               /\ ToSet(<<lists[p][i]>> \o f[lists[p][i]])
                    = {lists[p][i]} \cup ToSet(f[lists[p][i]])
    <3> DEFINE c == lists[p][i]
    <3>1. c \in D /\ f[c] \in Seq(D)
      BY <1>2, <1>4
    <3> HIDE DEF c
    <3>2. <<c>> \o f[c] \in Seq(D) /\ ToSet(<<c>> \o f[c]) = {c} \cup ToSet(f[c])
      BY <3>1, ConsList
    <3> QED
      BY <3>2 DEF c
  <2>2. DOMAIN lists[p] = 1..Len(lists[p]) /\ Len(lists[p]) \in Nat
    BY <1>2
  <2>3. parts(p) \in [1..Len(lists[p]) -> Seq(D)]
    BY <2>1, <2>2
  <2>4. parts(p) \in Seq(Seq(D))
    <3> HIDE DEF parts
    <3> QED
      BY <2>2, <2>3, SeqDef
  <2> QED
    BY <2>1, <2>4
<1>5. ASSUME NEW p \in A, \A c \in ToSet(lists[p]) : f[c] \in Seq(D)
      PROVE  /\ f[p] \in Seq(D)
             /\ ToSet(f[p]) = UNION {ToSet(parts(p)[i]) : i \in DOMAIN parts(p)}
  <2> HIDE DEF parts
  <2> QED
    BY <1>3, <1>4, <1>5, FlattenFacts
<1> HIDE DEF parts
<1>6. ASSUME NEW p \in A PROVE f[p] \in Seq(D)
  <2> DEFINE B == {q \in A : f[q] \notin Seq(D)}
  <2>1. SUFFICES ASSUME B # {} PROVE FALSE
    OBVIOUS
  <2>2. PICK q \in B : ToSet(lists[q]) \cap B = {}
    BY <2>1 DEF Unfolds, ForestOf
  <2>3. \A c \in ToSet(lists[q]) : f[c] \in Seq(D)
    BY <1>1, <1>2, <2>2
  <2> QED
    BY <2>2, <2>3, <1>5
<1>7. ASSUME NEW p \in A, NEW x
      PROVE  x \in ToSet(f[p]) <=> \E c \in ToSet(lists[p]) : x = c \/ x \in ToSet(f[c])
  <2>1. \A c \in ToSet(lists[p]) : f[c] \in Seq(D)
    BY <1>1, <1>2, <1>6
  <2>2. x \in ToSet(f[p]) <=> \E i \in DOMAIN lists[p] :
                                x = lists[p][i] \/ x \in ToSet(f[lists[p][i]])
    <3>1. x \in ToSet(f[p]) <=> \E i \in DOMAIN parts(p) : x \in ToSet(parts(p)[i])
      BY <2>1, <1>5
    <3> QED
      BY <2>1, <3>1, <1>4
  <2> QED
    BY <2>2, <1>2
<1> QED
  BY <1>6, <1>7

\* What is below p is closed under children, and under parents up to p, which is
\* not below itself; what is below two children of p, with them, is apart.
LEMMA BelowClosed ==
  ASSUME NEW D, NEW lists, NEW f, Unfolds(D, lists, f)
  PROVE  /\ \A p \in DOMAIN lists : \A x \in ToSet(f[p]) : ToSet(lists[x]) \subseteq ToSet(f[p])
         /\ \A p, q \in DOMAIN lists : \A x \in ToSet(f[p]) :
              x \in ToSet(lists[q]) => q = p \/ q \in ToSet(f[p])
         /\ \A p \in DOMAIN lists : p \notin ToSet(f[p])
         /\ \A p \in DOMAIN lists : \A a, b \in ToSet(lists[p]) : a # b =>
              ({a} \cup ToSet(f[a])) \cap ({b} \cup ToSet(f[b])) = {}
<1> DEFINE A == DOMAIN lists
           L(p) == ToSet(lists[p])
           R(p) == ToSet(f[p])
<1>1. /\ A = D \cup {Null} /\ Null \notin D
      /\ \A P \in SUBSET A : P # {} => \E p \in P : L(p) \cap P = {}
      /\ \A P \in SUBSET D : P # {} => \E v \in P : \A p \in P : v \notin L(p)
      /\ \A v \in D : \E p \in A : v \in L(p)
      /\ \A p, q \in A : p # q => L(p) \cap L(q) = {}
  BY DEF Unfolds, ForestOf
<1>2. \A p \in A : L(p) \subseteq D
  BY DEF Unfolds, ForestOf, ListOver, ToSet
<1>3. \A p \in A : \A x : x \in R(p) <=> \E c \in L(p) : x = c \/ x \in R(c)
  BY SMTT(30), BelowMembers
<1>4. \A p \in A : R(p) \subseteq D
  <2>1. \A p \in A : f[p] \in Seq(D)
    BY BelowMembers
  <2> QED
    BY <2>1 DEF ToSet
<1> HIDE DEF L, R, A
<1>5. ASSUME NEW p \in A PROVE \A x \in R(p) : L(x) \subseteq R(p)
  <2> DEFINE B == {q \in A : \E x \in R(q) : ~(L(x) \subseteq R(q))}
  <2>1. SUFFICES ASSUME B # {} PROVE FALSE
    OBVIOUS
  <2>2. PICK q \in B : L(q) \cap B = {}
    BY <2>1, <1>1
  <2>3. PICK x \in R(q) : ~(L(x) \subseteq R(q))
    BY <2>2
  <2>4. PICK c \in L(q) : x = c \/ x \in R(c)
    BY <2>2, <2>3, <1>3
  <2>5. c \in A /\ c \notin B
    BY <2>2, <2>4, <1>1, <1>2
  <2>6. R(c) \subseteq R(q)
    BY <2>2, <2>4, <1>3
  <2>7. L(x) \subseteq R(c)
    BY <2>4, <2>5, <1>3
  <2> QED
    BY <2>3, <2>6, <2>7
<1>6. ASSUME NEW p \in A
      PROVE  \A x \in R(p), q \in A : x \in L(q) => q = p \/ q \in R(p)
  <2> DEFINE B == {r \in A : \E x \in R(r), q \in A : x \in L(q) /\ q # r /\ q \notin R(r)}
  <2>1. SUFFICES ASSUME B # {} PROVE FALSE
    OBVIOUS
  <2>2. PICK r \in B : L(r) \cap B = {}
    BY <2>1, <1>1
  <2>3. PICK x \in R(r), q \in A : x \in L(q) /\ q # r /\ q \notin R(r)
    BY <2>2
  <2>4. PICK c \in L(r) : x = c \/ x \in R(c)
    BY <2>2, <2>3, <1>3
  <2>5. c \in A /\ c \notin B /\ c \in R(r) /\ R(c) \subseteq R(r)
    BY <2>2, <2>4, <1>1, <1>2, <1>3
  <2>6. x # c
    BY <2>2, <2>3, <2>4, <1>1
  <2> QED
    BY <2>3, <2>4, <2>5, <2>6
<1>7. ASSUME NEW p \in A, p \in R(p) PROVE FALSE
  <2>1. PICK v \in R(p) : \A q \in R(p) : v \notin L(q)
    BY <1>1, <1>4, <1>7
  <2>2. PICK q \in A : v \in L(q)
    BY <2>1, <1>1, <1>4
  <2> QED
    BY <2>1, <2>2, <1>6, <1>7
<1>8. ASSUME NEW p \in A, NEW a \in L(p), NEW b \in L(p), a # b, a \in R(b) PROVE FALSE
  <2>1. a \in A /\ b \in A
    BY <1>1, <1>2
  <2>2. p = b \/ p \in R(b)
    BY <2>1, <1>6, <1>8
  <2>3. b \in R(b)
    <3>1. CASE p = b
      BY <3>1, <2>1, <1>3
    <3>2. CASE p \in R(b)
      BY <3>2, <2>1, <1>5
    <3> QED
      BY <2>2, <3>1, <3>2
  <2> QED
    BY <2>1, <2>3, <1>7
<1>9. ASSUME NEW p \in A, NEW a \in L(p), NEW b \in L(p), a # b
      PROVE  ({a} \cup R(a)) \cap ({b} \cup R(b)) = {}
  <2> DEFINE X == ({a} \cup R(a)) \cap ({b} \cup R(b))
  <2>1. SUFFICES ASSUME X # {} PROVE FALSE
    OBVIOUS
  <2>2. a \in A /\ b \in A /\ X \subseteq D
    BY <1>1, <1>2, <1>4
  <2>3. PICK v \in X : \A q \in X : v \notin L(q)
    <3> HIDE DEF X
    <3> QED
      BY <2>1, <2>2, <1>1
  <2>4. v # a /\ v # b
    BY <2>3, <1>8, <1>9
  <2>5. PICK q \in A : v \in L(q)
    BY <2>2, <2>3, <1>1
  <2>6. q \in {a} \cup R(a) /\ q \in {b} \cup R(b)
    BY <2>2, <2>3, <2>4, <2>5, <1>6
  <2> QED
    BY <2>3, <2>5, <2>6
<1> QED
  BY <1>5, <1>6, <1>7, <1>9 DEF L, R, A

\* The traversal of a forest visits each of its versions once.
LEMMA TraversalFacts ==
  ASSUME NEW D, NEW lists, IsFiniteSet(D), Null \notin D, ForestOf(D, lists)
  PROVE  LET route == Traversal(lists) IN
         /\ ListOver(route, D) /\ ToSet(route) = D
         /\ Len(route) = Cardinality(D)
<1> DEFINE A == DOMAIN lists
           L(p) == ToSet(lists[p])
           route == Traversal(lists)
<1>1. PICK f : /\ f = [p \in A |-> Unfolded(lists, f, p)]
               /\ route = f[Null]
  BY TraversalUnfolds
<1>2. Unfolds(D, lists, f)
  BY <1>1 DEF Unfolds
<1> DEFINE R(p) == ToSet(f[p])
           parts(p) == [i \in DOMAIN lists[p] |-> <<lists[p][i]>> \o f[lists[p][i]]]
<1>3. /\ A = D \cup {Null} /\ Null \notin D
      /\ \A P \in SUBSET A : P # {} => \E p \in P : L(p) \cap P = {}
      /\ \A P \in SUBSET D : P # {} => \E v \in P : \A p \in P : v \notin L(p)
      /\ \A v \in D : \E p \in A : v \in L(p)
  BY DEF ForestOf
<1>4. \A p \in A : f[p] \in Seq(D)
  BY <1>2, BelowMembers
<1>5. ASSUME NEW p \in A PROVE L(p) \subseteq R(p)
  BY <1>2, BelowMembers
<1>6. ASSUME NEW p \in A, \A c \in L(p) : IsInjective(f[c])
      PROVE  IsInjective(f[p])
  <2>1. /\ lists[p] \in Seq(D) /\ IsInjective(lists[p])
        /\ Len(lists[p]) \in Nat /\ DOMAIN lists[p] = 1..Len(lists[p])
        /\ \A i \in DOMAIN lists[p] : lists[p][i] \in D /\ lists[p][i] \in L(p)
    BY DEF ForestOf, ListOver, ToSet
  <2>2. ASSUME NEW i \in DOMAIN lists[p]
        PROVE  /\ parts(p)[i] \in Seq(D)
               /\ ToSet(parts(p)[i]) = {lists[p][i]} \cup R(lists[p][i])
               /\ IsInjective(parts(p)[i])
    <3> DEFINE c == lists[p][i]
    <3>1. c \in D /\ c \in A /\ c \in L(p) /\ f[c] \in Seq(D) /\ IsInjective(f[c])
      BY <2>1, <1>3, <1>4, <1>6
    <3>2. parts(p)[i] = <<c>> \o f[c]
      OBVIOUS
    <3> HIDE DEF c, parts
    <3>3. c \notin R(c)
      BY <3>1, <1>2, BelowClosed
    <3>4. /\ <<c>> \o f[c] \in Seq(D)
          /\ ToSet(<<c>> \o f[c]) = {c} \cup ToSet(f[c])
          /\ IsInjective(<<c>> \o f[c])
      BY <3>1, <3>3, ConsList
    <3> QED
      BY <3>2, <3>4 DEF c
  <2>3. parts(p) \in [1..Len(lists[p]) -> Seq(D)] /\ DOMAIN parts(p) = DOMAIN lists[p]
    BY <2>1, <2>2
  <2>4. f[p] = FlattenSeq(parts(p))
    BY <1>1 DEF Unfolded
  <2> HIDE DEF parts
  <2>5. parts(p) \in Seq(Seq(D))
    BY <2>1, <2>3, SeqDef
  <2>6. ASSUME NEW i \in DOMAIN parts(p), NEW j \in DOMAIN parts(p), i # j
        PROVE  ToSet(parts(p)[i]) \cap ToSet(parts(p)[j]) = {}
    <3>1. lists[p][i] # lists[p][j]
      BY <2>1, <2>3, <2>6 DEF IsInjective
    <3>2. lists[p][i] \in L(p) /\ lists[p][j] \in L(p)
      BY <2>1, <2>3
    <3>3. ({lists[p][i]} \cup R(lists[p][i])) \cap ({lists[p][j]} \cup R(lists[p][j])) = {}
      BY <3>1, <3>2, <1>2, BelowClosed
    <3> QED
      BY <2>2, <2>3, <3>3
  <2>7. \A i \in DOMAIN parts(p) : IsInjective(parts(p)[i])
    BY <2>2, <2>3
  <2> DEFINE ss == parts(p)
  <2> HIDE DEF ss
  <2>8. /\ ss \in Seq(Seq(D)) /\ f[p] = FlattenSeq(ss)
        /\ \A i \in DOMAIN ss : IsInjective(ss[i])
        /\ \A i, j \in DOMAIN ss : i # j => ToSet(ss[i]) \cap ToSet(ss[j]) = {}
    BY <2>4, <2>5, <2>6, <2>7 DEF ss
  <2> QED
    BY <2>8, FlattenFacts
<1> HIDE DEF parts
<1>7. \A p \in A : IsInjective(f[p])
  <2> DEFINE B == {p \in A : ~IsInjective(f[p])}
  <2>1. SUFFICES ASSUME B # {} PROVE FALSE
    OBVIOUS
  <2>2. PICK p \in B : L(p) \cap B = {}
    BY <2>1, <1>3
  <2>3. \A c \in L(p) : c \in A
    BY <2>2 DEF ForestOf, ListOver, ToSet
  <2> QED
    BY <2>2, <2>3, <1>6
<1>8. R(Null) = D
  <2>1. R(Null) \subseteq D
    BY <1>3, <1>4 DEF ToSet
  <2> DEFINE B == D \ R(Null)
  <2>2. SUFFICES ASSUME B # {} PROVE FALSE
    BY <2>1
  <2>3. PICK v \in B : \A p \in B : v \notin L(p)
    <3>1. B \in SUBSET D
      OBVIOUS
    <3> HIDE DEF B, L
    <3> QED
      BY <2>2, <3>1, <1>3
  <2>4. PICK q \in A : v \in L(q)
    BY <2>3, <1>3
  <2>5. q = Null \/ q \in R(Null)
    BY <2>3, <2>4, <1>3
  <2>6. L(q) \subseteq R(Null)
    <3>1. CASE q = Null
      BY <3>1, <1>3, <1>5
    <3>2. CASE q \in R(Null)
      <4>1. \A p \in DOMAIN lists : \A x \in ToSet(f[p]) : ToSet(lists[x]) \subseteq ToSet(f[p])
        BY <1>2, BelowClosed
      <4> QED
        BY <3>2, <4>1, <1>3
    <3> QED
      BY <2>5, <3>1, <3>2
  <2> QED
    BY <2>3, <2>4, <2>6
<1> HIDE DEF route
<1>9. route \in Seq(D) /\ IsInjective(route) /\ ToSet(route) = D
  BY <1>1, <1>3, <1>4, <1>7, <1>8
<1>10. Len(route) = Cardinality(D)
  <2>1. route \in [1..Len(route) -> D] /\ Len(route) \in Nat /\ DOMAIN route = 1..Len(route)
    BY <1>9
  <2>2. \A x \in D : \E i \in 1..Len(route) : route[i] = x
    BY <1>9, <2>1 DEF ToSet
  <2>3. route \in Bijection(1..Len(route), D)
    BY <1>9, <2>1, <2>2 DEF Bijection, Injection, Surjection, IsInjective
  <2>4. ExistsBijection(1..Len(route), D)
    BY <2>3 DEF ExistsBijection
  <2> QED
    BY <2>1, <2>4, FS_CountingElements
<1> QED
  BY <1>9, <1>10 DEF ListOver, route

-----------------------------------------------------------------------------
(* Forests made of forests.                                                *)

LEMMA ForestInsert ==
  ASSUME NEW D, NEW lists, ForestOf(D, lists), Null \notin D,
         NEW v, v \notin D \cup {Null}, NEW p \in D \cup {Null},
         NEW list, ListOver(list, D \cup {v}), ToSet(list) = ToSet(lists[p]) \cup {v}
  PROVE  ForestOf(D \cup {v}, With([lists EXCEPT ![p] = list], v, <<>>))
<1> DEFINE E == D \cup {v}
           A == D \cup {Null}
           new == With([lists EXCEPT ![p] = list], v, <<>>)
           L(q) == ToSet(lists[q])
           M(q) == ToSet(new[q])
<1>1. /\ DOMAIN lists = A /\ p \in A
      /\ \A q \in A : lists[q] \in Seq(D) /\ IsInjective(lists[q])
      /\ \A u \in D : \E q \in A : u \in L(q)
      /\ \A q, r \in A : q # r => L(q) \cap L(r) = {}
      /\ \A P \in SUBSET A : P # {} => \E q \in P : L(q) \cap P = {}
      /\ \A P \in SUBSET D : P # {} => \E u \in P : \A q \in P : u \notin L(q)
  BY DEF ForestOf, ListOver
<1>2. \A q \in A : L(q) \subseteq D
  BY <1>1 DEF ToSet
<1>3. /\ DOMAIN new = E \cup {Null}
      /\ new = [q \in DOMAIN new |-> new[q]]
      /\ new[v] = <<>> /\ new[p] = list
      /\ \A q \in A : q # p => new[q] = lists[q]
  BY <1>1 DEF With
<1> HIDE DEF new
<1>4. /\ M(v) = {} /\ M(p) = L(p) \cup {v}
      /\ \A q \in A : q # p => M(q) = L(q)
  <2>1. ToSet(<<>>) = {}
    BY DEF ToSet
  <2> QED
    BY <1>3, <2>1
<1>5. ASSUME NEW q \in E \cup {Null} PROVE ListOver(new[q], E)
  <2>1. CASE q = v
    <3>1. <<>> \in Seq(E) /\ IsInjective(<<>>)
      BY DEF IsInjective
    <3> QED
      BY <2>1, <3>1, <1>3 DEF ListOver
  <2>2. CASE q = p
    BY <2>2, <1>3
  <2>3. CASE q # v /\ q # p
    <3>1. q \in A /\ new[q] = lists[q]
      BY <2>3, <1>3
    <3>2. lists[q] \in Seq(E)
      BY <3>1, <1>1
    <3> QED
      BY <3>1, <3>2, <1>1 DEF ListOver
  <2> QED
    BY <2>1, <2>2, <2>3
<1> HIDE DEF L, M
<1>6. ASSUME NEW u \in E PROVE \E q \in E \cup {Null} : u \in M(q)
  <2>1. CASE u = v
    BY <2>1, <1>1, <1>4
  <2>2. CASE u # v
    <3>1. PICK q \in A : u \in L(q)
      BY <2>2, <1>1
    <3>2. u \in M(q)
      BY <3>1, <1>4
    <3> QED
      BY <3>1, <3>2
  <2> QED
    BY <2>1, <2>2
<1>7. ASSUME NEW q \in E \cup {Null}, NEW r \in E \cup {Null}, q # r
      PROVE  M(q) \cap M(r) = {}
  <2>1. CASE q = v \/ r = v
    BY <2>1, <1>4
  <2>2. CASE q # v /\ r # v
    <3>1. q \in A /\ r \in A /\ v \notin L(q) /\ v \notin L(r)
      BY <2>2, <1>2
    <3>2. L(q) \cap L(r) = {}
      BY <3>1, <1>1, <1>7
    <3> QED
      BY <3>1, <3>2, <1>4, <1>7
  <2> QED
    BY <2>1, <2>2
<1>8. ASSUME NEW P \in SUBSET (E \cup {Null}), P # {}
      PROVE  \E q \in P : M(q) \cap P = {}
  <2>1. CASE v \in P
    BY <2>1, <1>4
  <2>2. CASE v \notin P
    <3>1. PICK q \in P : L(q) \cap P = {}
      BY <2>2, <1>1, <1>8
    <3>2. M(q) \subseteq L(q) \cup {v}
      BY <2>2, <3>1, <1>4
    <3> QED
      BY <2>2, <3>1, <3>2
  <2> QED
    BY <2>1, <2>2
<1>9. ASSUME NEW P \in SUBSET E, P # {}
      PROVE  \E u \in P : \A q \in P : u \notin M(q)
  <2> DEFINE Q == P \ {v}
  <2>1. CASE Q = {}
    <3>1. P = {v}
      BY <2>1, <1>9
    <3> QED
      BY <3>1, <1>4
  <2>2. CASE Q # {}
    <3>1. PICK u \in Q : \A q \in Q : u \notin L(q)
      <4>1. Q \in SUBSET D
        OBVIOUS
      <4> HIDE DEF Q
      <4> QED
        BY <2>2, <4>1, <1>1
    <3>2. ASSUME NEW q \in P PROVE u \notin M(q)
      <4>1. CASE q = v
        BY <4>1, <1>4
      <4>2. CASE q # v
        BY <3>1, <4>2, <1>4
      <4> QED
        BY <4>1, <4>2
    <3> QED
      BY <3>2
  <2> QED
    BY <2>1, <2>2
<1> QED
  BY <1>3, <1>5, <1>6, <1>7, <1>8, <1>9 DEF ForestOf, M, new

LEMMA ForestPermute ==
  ASSUME NEW D, NEW lists, ForestOf(D, lists), NEW p \in D \cup {Null},
         NEW list, ListOver(list, D), ToSet(list) = ToSet(lists[p])
  PROVE  ForestOf(D, [lists EXCEPT ![p] = list])
<1> DEFINE new == [lists EXCEPT ![p] = list]
<1>1. /\ DOMAIN new = DOMAIN lists /\ DOMAIN lists = D \cup {Null}
      /\ new = [q \in DOMAIN new |-> new[q]]
      /\ new[p] = list /\ \A q \in DOMAIN lists : q # p => new[q] = lists[q]
  BY ZenonT(60) DEF ForestOf
<1> HIDE DEF new
<1>2. \A q \in DOMAIN lists : ToSet(new[q]) = ToSet(lists[q])
  BY <1>1
<1>3. \A q \in DOMAIN lists : ListOver(new[q], D)
  BY <1>1 DEF ForestOf
<1>4. /\ \A v \in D : \E q \in DOMAIN new : v \in ToSet(new[q])
      /\ \A q, r \in DOMAIN new : q # r => ToSet(new[q]) \cap ToSet(new[r]) = {}
  <2>1. ASSUME NEW v \in D PROVE \E q \in DOMAIN new : v \in ToSet(new[q])
    <3>1. PICK q \in DOMAIN lists : v \in ToSet(lists[q])
      BY DEF ForestOf
    <3> QED
      BY <3>1, <1>1, <1>2
  <2>2. ASSUME NEW q \in DOMAIN new, NEW r \in DOMAIN new, q # r
        PROVE  ToSet(new[q]) \cap ToSet(new[r]) = {}
    <3>1. ToSet(lists[q]) \cap ToSet(lists[r]) = {}
      BY <1>1, <2>2 DEF ForestOf
    <3> QED
      BY <3>1, <1>1, <1>2
  <2> QED
    BY <2>1, <2>2
<1>5. ASSUME NEW P \in SUBSET DOMAIN new, P # {} PROVE \E q \in P : ToSet(new[q]) \cap P = {}
  <2>1. PICK q \in P : ToSet(lists[q]) \cap P = {}
    BY <1>1, <1>5 DEF ForestOf
  <2> QED
    BY <2>1, <1>1, <1>2
<1>6. ASSUME NEW P \in SUBSET D, P # {}
      PROVE  \E v \in P : \A q \in P : v \notin ToSet(new[q])
  <2>1. PICK v \in P : \A q \in P : v \notin ToSet(lists[q])
    BY <1>6 DEF ForestOf
  <2> QED
    BY <2>1, <1>1, <1>2
<1> QED
  BY <1>1, <1>3, <1>4, <1>5, <1>6 DEF ForestOf, new

-----------------------------------------------------------------------------
(* Versions laid out along a route: pointers and orders are as Rebuilt     *)
(* writes them.                                                            *)

VersionRecord(r) ==
  /\ r = [parent |-> r.parent, previous |-> r.previous, next |-> r.next, order |-> r.order,
          state |-> r.state, isCurrent |-> r.isCurrent]
  /\ r.order \in Int

Records(vs) ==
  /\ vs = [v \in DOMAIN vs |-> vs[v]]
  /\ IsFiniteSet(DOMAIN vs) /\ Null \notin DOMAIN vs
  /\ \A v \in DOMAIN vs : VersionRecord(vs[v])

LaidAlong(vs, lists) == ForestOf(DOMAIN vs, lists) /\ Drawn(vs, lists)

Laid(vs) == Records(vs) /\ LaidAlong(vs, Lists(vs))

\* The orders number the versions along the route.
Ordered(vs) == \A v \in DOMAIN vs : vs[v].order = Position(Traversal(Lists(vs)), v)

\* The same version with other pointers and another order.
Relinked(r, a, b, c, d) ==
  [r EXCEPT !.parent = a, !.previous = b, !.next = c, !.order = d]

LEMMA RecordExcept ==
  ASSUME NEW r, VersionRecord(r), NEW a, NEW b, NEW c, NEW d
  PROVE  Relinked(r, a, b, c, d)
         = [parent |-> a, previous |-> b, next |-> c, order |-> d,
            state |-> r.state, isCurrent |-> r.isCurrent]
<1> DEFINE p == r.parent
           q == r.previous
           n == r.next
           o == r.order
           s == r.state
           i == r.isCurrent
           r1 == [r EXCEPT !.parent = a]
           r2 == [r1 EXCEPT !.previous = b]
           r3 == [r2 EXCEPT !.next = c]
           r4 == [r3 EXCEPT !.order = d]
<1>1. r = [parent |-> p, previous |-> q, next |-> n, order |-> o, state |-> s, isCurrent |-> i]
  BY DEF VersionRecord
<1>2. r4 = Relinked(r, a, b, c, d)
  BY Zenon DEF Relinked
<1> HIDE DEF p, q, n, o, s, i
<1>3. r1 = [parent |-> a, previous |-> q, next |-> n, order |-> o, state |-> s, isCurrent |-> i]
  BY <1>1
<1> HIDE DEF r1
<1>4. r2 = [parent |-> a, previous |-> b, next |-> n, order |-> o, state |-> s, isCurrent |-> i]
  BY <1>3
<1> HIDE DEF r2
<1>5. r3 = [parent |-> a, previous |-> b, next |-> c, order |-> o, state |-> s, isCurrent |-> i]
  BY <1>4
<1> HIDE DEF r3
<1>6. r4 = [parent |-> a, previous |-> b, next |-> c, order |-> d, state |-> s, isCurrent |-> i]
  BY <1>5
<1> HIDE DEF r4
<1>7. Relinked(r, a, b, c, d)
      = [parent |-> a, previous |-> b, next |-> c, order |-> d, state |-> s, isCurrent |-> i]
  BY <1>2, <1>6
<1> QED
  BY <1>7 DEF s, i

LEMMA PositionIs ==
  ASSUME NEW list, IsInjective(list), NEW i \in DOMAIN list
  PROVE  Position(list, list[i]) = i
<1>1. \A j \in DOMAIN list : list[j] = list[i] <=> j = i
  BY DEF IsInjective
<1> QED
  BY <1>1 DEF Position

\* The lists read from versions drawn from a forest are those of the forest.
LEMMA PositionFacts ==
  ASSUME NEW list, NEW v \in ToSet(list)
  PROVE  Position(list, v) \in DOMAIN list /\ list[Position(list, v)] = v
<1>1. \E i \in DOMAIN list : list[i] = v
  BY DEF ToSet
<1> QED
  BY <1>1 DEF Position

LEMMA DrawnLists ==
  ASSUME NEW vs, NEW lists, ForestOf(DOMAIN vs, lists), Drawn(vs, lists),
         Null \notin DOMAIN vs
  PROVE  Lists(vs) = lists
<1>1. DOMAIN lists = DOMAIN vs \cup {Null} /\ lists = [p \in DOMAIN lists |-> lists[p]]
  BY DEF ForestOf
<1>2. \A p \in DOMAIN lists : Siblings(vs, p) = lists[p]
  BY DrawnSiblings
<1> QED
  BY <1>1, <1>2 DEF Lists

LEMMA LaidLists ==
  ASSUME NEW vs, NEW lists, Records(vs), LaidAlong(vs, lists)
  PROVE  Laid(vs) /\ Lists(vs) = lists
BY DrawnLists DEF LaidAlong, Records, Laid

LEMMA RebuiltFacts ==
  ASSUME NEW vs, NEW lists, Records(vs), ForestOf(DOMAIN vs, lists)
  PROVE  LET new == Rebuilt(vs, lists) IN
         /\ DOMAIN new = DOMAIN vs
         /\ Laid(new) /\ Ordered(new) /\ Lists(new) = lists
         /\ \A v \in DOMAIN vs : /\ new[v].state = vs[v].state
                                 /\ new[v].isCurrent = vs[v].isCurrent
<1> DEFINE new == Rebuilt(vs, lists)
           parent(v) == CHOOSE p \in DOMAIN lists : v \in ToSet(lists[p])
           route == Traversal(lists)
           place(v) == Position(lists[parent(v)], v)
           entry(v) ==
             [vs[v] EXCEPT !.parent = parent(v),
                           !.previous = IF place(v) = 1 THEN Null ELSE lists[parent(v)][place(v) - 1],
                           !.next = IF place(v) = Len(lists[parent(v)]) THEN Null
                                    ELSE lists[parent(v)][place(v) + 1],
                           !.order = Position(route, v)]
<1>1. new = [v \in DOMAIN vs |-> entry(v)]
  BY DEF Rebuilt
<1>2. ASSUME NEW v \in DOMAIN vs
      PROVE  entry(v) = [parent |-> parent(v),
                         previous |-> IF place(v) = 1 THEN Null
                                      ELSE lists[parent(v)][place(v) - 1],
                         next |-> IF place(v) = Len(lists[parent(v)]) THEN Null
                                  ELSE lists[parent(v)][place(v) + 1],
                         order |-> Position(route, v),
                         state |-> vs[v].state, isCurrent |-> vs[v].isCurrent]
  <2>1. VersionRecord(vs[v])
    BY DEF Records
  <2> HIDE DEF place, parent, route
  <2> DEFINE b == IF place(v) = 1 THEN Null ELSE lists[parent(v)][place(v) - 1]
             c == IF place(v) = Len(lists[parent(v)]) THEN Null
                  ELSE lists[parent(v)][place(v) + 1]
             d == Position(route, v)
  <2> DEFINE r == vs[v]
             a == parent(v)
  <2>2. entry(v) = Relinked(r, a, b, c, d)
    BY Zenon DEF Relinked
  <2> HIDE DEF a, b, c, d, r, entry
  <2>3. Relinked(r, a, b, c, d)
        = [parent |-> a, previous |-> b, next |-> c, order |-> d,
           state |-> r.state, isCurrent |-> r.isCurrent]
    <3>1. VersionRecord(r)
      BY <2>1 DEF r
    <3> QED
      BY <3>1, RecordExcept
  <2>4. entry(v) = [parent |-> parent(v), previous |-> b, next |-> c, order |-> d,
                    state |-> vs[v].state, isCurrent |-> vs[v].isCurrent]
    BY <2>2, <2>3 DEF a, r
  <2> QED
    BY <2>4 DEF b, c, d
<1> HIDE DEF new, entry
<1>3. /\ DOMAIN new = DOMAIN vs /\ \A v \in DOMAIN vs : new[v] = entry(v)
      /\ new = [v \in DOMAIN new |-> new[v]]
  BY <1>1
<1>4. ASSUME NEW p \in DOMAIN lists, NEW i \in DOMAIN lists[p]
      PROVE  /\ lists[p][i] \in DOMAIN vs
             /\ parent(lists[p][i]) = p /\ place(lists[p][i]) = i
  <2>1. /\ ListOver(lists[p], DOMAIN vs)
        /\ \A q \in DOMAIN lists : q # p => ToSet(lists[p]) \cap ToSet(lists[q]) = {}
    BY SMTT(30) DEF ForestOf
  <2>2. lists[p][i] \in ToSet(lists[p]) /\ lists[p][i] \in DOMAIN vs
    BY <2>1 DEF ToSet, ListOver
  <2>3. parent(lists[p][i]) = p
    BY <2>1, <2>2
  <2> HIDE DEF parent
  <2> QED
    BY <2>1, <2>2, <2>3, PositionIs DEF ListOver
<1> HIDE DEF parent, place
<1>5. ASSUME NEW v \in DOMAIN vs PROVE VersionRecord(new[v])
  <2>1. Position(route, v) \in Int
    <3>1. ListOver(route, DOMAIN vs) /\ ToSet(route) = DOMAIN vs
      <4>1. IsFiniteSet(DOMAIN vs) /\ Null \notin DOMAIN vs
        BY DEF Records
      <4> QED
        BY <4>1, TraversalFacts
    <3> HIDE DEF route
    <3>2. Position(route, v) \in DOMAIN route
      BY <3>1, PositionFacts
    <3> QED
      BY <3>1, <3>2 DEF ListOver
  <2> HIDE DEF route
  <2> QED
    BY <1>2, <1>3, <2>1 DEF VersionRecord
<1>6. Records(new)
  BY <1>3, <1>5 DEF Records
<1>7. Drawn(new, lists)
  <2>1. ASSUME NEW p \in DOMAIN lists, NEW i \in DOMAIN lists[p]
        PROVE  LET v == lists[p][i] IN
               /\ new[v].parent = p
               /\ new[v].previous = IF i = 1 THEN Null ELSE lists[p][i - 1]
               /\ new[v].next = IF i = Len(lists[p]) THEN Null ELSE lists[p][i + 1]
    BY <1>2, <1>3, <1>4
  <2> QED
    BY <2>1 DEF Drawn
<1>8. \A v \in DOMAIN vs : /\ new[v].order = Position(Traversal(lists), v)
                           /\ new[v].state = vs[v].state
                           /\ new[v].isCurrent = vs[v].isCurrent
  BY <1>2, <1>3
<1>9. LaidAlong(new, lists)
  BY <1>3, <1>7 DEF LaidAlong
<1>10. Laid(new) /\ Lists(new) = lists
  BY <1>6, <1>9, LaidLists
<1>11. Ordered(new)
  BY <1>3, <1>8, <1>10 DEF Ordered
<1> QED
  BY <1>3, <1>8, <1>10, <1>11 DEF new

-----------------------------------------------------------------------------
(* What is laid out can be read again.                                     *)

LEMMA ListCardinality ==
  ASSUME NEW D, NEW s, ListOver(s, D)
  PROVE  IsFiniteSet(ToSet(s)) /\ Cardinality(ToSet(s)) = Len(s)
<1>1. s \in Seq(D) /\ Len(s) \in Nat /\ DOMAIN s = 1..Len(s)
  BY DEF ListOver
<1>2. \A i \in 1..Len(s) : s[i] \in ToSet(s)
  BY <1>1 DEF ToSet
<1>3. s = [i \in 1..Len(s) |-> s[i]]
  BY <1>1
<1>4. s \in [1..Len(s) -> ToSet(s)]
  BY <1>2, <1>3
<1>5. \A x \in ToSet(s) : \E i \in 1..Len(s) : s[i] = x
  BY <1>1 DEF ToSet
<1>6. s \in Bijection(1..Len(s), ToSet(s))
  BY <1>1, <1>4, <1>5 DEF Bijection, Injection, Surjection, IsInjective, ListOver
<1>7. ExistsBijection(1..Len(s), ToSet(s))
  BY <1>6 DEF ExistsBijection
<1>8. IsFiniteSet(1..Len(s))
  BY <1>1, FS_Interval
<1>9. IsFiniteSet(ToSet(s))
  BY <1>7, <1>8, FS_Bijection
<1>10. Cardinality(ToSet(s)) = Len(s)
  BY <1>1, <1>7, FS_CountingElements
<1> QED
  BY <1>9, <1>10

\* Every version stands in one place of one list.
LEMMA DrawnPlace ==
  ASSUME NEW vs, NEW lists, ForestOf(DOMAIN vs, lists), Drawn(vs, lists),
         NEW v \in DOMAIN vs
  PROVE  \E p \in DOMAIN lists : \E i \in DOMAIN lists[p] :
           /\ v = lists[p][i] /\ p # v
           /\ vs[v].parent = p
           /\ vs[v].previous = IF i = 1 THEN Null ELSE lists[p][i - 1]
           /\ vs[v].next = IF i = Len(lists[p]) THEN Null ELSE lists[p][i + 1]
<1>1. PICK p \in DOMAIN lists : v \in ToSet(lists[p])
  BY DEF ForestOf
<1>2. PICK i \in DOMAIN lists[p] : v = lists[p][i]
  BY <1>1 DEF ToSet
<1>3. p # v
  <2>1. {p} \in SUBSET DOMAIN lists /\ {p} # {}
    OBVIOUS
  <2>2. PICK q \in {p} : ToSet(lists[q]) \cap {p} = {}
    BY <2>1 DEF ForestOf
  <2> QED
    BY <1>1, <2>2
<1> QED
  BY <1>2, <1>3 DEF Drawn

\* In each version the pointers agree with those of its neighbours.
LEMMA DrawnLinked ==
  ASSUME NEW vs, NEW lists, ForestOf(DOMAIN vs, lists), Drawn(vs, lists),
         Null \notin DOMAIN vs, NEW v \in DOMAIN vs
  PROVE  Linked(vs, v)
<1>1. ForestOf(DOMAIN vs, lists) /\ Drawn(vs, lists) /\ Null \notin DOMAIN vs
  OBVIOUS
<1>2. PICK p \in DOMAIN lists : \E i \in DOMAIN lists[p] :
        /\ v = lists[p][i] /\ p # v
        /\ vs[v].parent = p
        /\ vs[v].previous = IF i = 1 THEN Null ELSE lists[p][i - 1]
        /\ vs[v].next = IF i = Len(lists[p]) THEN Null ELSE lists[p][i + 1]
  BY <1>1, DrawnPlace
<1>3. PICK i \in DOMAIN lists[p] :
        /\ v = lists[p][i] /\ p # v
        /\ vs[v].parent = p
        /\ vs[v].previous = IF i = 1 THEN Null ELSE lists[p][i - 1]
        /\ vs[v].next = IF i = Len(lists[p]) THEN Null ELSE lists[p][i + 1]
  BY <1>2
<1>4. /\ Len(lists[p]) \in Nat /\ DOMAIN lists[p] = 1..Len(lists[p])
      /\ IsInjective(lists[p])
      /\ p \in DOMAIN vs \cup {Null}
  BY SMTT(30), <1>1 DEF ForestOf, ListOver
<1>5. Children(vs, p) = ToSet(lists[p])
  BY <1>1, DrawnChildren
<1>6. \A j \in 1..Len(lists[p]) :
        /\ lists[p][j] \in Children(vs, p)
        /\ vs[lists[p][j]].previous = IF j = 1 THEN Null ELSE lists[p][j - 1]
        /\ vs[lists[p][j]].next = IF j = Len(lists[p]) THEN Null ELSE lists[p][j + 1]
        /\ lists[p][j] = v => j = i
  BY ZenonT(60), <1>1, <1>3, <1>4, <1>5 DEF Drawn, ToSet, IsInjective
<1>7. ASSUME vs[v].previous # Null
      PROVE  /\ vs[v].previous \in Children(vs, p) \ {v}
             /\ vs[vs[v].previous].next = v
  <2>1. i - 1 \in 1..Len(lists[p]) /\ i - 1 # Len(lists[p]) /\ (i - 1) + 1 = i /\ i - 1 # i
    BY <1>3, <1>4, <1>7
  <2>2. vs[v].previous = lists[p][i - 1]
    BY <1>3, <1>7
  <2>3. lists[p][i - 1] \in Children(vs, p) /\ lists[p][i - 1] # v
    BY <1>6, <2>1
  <2>4. vs[lists[p][i - 1]].next = lists[p][(i - 1) + 1]
    BY <1>6, <2>1
  <2> QED
    BY <1>3, <2>1, <2>2, <2>3, <2>4
<1>8. ASSUME vs[v].next # Null
      PROVE  /\ vs[v].next \in Children(vs, p) \ {v}
             /\ vs[vs[v].next].previous = v
  <2>1. i + 1 \in 1..Len(lists[p]) /\ i + 1 # 1 /\ (i + 1) - 1 = i /\ i + 1 # i
    BY <1>3, <1>4, <1>8
  <2>2. vs[v].next = lists[p][i + 1]
    BY <1>3, <1>8
  <2>3. lists[p][i + 1] \in Children(vs, p) /\ lists[p][i + 1] # v
    BY <1>6, <2>1
  <2>4. vs[lists[p][i + 1]].previous = lists[p][(i + 1) - 1]
    BY <1>6, <2>1
  <2> QED
    BY <1>3, <2>1, <2>2, <2>3, <2>4
<1> QED
  BY <1>3, <1>4, <1>7, <1>8 DEF Linked

\* buildOrderedTree reads whatever is drawn from a forest.
LEMMA DrawnReadable ==
  ASSUME NEW vs, NEW lists, ForestOf(DOMAIN vs, lists), Drawn(vs, lists),
         Null \notin DOMAIN vs, IsFiniteSet(DOMAIN vs)
  PROVE  Readable(vs)
<1>1. /\ ForestOf(DOMAIN vs, lists) /\ Drawn(vs, lists)
      /\ Null \notin DOMAIN vs /\ IsFiniteSet(DOMAIN vs)
  OBVIOUS
<1>2. ASSUME NEW p \in DOMAIN vs \cup {Null}, Children(vs, p) # {}
      PROVE  /\ Cardinality({v \in Children(vs, p) : vs[v].previous = Null}) = 1
             /\ Len(Siblings(vs, p)) = Cardinality(Children(vs, p))
  <2>1. p \in DOMAIN lists /\ ListOver(lists[p], DOMAIN vs)
    BY <1>1 DEF ForestOf
  <2>2. Children(vs, p) = ToSet(lists[p]) /\ Siblings(vs, p) = lists[p]
    BY <1>1, <2>1, DrawnChildren, DrawnSiblings
  <2>3. Len(Siblings(vs, p)) = Cardinality(Children(vs, p))
    BY <2>1, <2>2, ListCardinality
  <2>4. /\ Len(lists[p]) \in Nat /\ DOMAIN lists[p] = 1..Len(lists[p])
        /\ 1 \in DOMAIN lists[p]
    BY <1>2, <2>1, <2>2 DEF ListOver, ToSet
  <2>5. \A i \in 1..Len(lists[p]) : /\ lists[p][i] \in DOMAIN vs
                                    /\ i - 1 \in Int
                                    /\ i # 1 => i - 1 \in 1..Len(lists[p])
    BY <2>1, <2>4 DEF ListOver
  <2>6. \A i \in 1..Len(lists[p]) : vs[lists[p][i]].previous = Null <=> i = 1
    BY <1>1, <2>1, <2>4, <2>5 DEF Drawn
  <2>7. {v \in Children(vs, p) : vs[v].previous = Null} = {lists[p][1]}
    BY <2>2, <2>4, <2>6 DEF ToSet
  <2>8. Cardinality({lists[p][1]}) = 1
    BY FS_Singleton
  <2> QED
    BY <2>3, <2>7, <2>8
<1>3. Len(Traversal(lists)) = Cardinality(DOMAIN vs)
  BY <1>1, TraversalFacts
<1>4. \A v \in DOMAIN vs : Linked(vs, v)
  BY DrawnLinked
<1>5. Lists(vs) = lists
  BY DrawnLists
<1> QED
  BY <1>2, <1>3, <1>4, <1>5 DEF Readable

LEMMA LaidLinked ==
  ASSUME NEW vs, Laid(vs), NEW v \in DOMAIN vs
  PROVE  Linked(vs, v)
BY DrawnLinked DEF Laid, LaidAlong, Records

LEMMA LaidReadable ==
  ASSUME NEW vs, Laid(vs)
  PROVE  Readable(vs)
BY DrawnReadable DEF Laid, LaidAlong, Records

\* The route is all versions, one after the other, each numbered by its place.
LEMMA LaidOrders ==
  ASSUME NEW vs, Laid(vs), Ordered(vs)
  PROVE  LET route == Traversal(Lists(vs)) IN
         /\ ListOver(route, DOMAIN vs) /\ ToSet(route) = DOMAIN vs
         /\ Len(route) = Cardinality(DOMAIN vs)
         /\ \A i \in DOMAIN route : vs[route[i]].order = i
         /\ \A v \in DOMAIN vs : vs[v].order \in 1..Cardinality(DOMAIN vs)
<1> DEFINE route == Traversal(Lists(vs))
<1>1. /\ ForestOf(DOMAIN vs, Lists(vs))
      /\ Null \notin DOMAIN vs /\ IsFiniteSet(DOMAIN vs)
      /\ \A v \in DOMAIN vs : vs[v].order = Position(route, v)
  BY DEF Laid, LaidAlong, Records, Ordered
<1>2. /\ ListOver(route, DOMAIN vs) /\ ToSet(route) = DOMAIN vs
      /\ Len(route) = Cardinality(DOMAIN vs)
  BY <1>1, TraversalFacts
<1> HIDE DEF route
<1>3. ASSUME NEW i \in DOMAIN route PROVE vs[route[i]].order = i
  <2>1. route[i] \in DOMAIN vs
    BY <1>2 DEF ToSet
  <2>2. Position(route, route[i]) = i
    BY <1>2, PositionIs DEF ListOver
  <2> QED
    BY <1>1, <2>1, <2>2
<1>4. ASSUME NEW v \in DOMAIN vs PROVE vs[v].order \in 1..Cardinality(DOMAIN vs)
  <2>1. PICK i \in DOMAIN route : v = route[i]
    BY <1>2 DEF ToSet
  <2> QED
    BY <1>2, <1>3, <2>1 DEF ListOver
<1> QED
  BY <1>2, <1>3, <1>4 DEF route

-----------------------------------------------------------------------------
(* Placing a version.                                                      *)

Named(place) == {place.previous, place.next} \ {Null}

\* The parent and the neighbours of a place are there.
Placed(vs, place) ==
  /\ place.parent \in DOMAIN vs \cup {Null}
  /\ Named(place) \subseteq ToSet(Siblings(vs, place.parent))

\* A version goes somewhere in the list, wherever it is placed.
LEMMA InsertSiblingIs ==
  ASSUME NEW D, NEW list, ListOver(list, D), NEW place, Named(place) \subseteq ToSet(list),
         NEW v
  PROVE  \E i \in 1..(Len(list) + 1) : InsertSibling(list, v, place) = InsertAt(list, i, v)
<1> DEFINE i == IF place.previous # Null THEN Position(list, place.previous) + 1
                ELSE IF place.next # Null THEN Position(list, place.next)
                ELSE Len(list) + 1
<1>1. Len(list) \in Nat /\ DOMAIN list = 1..Len(list)
  BY DEF ListOver
<1>2. \A u \in Named(place) : Position(list, u) \in 1..Len(list)
  BY <1>1, PositionFacts
<1>3. i \in 1..(Len(list) + 1)
  BY <1>1, <1>2 DEF Named
<1>4. InsertSibling(list, v, place) = InsertAt(list, i, v)
  BY DEF InsertSibling
<1> HIDE DEF i
<1> QED
  BY <1>3, <1>4

LEMMA InsertSiblingFacts ==
  ASSUME NEW D, NEW list, ListOver(list, D), NEW place, Named(place) \subseteq ToSet(list),
         NEW v, v \notin ToSet(list)
  PROVE  /\ ListOver(InsertSibling(list, v, place), D \cup {v})
         /\ ToSet(InsertSibling(list, v, place)) = ToSet(list) \cup {v}
<1>1. PICK i \in 1..(Len(list) + 1) : InsertSibling(list, v, place) = InsertAt(list, i, v)
  BY InsertSiblingIs
<1>2. /\ ListOver(InsertAt(list, i, v), D \cup {v})
      /\ ToSet(InsertAt(list, i, v)) = ToSet(list) \cup {v}
  BY ZenonT(60), InsertAtList
<1> QED
  BY <1>1, <1>2

LEMMA WithFacts ==
  ASSUME NEW f, NEW x, NEW y
  PROVE  /\ DOMAIN With(f, x, y) = DOMAIN f \cup {x}
         /\ With(f, x, y)[x] = y
         /\ \A z \in DOMAIN f \ {x} : With(f, x, y)[z] = f[z]
BY DEF With

\* What a new version is, and what the others stay.
Beyond(new, vs, v) ==
  /\ DOMAIN new = DOMAIN vs \cup {v}
  /\ Laid(new) /\ Ordered(new)
  /\ new[v].state = "wait" /\ new[v].isCurrent = FALSE
  /\ \A u \in DOMAIN vs : new[u].state = vs[u].state /\ new[u].isCurrent = vs[u].isCurrent

LEMMA AddedLaid ==
  ASSUME NEW vs, Laid(vs), NEW place, Placed(vs, place), NEW v, v \notin DOMAIN vs \cup {Null}
  PROVE  /\ Beyond(Added(vs, v, place), vs, v)
         /\ Lists(Added(vs, v, place))
            = With([Lists(vs) EXCEPT ![place.parent] = InsertSibling(@, v, place)], v, <<>>)
<1> DEFINE p == place.parent
           D == DOMAIN vs
           lists == Lists(vs)
           old == lists[p]
           list == InsertSibling(old, v, place)
           mid == With(vs, v, Created)
           moved == With([lists EXCEPT ![p] = list], v, <<>>)
           new == Rebuilt(mid, moved)
<1>1. /\ ForestOf(D, lists) /\ Null \notin D /\ IsFiniteSet(D)
      /\ \A u \in D : VersionRecord(vs[u])
  BY DEF Laid, LaidAlong, Records
<1>2. p \in D \cup {Null} /\ p \in DOMAIN lists /\ lists[p] = Siblings(vs, p)
  BY DEF Placed, Lists
<1>3. /\ ListOver(old, D) /\ Named(place) \subseteq ToSet(old)
      /\ v \notin ToSet(old)
  BY <1>1, <1>2 DEF ForestOf, Placed, ListOver, ToSet
<1> HIDE DEF p, lists, old
<1>4. ListOver(list, D \cup {v}) /\ ToSet(list) = ToSet(old) \cup {v}
  <2> HIDE DEF D
  <2>1. ListOver(old, D)
    BY <1>3
  <2>2. Named(place) \subseteq ToSet(old)
    BY <1>3
  <2>3. v \notin ToSet(old)
    BY <1>3
  <2> QED
    BY <2>1, <2>2, <2>3, InsertSiblingFacts
<1> HIDE DEF list
<1>5. ForestOf(D \cup {v}, moved)
  BY <1>1, <1>2, <1>4, ForestInsert DEF old
<1>6. /\ DOMAIN mid = D \cup {v} /\ mid[v] = Created
      /\ \A u \in D : mid[u] = vs[u]
      /\ mid = [u \in DOMAIN mid |-> mid[u]]
  <2>1. \A u \in D : u # v
    OBVIOUS
  <2> HIDE DEF D
  <2>2. D = DOMAIN vs
    BY DEF D
  <2>3. mid = [z \in D \cup {v} |-> IF z = v THEN Created ELSE vs[z]]
    BY <2>2 DEF With
  <2> HIDE DEF mid
  <2> QED
    BY <2>1, <2>3
<1>7. Records(mid)
  <2>1. IsFiniteSet(D \cup {v})
    BY <1>1, FS_AddElement
  <2>2. VersionRecord(Created)
    BY DEF Created, VersionRecord
  <2> HIDE DEF mid
  <2> QED
    BY <1>1, <1>6, <2>1, <2>2 DEF Records
<1> HIDE DEF mid, moved
<1>8. /\ DOMAIN new = DOMAIN mid /\ Laid(new) /\ Ordered(new) /\ Lists(new) = moved
      /\ \A u \in DOMAIN mid : /\ new[u].state = mid[u].state
                               /\ new[u].isCurrent = mid[u].isCurrent
  BY <1>5, <1>6, <1>7, RebuiltFacts
<1>9. Added(vs, v, place) = new
  BY DEF Added, new, mid, moved, lists, list, old, p
<1>10. moved = With([Lists(vs) EXCEPT ![place.parent] = InsertSibling(@, v, place)], v, <<>>)
  BY DEF moved, lists, list, old, p
<1> HIDE DEF new
<1>11. Beyond(new, vs, v)
  BY <1>6, <1>8 DEF Beyond, Created
<1> QED
  BY <1>8, <1>9, <1>10, <1>11

LEMMA MovedLaid ==
  ASSUME NEW vs, Laid(vs), NEW v \in DOMAIN vs, NEW place, place.parent = vs[v].parent,
         Named(place) \subseteq ToSet(Without(Siblings(vs, place.parent), v))
  PROVE  LET new == Moved(vs, v, place) IN
         /\ DOMAIN new = DOMAIN vs
         /\ Laid(new) /\ Ordered(new)
         /\ Lists(new) = [Lists(vs) EXCEPT
                           ![place.parent] = InsertSibling(Without(@, v), v, place)]
         /\ \A u \in DOMAIN vs : new[u].state = vs[u].state /\ new[u].isCurrent = vs[u].isCurrent
<1> DEFINE p == place.parent
           D == DOMAIN vs
           lists == Lists(vs)
           rest == Without(lists[p], v)
           list == InsertSibling(rest, v, place)
           moved == [lists EXCEPT ![p] = list]
<1>1. /\ Records(vs) /\ ForestOf(D, lists) /\ Drawn(vs, lists)
      /\ DOMAIN lists = D \cup {Null}
      /\ \A q \in D \cup {Null} : lists[q] = Siblings(vs, q)
  BY DEF Laid, LaidAlong, Lists
<1>2. p \in D \cup {Null} /\ v \in Children(vs, p)
  <2>1. Linked(vs, v)
    BY LaidLinked
  <2> QED
    BY <2>1 DEF Linked, Children
<1> HIDE DEF p, lists
<1>3. v \in ToSet(lists[p]) /\ ListOver(lists[p], D)
  <2>1. Children(vs, p) = ToSet(lists[p])
    BY <1>1, <1>2, DrawnChildren
  <2> QED
    BY <1>1, <1>2, <2>1 DEF ForestOf
<1>4. ListOver(rest, D) /\ ToSet(rest) = ToSet(lists[p]) \ {v}
  <2> DEFINE i == Position(lists[p], v)
  <2>1. i \in DOMAIN lists[p] /\ lists[p][i] = v
    BY <1>3, PositionFacts
  <2>2. rest = RemoveAt(lists[p], i)
    BY DEF Without
  <2> HIDE DEF i, rest
  <2> QED
    BY <1>3, <2>1, <2>2, RemoveAtList
<1>5. Named(place) \subseteq ToSet(rest)
  BY <1>1, <1>2 DEF p
<1> HIDE DEF rest
<1>6. ListOver(list, D) /\ ToSet(list) = ToSet(lists[p])
  <2>1. ListOver(list, D \cup {v}) /\ ToSet(list) = ToSet(rest) \cup {v}
    BY <1>4, <1>5, InsertSiblingFacts
  <2>2. D \cup {v} = D
    OBVIOUS
  <2> QED
    BY <1>3, <1>4, <2>1, <2>2
<1> HIDE DEF list
<1>7. ForestOf(D, moved)
  BY <1>1, <1>2, <1>6, ForestPermute
<1>8. moved = [Lists(vs) EXCEPT ![place.parent] = InsertSibling(Without(@, v), v, place)]
  BY DEF moved, lists, list, rest, p
<1>9. Moved(vs, v, place) = Rebuilt(vs, moved)
  BY <1>8 DEF Moved
<1> HIDE DEF moved
<1>10. LET new == Rebuilt(vs, moved) IN
       /\ DOMAIN new = DOMAIN vs
       /\ Laid(new) /\ Ordered(new) /\ Lists(new) = moved
       /\ \A u \in DOMAIN vs : /\ new[u].state = vs[u].state
                               /\ new[u].isCurrent = vs[u].isCurrent
  BY <1>1, <1>7, RebuiltFacts
<1> QED
  BY <1>8, <1>9, <1>10

\* The places the four requests name are places of the tree.
Between(place, list, parent, previous, next) ==
  /\ place = [parent |-> parent, previous |-> previous, next |-> next]
  /\ Named(place) \subseteq ToSet(list) /\ Named(place) # {}

LEMMA BesidePlace ==
  ASSUME NEW vs, NEW list, NEW parent, NEW previous, NEW next, NEW successor,
         NEW place \in Beside(vs, list, parent, previous, next, successor)
  PROVE  Between(place, list, parent, previous, next)
<1> DEFINE allowed ==
             /\ {previous, next} # {Null}
             /\ {previous, next} \ {Null} \subseteq ToSet(list)
             /\ \/ Mutable(vs, previous)
                \/ successor /\ next = Null /\ parent = Null /\ AllowsAppend(vs, previous)
             /\ Mutable(vs, next)
             /\ previous # Null /\ next # Null =>
                  Position(list, previous) + 1 = Position(list, next)
<1>1. Beside(vs, list, parent, previous, next, successor)
      = IF allowed THEN At(parent, previous, next) ELSE Nowhere
  BY DEF Beside
<1>2. allowed => /\ {previous, next} \ {Null} \subseteq ToSet(list)
                 /\ {previous, next} # {Null}
  OBVIOUS
<1> HIDE DEF allowed
<1>3. allowed /\ place \in At(parent, previous, next)
  BY <1>1 DEF Nowhere
<1>4. place = [parent |-> parent, previous |-> previous, next |-> next]
  BY <1>3 DEF At
<1> QED
  BY <1>2, <1>3, <1>4 DEF Named, Between

LEMMA LastOfMember ==
  ASSUME NEW D, NEW list, ListOver(list, D)
  PROVE  LastOf(list) = Null \/ LastOf(list) \in ToSet(list)
<1>1. list \in Seq(D) /\ Len(list) \in Nat /\ DOMAIN list = 1..Len(list)
  BY DEF ListOver
<1>2. CASE list = <<>>
  BY <1>2 DEF LastOf
<1>3. CASE list # <<>>
  <2>1. Len(list) \in DOMAIN list
    BY <1>1, <1>3
  <2>2. LastOf(list) = list[Len(list)]
    BY <1>3 DEF LastOf, Last
  <2> QED
    BY <2>1, <2>2 DEF ToSet
<1> QED
  BY <1>2, <1>3

LEMMA SiblingsOver ==
  ASSUME NEW vs, Laid(vs), NEW p \in DOMAIN vs \cup {Null}
  PROVE  /\ ListOver(Siblings(vs, p), DOMAIN vs)
         /\ ToSet(Siblings(vs, p)) = Children(vs, p)
<1>1. /\ ForestOf(DOMAIN vs, Lists(vs)) /\ Drawn(vs, Lists(vs))
      /\ p \in DOMAIN Lists(vs) /\ Lists(vs)[p] = Siblings(vs, p)
  BY DEF Laid, LaidAlong, Lists
<1>2. Children(vs, p) = ToSet(Lists(vs)[p])
  BY <1>1, DrawnChildren
<1> QED
  BY <1>1, <1>2 DEF ForestOf

LEMMA AtLastPlaced ==
  ASSUME NEW vs, Laid(vs), NEW p \in DOMAIN vs \cup {Null},
         NEW place \in At(p, LastOf(Siblings(vs, p)), Null)
  PROVE  Placed(vs, place)
<1>1. place = [parent |-> p, previous |-> LastOf(Siblings(vs, p)), next |-> Null]
  BY DEF At
<1>2. \/ LastOf(Siblings(vs, p)) = Null
      \/ LastOf(Siblings(vs, p)) \in ToSet(Siblings(vs, p))
  BY SiblingsOver, LastOfMember
<1> QED
  BY <1>1, <1>2 DEF Placed, Named

LEMMA ToCreatePlaced ==
  ASSUME NEW vs, Laid(vs), NEW place \in ToCreate(vs)
  PROVE  Placed(vs, place) /\ place.parent = Null
<1>1. place \in At(Null, LastOf(Siblings(vs, Null)), Null)
  BY DEF ToCreate, Nowhere
<1> QED
  BY <1>1, AtLastPlaced DEF At

LEMMA ToInsertPlaced ==
  ASSUME NEW vs, Laid(vs), NEW previous \in DOMAIN vs \cup {Null},
         NEW next \in DOMAIN vs \cup {Null}, NEW place \in ToInsert(vs, previous, next)
  PROVE  /\ Placed(vs, place) /\ Named(place) # {}
         /\ place.previous = previous
         /\ previous # Null => place.parent = vs[previous].parent
<1> DEFINE parent == IF previous # Null THEN vs[previous].parent
                     ELSE IF next # Null THEN vs[next].parent ELSE Null
<1>1. parent \in DOMAIN vs \cup {Null}
  BY LaidLinked DEF Linked
<1>2. place \in Beside(vs, Siblings(vs, parent), parent, previous, next, TRUE)
  BY DEF ToInsert
<1> HIDE DEF parent
<1>3. Between(place, Siblings(vs, parent), parent, previous, next)
  BY <1>2, BesidePlace
<1>4. previous # Null => parent = vs[previous].parent
  BY DEF parent
<1> QED
  BY <1>1, <1>3, <1>4 DEF Placed, Between

LEMMA ToAddChildPlaced ==
  ASSUME NEW vs, Laid(vs), NEW parent \in DOMAIN vs \cup {Null}, NEW previous, NEW next,
         NEW place \in ToAddChild(vs, parent, previous, next)
  PROVE  /\ Placed(vs, place) /\ place.parent = parent
         /\ previous # Null => place.previous = previous
<1>1. \/ place \in Beside(vs, Siblings(vs, parent), parent, previous, next, FALSE)
      \/ /\ place \in At(parent, LastOf(Siblings(vs, parent)), Null)
         /\ previous = Null
  <2>1. {previous, next} = {Null} => previous = Null
    OBVIOUS
  <2> QED
    BY <2>1 DEF ToAddChild, Nowhere
<1>2. CASE place \in Beside(vs, Siblings(vs, parent), parent, previous, next, FALSE)
  <2>1. Between(place, Siblings(vs, parent), parent, previous, next)
    BY <1>2, BesidePlace
  <2> QED
    BY <2>1 DEF Placed, Between
<1>3. CASE /\ place \in At(parent, LastOf(Siblings(vs, parent)), Null)
           /\ previous = Null
  BY <1>3, AtLastPlaced DEF At
<1> QED
  BY <1>1, <1>2, <1>3

LEMMA ToReorderPlaced ==
  ASSUME NEW vs, NEW v, NEW previous, NEW next, NEW place \in ToReorder(vs, v, previous, next)
  PROVE  /\ place.parent = vs[v].parent
         /\ Named(place) \subseteq ToSet(Without(Siblings(vs, place.parent), v))
<1>1. place \in Beside(vs, Without(Siblings(vs, vs[v].parent), v), vs[v].parent,
                       previous, next, FALSE)
  BY DEF ToReorder, Nowhere
<1>2. Between(place, Without(Siblings(vs, vs[v].parent), v), vs[v].parent, previous, next)
  BY <1>1, BesidePlace
<1> QED
  BY <1>2 DEF Between

-----------------------------------------------------------------------------
(* What stays when only the states and the marks of versions change.       *)

Alike(x, r) ==
  /\ VersionRecord(x)
  /\ x.parent = r.parent /\ x.previous = r.previous /\ x.next = r.next /\ x.order = r.order

Stays(new, vs) ==
  /\ DOMAIN new = DOMAIN vs /\ new = [v \in DOMAIN new |-> new[v]]
  /\ \A v \in DOMAIN vs : Alike(new[v], vs[v])

LEMMA StaysLaid ==
  ASSUME NEW vs, Laid(vs), NEW new, Stays(new, vs)
  PROVE  /\ Laid(new) /\ Lists(new) = Lists(vs)
         /\ Ordered(vs) => Ordered(new)
<1> DEFINE lists == Lists(vs)
<1>1. Records(vs) /\ ForestOf(DOMAIN vs, lists) /\ Drawn(vs, lists)
  BY DEF Laid, LaidAlong
<1> HIDE DEF lists
<1>2. Records(new)
  BY <1>1 DEF Records, Stays, Alike
<1>3. Drawn(new, lists)
  <2>1. ASSUME NEW p \in DOMAIN lists, NEW i \in DOMAIN lists[p]
        PROVE  LET v == lists[p][i] IN
               /\ new[v].parent = p
               /\ new[v].previous = IF i = 1 THEN Null ELSE lists[p][i - 1]
               /\ new[v].next = IF i = Len(lists[p]) THEN Null ELSE lists[p][i + 1]
    <3>1. lists[p][i] \in DOMAIN vs
      BY <1>1 DEF ForestOf, ListOver
    <3>2. Alike(new[lists[p][i]], vs[lists[p][i]])
      BY <3>1 DEF Stays
    <3> QED
      BY <1>1, <3>2 DEF Drawn, Alike
  <2> QED
    BY <2>1 DEF Drawn
<1>4. DOMAIN new = DOMAIN vs /\ \A v \in DOMAIN vs : new[v].order = vs[v].order
  BY <1>1 DEF Stays, Alike
<1>5. LaidAlong(new, lists)
  BY <1>1, <1>3, <1>4 DEF LaidAlong
<1>6. Laid(new) /\ Lists(new) = lists
  BY <1>2, <1>5, LaidLists
<1>7. Ordered(vs) => Ordered(new)
  BY <1>4, <1>6 DEF Ordered, lists
<1> QED
  BY <1>6, <1>7 DEF lists

InState(r, s) == [r EXCEPT !.state = s]
Marked(r, c) == [r EXCEPT !.isCurrent = c]
Left(r, c, s) == [r EXCEPT !.isCurrent = c, !.state = s]

LEMMA RecordMarked ==
  ASSUME NEW r, VersionRecord(r), NEW s, NEW c
  PROVE  /\ Alike(r, r)
         /\ Alike(InState(r, s), r)
         /\ InState(r, s).state = s /\ InState(r, s).isCurrent = r.isCurrent
         /\ Alike(Marked(r, c), r)
         /\ Marked(r, c).state = r.state /\ Marked(r, c).isCurrent = c
         /\ Alike(Left(r, c, s), r)
         /\ Left(r, c, s).state = s /\ Left(r, c, s).isCurrent = c
<1> DEFINE p == r.parent
           q == r.previous
           n == r.next
           o == r.order
           a == [r EXCEPT !.isCurrent = c]
           b == [r EXCEPT !.state = s]
           e == [a EXCEPT !.state = s]
<1>1. \E x, y : r = [parent |-> p, previous |-> q, next |-> n, order |-> o,
                     state |-> x, isCurrent |-> y]
  BY DEF VersionRecord
<1>2. e = Left(r, c, s) /\ a = Marked(r, c) /\ b = InState(r, s)
  BY Zenon DEF Left, Marked, InState
<1>3. PICK x, y : r = [parent |-> p, previous |-> q, next |-> n, order |-> o,
                       state |-> x, isCurrent |-> y]
  BY <1>1
<1>4. Alike(r, r)
  BY DEF Alike
<1> HIDE DEF p, q, n, o
<1>5. b = [parent |-> p, previous |-> q, next |-> n, order |-> o, state |-> s, isCurrent |-> y]
  BY <1>3
<1>6. a = [parent |-> p, previous |-> q, next |-> n, order |-> o, state |-> x, isCurrent |-> c]
  BY <1>3
<1> HIDE DEF a, b
<1>7. e = [parent |-> p, previous |-> q, next |-> n, order |-> o, state |-> s, isCurrent |-> c]
  BY <1>6
<1> HIDE DEF e
<1>8. /\ Alike(a, r) /\ a.state = r.state /\ a.isCurrent = c
  BY <1>3, <1>6 DEF Alike, VersionRecord
<1>9. /\ Alike(b, r) /\ b.state = s /\ b.isCurrent = r.isCurrent
  BY <1>3, <1>5 DEF Alike, VersionRecord
<1>10. /\ Alike(e, r) /\ e.state = s /\ e.isCurrent = c
  BY <1>3, <1>7 DEF Alike, VersionRecord
<1> QED
  BY <1>2, <1>4, <1>8, <1>9, <1>10

-----------------------------------------------------------------------------
(* A run of versions in one place of a list.                               *)

Spliced(list, i, run) == SubSeq(list, 1, i) \o run \o SubSeq(list, i + 1, Len(list))

\* q has the members of s, and from i on those of r.
HasRun(q, s, r, i) ==
  /\ Len(q) = Len(s) + Len(r)
  /\ \A j \in 1..(Len(s) + Len(r)) :
       /\ j <= i => q[j] = s[j]
       /\ j > i /\ j <= i + Len(r) => q[j] = r[j - i]
       /\ j > i + Len(r) => q[j] = s[j - Len(r)]

LEMMA SplicedFacts ==
  ASSUME NEW D, NEW s \in Seq(D), NEW r \in Seq(D), NEW i \in 0..Len(s)
  PROVE  Spliced(s, i, r) \in Seq(D) /\ HasRun(Spliced(s, i, r), s, r, i)
<1> DEFINE a == SubSeq(s, 1, i)
           b == SubSeq(s, i + 1, Len(s))
           c == a \o r
<1>1. /\ Len(s) \in Nat /\ DOMAIN s = 1..Len(s) /\ \A j \in 1..Len(s) : s[j] \in D
      /\ Len(r) \in Nat
  OBVIOUS
<1>2. /\ a \in Seq(D) /\ Len(a) = i
      /\ \A j \in 1..i : a[j] = s[j]
  <2>1. \A j \in 1..i : s[j] \in D
    BY <1>1
  <2>2. /\ a \in Seq(D) /\ Len(a) = IF 1 <= i THEN i - 1 + 1 ELSE 0
        /\ \A j \in 1..(i - 1 + 1) : a[j] = s[1 + j - 1]
    BY <2>1, SubSeqProperties, i \in Int, 1 \in Int
  <2> HIDE DEF a
  <2> QED
    BY <2>2, <1>1
<1>3. /\ b \in Seq(D) /\ Len(b) = Len(s) - i
      /\ \A j \in 1..(Len(s) - i) : b[j] = s[i + j]
  <2>1. \A j \in (i + 1)..Len(s) : s[j] \in D
    BY <1>1
  <2>2. /\ b \in Seq(D) /\ Len(b) = IF i + 1 <= Len(s) THEN Len(s) - (i + 1) + 1 ELSE 0
        /\ \A j \in 1..(Len(s) - (i + 1) + 1) : b[j] = s[(i + 1) + j - 1]
    BY <2>1, SubSeqProperties, i + 1 \in Int, Len(s) \in Int
  <2> HIDE DEF b
  <2>3. ASSUME NEW j \in 1..(Len(s) - i) PROVE b[j] = s[i + j]
    <3>1. j \in 1..(Len(s) - (i + 1) + 1) /\ (i + 1) + j - 1 = i + j
      BY <1>1
    <3>2. b[j] = s[(i + 1) + j - 1]
      BY <2>2, <3>1
    <3> QED
      BY <3>1, <3>2
  <2>4. Len(b) = Len(s) - i
    <3>1. Len(b) = IF i + 1 <= Len(s) THEN Len(s) - (i + 1) + 1 ELSE 0
      BY <2>2
    <3> DEFINE n == Len(s)
    <3>2. n \in Nat /\ i \in 0..n
      BY <1>1
    <3>3. Len(b) = IF i + 1 <= n THEN n - (i + 1) + 1 ELSE 0
      BY <3>1
    <3> HIDE DEF n
    <3>4. Len(b) = n - i
      BY <3>2, <3>3
    <3> QED
      BY <3>4 DEF n
  <2> QED
    BY <2>2, <2>3, <2>4
<1> HIDE DEF a, b
<1>4. /\ c \in Seq(D) /\ Len(c) = i + Len(r)
      /\ \A j \in 1..(i + Len(r)) : c[j] = IF j <= i THEN a[j] ELSE r[j - i]
  BY <1>2, ConcatProperties
<1> HIDE DEF c
<1> DEFINE q == c \o b
<1>5. /\ q \in Seq(D) /\ Len(q) = Len(c) + Len(b)
      /\ \A j \in 1..(Len(c) + Len(b)) : q[j] = IF j <= Len(c) THEN c[j] ELSE b[j - Len(c)]
  BY <1>3, <1>4, ConcatProperties
<1>6. Len(c) + Len(b) = Len(s) + Len(r)
  BY <1>1, <1>3, <1>4
<1>7. Spliced(s, i, r) = q
  BY DEF Spliced, a, b, c
<1> HIDE DEF q
<1>8. ASSUME NEW j \in 1..(Len(s) + Len(r))
      PROVE  /\ j <= i => q[j] = s[j]
             /\ j > i /\ j <= i + Len(r) => q[j] = r[j - i]
             /\ j > i + Len(r) => q[j] = s[j - Len(r)]
  <2>1. CASE j <= i
    BY SMTT(30), <2>1, <1>1, <1>2, <1>4, <1>5, <1>6
  <2>2. CASE j > i /\ j <= i + Len(r)
    BY SMTT(30), <2>2, <1>1, <1>4, <1>5, <1>6
  <2>3. CASE j > i + Len(r)
    <3>1. q[j] = b[j - Len(c)]
      BY <2>3, <1>1, <1>4, <1>5, <1>6
    <3>2. j - Len(c) \in 1..(Len(s) - i) /\ i + (j - Len(c)) = j - Len(r)
      BY <2>3, <1>1, <1>4
    <3>3. b[j - Len(c)] = s[i + (j - Len(c))]
      BY <3>2, <1>3
    <3> QED
      BY SMTT(30), <2>3, <1>1, <3>1, <3>2, <3>3
  <2> QED
    BY <2>1, <2>2, <2>3, <1>1
<1> QED
  BY <1>5, <1>6, <1>7, <1>8 DEF HasRun

LEMMA SplicedOne ==
  ASSUME NEW s, NEW i \in Int, NEW e
  PROVE  InsertAt(s, i + 1, e) = Spliced(s, i, <<e>>)
<1>1. (i + 1) - 1 = i
  OBVIOUS
<1> QED
  BY <1>1 DEF InsertAt, Spliced

\* One version more at the end of the run.
LEMMA SplicedMore ==
  ASSUME NEW D, NEW s \in Seq(D), NEW r \in Seq(D), NEW e \in D, NEW i \in 0..Len(s)
  PROVE  InsertAt(Spliced(s, i, r), i + Len(r) + 1, e) = Spliced(s, i, Append(r, e))
<1> DEFINE n == Len(s)
           m == Len(r)
           old == Spliced(s, i, r)
           new == InsertAt(old, i + m + 1, e)
           more == Append(r, e)
           q == Spliced(s, i, more)
<1>1. n \in Nat /\ m \in Nat /\ i \in 0..n
  OBVIOUS
<1>2. /\ more \in Seq(D) /\ Len(more) = m + 1
      /\ more[m + 1] = e /\ \A j \in 1..m : more[j] = r[j]
  BY AppendProperties
<1>3. /\ old \in Seq(D) /\ Len(old) = n + m
      /\ \A j \in 1..(n + m) :
           /\ j <= i => old[j] = s[j]
           /\ j > i /\ j <= i + m => old[j] = r[j - i]
           /\ j > i + m => old[j] = s[j - m]
  <2>1. old \in Seq(D) /\ HasRun(old, s, r, i)
    BY SplicedFacts
  <2> HIDE DEF old
  <2> QED
    BY <2>1 DEF HasRun
<1> HIDE DEF more, old, n, m
<1>4. /\ q \in Seq(D) /\ Len(q) = n + (m + 1)
      /\ \A j \in 1..(n + (m + 1)) :
           /\ j <= i => q[j] = s[j]
           /\ j > i /\ j <= i + (m + 1) => q[j] = more[j - i]
           /\ j > i + (m + 1) => q[j] = s[j - (m + 1)]
  <2>1. q \in Seq(D) /\ HasRun(q, s, more, i)
    BY <1>2, SplicedFacts
  <2> HIDE DEF q
  <2> QED
    BY <1>2, <2>1 DEF HasRun, n
<1>5. /\ new \in Seq(D) /\ Len(new) = (n + m) + 1
      /\ new[i + m + 1] = e
      /\ \A j \in 1..((n + m) + 1) : /\ j < i + m + 1 => new[j] = old[j]
                                     /\ j > i + m + 1 => new[j] = old[j - 1]
  <2> DEFINE k == i + m
             l == <<e>>
  <2>1. k \in 0..Len(old) /\ k + 1 = i + m + 1
    BY <1>1, <1>3
  <2>2. new = Spliced(old, k, l)
    BY <2>1, SplicedOne
  <2>3. l \in Seq(D) /\ Len(l) = 1 /\ l[1] = e
    OBVIOUS
  <2> HIDE DEF k, l, new
  <2>4. new \in Seq(D) /\ HasRun(new, old, l, k)
    BY <1>3, <2>1, <2>2, <2>3, SplicedFacts
  <2>5. Len(old) = n + m
    BY <1>3
  <2>6. \A j \in 1..((n + m) + 1) : /\ j < k + 1 => new[j] = old[j]
                                    /\ j = k + 1 => new[j] = e
                                    /\ j > k + 1 => new[j] = old[j - 1]
    <3> TAKE j \in 1..((n + m) + 1)
    <3>1. j < k + 1 => j <= k
      BY <1>1, <2>1, <2>5
    <3>2. j = k + 1 => j > k /\ j <= k + 1 /\ j - k = 1
      BY <1>1, <2>1, <2>5
    <3> QED
      BY <2>3, <2>4, <2>5, <3>1, <3>2 DEF HasRun
  <2>7. Len(new) = (n + m) + 1 /\ k + 1 \in 1..((n + m) + 1)
    BY <1>1, <2>1, <2>3, <2>4, <2>5 DEF HasRun
  <2> QED
    BY <2>1, <2>4, <2>6, <2>7
<1> HIDE DEF new, q
<1>6. ASSUME NEW j \in 1..Len(new) PROVE new[j] = q[j]
  <2>0. j \in 1..((n + m) + 1) /\ j \in 1..(n + (m + 1)) /\ j \in Int
    BY <1>1, <1>5
  <2>1. CASE j <= i
    BY SMTT(30), <2>0, <2>1, <1>1, <1>3, <1>4, <1>5
  <2>2. CASE j > i /\ j < i + m + 1
    <3>1. new[j] = old[j] /\ j \in 1..(n + m) /\ j <= i + m
      BY <2>0, <2>2, <1>1, <1>5
    <3>2. old[j] = r[j - i] /\ j - i \in 1..m
      BY <2>0, <2>2, <3>1, <1>1, <1>3
    <3>3. q[j] = more[j - i]
      BY <2>0, <2>2, <1>1, <1>4
    <3> QED
      BY <3>1, <3>2, <3>3, <1>2
  <2>3. CASE j = i + m + 1
    <3>1. j > i /\ j <= i + (m + 1) /\ j - i = m + 1
      BY <2>3, <1>1
    <3>2. q[j] = more[m + 1]
      BY <2>0, <3>1, <1>4
    <3> QED
      BY <2>3, <3>2, <1>2, <1>5
  <2>4. CASE j > i + m + 1
    <3>1. new[j] = old[j - 1] /\ j - 1 \in 1..(n + m) /\ j - 1 > i + m
      BY <2>0, <2>4, <1>1, <1>5
    <3>2. old[j - 1] = s[(j - 1) - m]
      BY <3>1, <1>3
    <3>3. j > i + (m + 1) /\ (j - 1) - m = j - (m + 1)
      BY <2>0, <2>4, <1>1
    <3>4. q[j] = s[j - (m + 1)]
      BY <2>0, <3>3, <1>4
    <3> QED
      BY <3>1, <3>2, <3>3, <3>4
  <2> QED
    BY <2>0, <2>1, <2>2, <2>3, <2>4, <1>1
<1>7. Len(new) = Len(q)
  BY <1>1, <1>4, <1>5
<1>8. new = q
  BY <1>4, <1>5, <1>6, <1>7, SeqEqual
<1> QED
  BY <1>8 DEF new, q, old, more, m

-----------------------------------------------------------------------------
(* A run of new versions among the siblings of one parent.                 *)

LEMMA AddedLists ==
  ASSUME NEW vs, Laid(vs), NEW place, Placed(vs, place), NEW v, v \notin DOMAIN vs \cup {Null}
  PROVE  LET new == Added(vs, v, place)
             p == place.parent
         IN  /\ Lists(new)[p] = InsertSibling(Lists(vs)[p], v, place)
             /\ \A q \in (DOMAIN vs \cup {Null}) \ {p} : Lists(new)[q] = Lists(vs)[q]
             /\ Lists(new)[v] = <<>>
<1> DEFINE new == Added(vs, v, place)
           p == place.parent
           lists == Lists(vs)
           list == InsertSibling(lists[p], v, place)
           mid == [lists EXCEPT ![p] = list]
           after == With(mid, v, <<>>)
<1>1. Lists(new) = after
  BY AddedLaid
<1>2. DOMAIN lists = DOMAIN vs \cup {Null}
  BY DEF Lists
<1>3. p \in DOMAIN vs \cup {Null}
  BY DEF Placed
<1> HIDE DEF p, lists, list
<1>4. /\ DOMAIN mid = DOMAIN vs \cup {Null} /\ mid[p] = list
      /\ \A q \in DOMAIN vs \cup {Null} : q # p => mid[q] = lists[q]
  BY <1>2, <1>3
<1> HIDE DEF mid
<1>5. after[v] = <<>> /\ \A q \in DOMAIN mid : q # v => after[q] = mid[q]
  BY DEF With
<1> HIDE DEF after, new
<1>6. /\ after[p] = list
      /\ \A q \in (DOMAIN vs \cup {Null}) \ {p} : after[q] = lists[q]
  BY <1>3, <1>4, <1>5
<1> QED
  BY <1>1, <1>5, <1>6 DEF new, p, lists, list

Run(n, i) == [j \in 1..i |-> n + j]

\* vs has the lists of old, but for the run r in the list of p, after its k-th.
Grafted(vs, old, p, k, r) ==
  /\ k \in 0..Len(Lists(old)[p])
  /\ Lists(vs)[p] = Spliced(Lists(old)[p], k, r)
  /\ \A q \in (DOMAIN old \cup {Null}) \ {p} : Lists(vs)[q] = Lists(old)[q]
  /\ \A q \in DOMAIN vs \ DOMAIN old : Lists(vs)[q] = <<>>

LEMMA AddedGrafts ==
  ASSUME NEW n \in Nat, NEW vs, Laid(vs), n + 1 \notin DOMAIN vs \cup {Null},
         NEW place, Placed(vs, place)
  PROVE  \E k : Grafted(Added(vs, n + 1, place), vs, place.parent, k, Run(n, 1))
<1> DEFINE new == Added(vs, n + 1, place)
           p == place.parent
           list == Lists(vs)[p]
<1>1. /\ p \in DOMAIN vs \cup {Null} /\ list = Siblings(vs, p)
      /\ Named(place) \subseteq ToSet(list)
  BY DEF Placed, Lists
<1>2. ListOver(list, DOMAIN vs)
  BY <1>1, SiblingsOver
<1>3. /\ Lists(new)[p] = InsertSibling(list, n + 1, place)
      /\ \A q \in (DOMAIN vs \cup {Null}) \ {p} : Lists(new)[q] = Lists(vs)[q]
      /\ Lists(new)[n + 1] = <<>>
  BY AddedLists
<1>4. DOMAIN new = DOMAIN vs \cup {n + 1}
  <2>1. Beyond(new, vs, n + 1)
    BY AddedLaid
  <2> HIDE DEF new
  <2> QED
    BY <2>1 DEF Beyond
<1> HIDE DEF new, p, list
<1>5. PICK i \in 1..(Len(list) + 1) : InsertSibling(list, n + 1, place) = InsertAt(list, i, n + 1)
  BY <1>1, <1>2, InsertSiblingIs
<1> DEFINE k == i - 1
<1>6. Len(list) \in Nat
  BY <1>2 DEF ListOver
<1>7. k \in 0..Len(list) /\ k + 1 = i /\ k \in Int
  BY <1>6
<1> HIDE DEF k
<1>8. InsertAt(list, i, n + 1) = Spliced(list, k, <<n + 1>>)
  BY <1>7, SplicedOne
<1>9. Run(n, 1) = <<n + 1>>
  BY DEF Run
<1>10. Grafted(new, vs, p, k, Run(n, 1))
  BY <1>3, <1>4, <1>5, <1>7, <1>8, <1>9 DEF Grafted, list
<1> QED
  BY <1>10 DEF new, p

Stands(list, j, v) == j \in DOMAIN list /\ list[j] = v

\* What stands where in a list with a run in it.
LEMMA RunMember ==
  ASSUME NEW D, NEW list \in Seq(D), NEW n \in Nat, NEW i \in Nat, i > 0,
         \A j \in 1..i : n + j \in D,
         NEW k \in 0..Len(list)
  PROVE  Stands(Spliced(list, k, Run(n, i)), k + i, n + i)
<1> DEFINE r == Run(n, i)
           q == Spliced(list, k, r)
<1>1. r \in Seq(D) /\ Len(r) = i /\ r[i] = n + i
  BY DEF Run
<1> HIDE DEF r
<1>2. q \in Seq(D) /\ HasRun(q, list, r, k)
  BY <1>1, SplicedFacts
<1> HIDE DEF q
<1>3. Len(list) \in Nat
  OBVIOUS
<1>4. k + i \in 1..(Len(list) + i) /\ k + i > k /\ k + i <= k + i /\ (k + i) - k = i
  BY <1>3
<1>5. Len(q) = Len(list) + i /\ DOMAIN q = 1..Len(q)
  BY <1>1, <1>2 DEF HasRun
<1>6. q[k + i] = r[(k + i) - k]
  BY <1>1, <1>2, <1>4 DEF HasRun
<1> QED
  BY <1>1, <1>4, <1>5, <1>6 DEF q, r, Stands

LEMMA RunGrows ==
  ASSUME NEW n \in Nat, NEW i \in Nat
  PROVE  Append(Run(n, i), n + i + 1) = Run(n, i + 1)
<1> DEFINE a == Run(n, i)
           b == Run(n, i + 1)
           c == Append(a, n + i + 1)
<1>1. a \in Seq(Nat) /\ Len(a) = i /\ \A j \in 1..i : a[j] = n + j
  BY DEF Run
<1>2. b \in Seq(Nat) /\ Len(b) = i + 1 /\ \A j \in 1..(i + 1) : b[j] = n + j
  BY DEF Run
<1> HIDE DEF a, b
<1>3. n + i + 1 \in Nat
  OBVIOUS
<1>4. /\ c \in Seq(Nat) /\ Len(c) = i + 1 /\ c[i + 1] = n + i + 1
      /\ \A j \in 1..i : c[j] = a[j]
  BY <1>1, <1>3, AppendProperties
<1> HIDE DEF c
<1>5. ASSUME NEW j \in 1..Len(c) PROVE c[j] = b[j]
  <2>1. CASE j = i + 1
    BY <2>1, <1>2, <1>4
  <2>2. CASE j # i + 1
    <3>1. j \in 1..i /\ j \in 1..(i + 1)
      BY <2>2, <1>4
    <3> QED
      BY <3>1, <1>1, <1>2, <1>4
  <2> QED
    BY <2>1, <2>2
<1>6. c = b
  BY <1>2, <1>4, <1>5, SeqEqual
<1> QED
  BY <1>6 DEF a, b, c

\* A version placed after the last one of the run belongs to the run.
LEMMA AddedToRun ==
  ASSUME NEW n \in Nat, NEW i \in Nat, i > 0,
         NEW old, Laid(old), DOMAIN old = 1..n,
         NEW vs, Laid(vs), DOMAIN vs = 1..(n + i), n + i + 1 \notin DOMAIN vs \cup {Null},
         NEW place, Placed(vs, place), place.parent \in DOMAIN old \cup {Null},
         place.previous = n + i, n + i # Null,
         NEW k, Grafted(vs, old, place.parent, k, Run(n, i))
  PROVE  Grafted(Added(vs, n + i + 1, place), old, place.parent, k, Run(n, i + 1))
<1> DEFINE v == n + i + 1
           new == Added(vs, v, place)
           p == place.parent
           list == Lists(old)[p]
           r == Run(n, i)
           mid == Lists(vs)[p]
           D == 1..v
<1>1. /\ v \in Nat /\ v \in D /\ D = 1..(n + i + 1) /\ DOMAIN vs \subseteq D /\ DOMAIN old \subseteq D
      /\ \A j \in 1..i : n + j \in D
  OBVIOUS
<1>2. list \in Seq(D)
  <2>1. ListOver(Siblings(old, p), DOMAIN old) /\ list = Siblings(old, p)
    BY SiblingsOver DEF Lists
  <2> HIDE DEF list, D
  <2> QED
    BY <1>1, <2>1, SeqMonotonic DEF ListOver
<1>3. IsInjective(mid)
  <2>1. p \in DOMAIN vs \cup {Null}
    BY DEF Placed
  <2>2. ListOver(Siblings(vs, p), DOMAIN vs) /\ mid = Siblings(vs, p)
    BY <2>1, SiblingsOver DEF Lists
  <2> QED
    BY <2>2 DEF ListOver
<1>4. /\ Lists(new)[p] = InsertSibling(mid, v, place)
      /\ \A q \in (DOMAIN vs \cup {Null}) \ {p} : Lists(new)[q] = Lists(vs)[q]
      /\ Lists(new)[v] = <<>>
  BY AddedLists
<1>5. DOMAIN new = DOMAIN vs \cup {v}
  <2>1. Beyond(new, vs, v)
    BY AddedLaid
  <2> HIDE DEF new, v
  <2> QED
    BY <2>1 DEF Beyond
<1>6. /\ k \in 0..Len(list) /\ mid = Spliced(list, k, r)
      /\ \A q \in (DOMAIN old \cup {Null}) \ {p} : Lists(vs)[q] = Lists(old)[q]
      /\ \A q \in DOMAIN vs \ DOMAIN old : Lists(vs)[q] = <<>>
  BY DEF Grafted
<1>7. r \in Seq(D) /\ Len(r) = i
  BY <1>1 DEF Run
<1> HIDE DEF new, p, list, r, mid, D
<1>8. k + i \in DOMAIN mid /\ mid[k + i] = n + i
  <2>1. \A j \in 1..i : n + j \in D
    BY <1>1
  <2>2. list \in Seq(D) /\ k \in 0..Len(list)
    BY <1>2, <1>6
  <2>3. Stands(Spliced(list, k, Run(n, i)), k + i, n + i)
    BY <2>1, <2>2, RunMember
  <2>4. mid = Spliced(list, k, Run(n, i))
    BY <1>6 DEF r
  <2> QED
    BY <2>3, <2>4 DEF Stands
<1>9. Position(mid, n + i) = k + i
  BY <1>3, <1>8, PositionIs
<1>10. InsertSibling(mid, v, place) = InsertAt(mid, k + i + 1, v)
  BY <1>9 DEF InsertSibling
<1>11. InsertAt(Spliced(list, k, r), k + Len(r) + 1, v) = Spliced(list, k, Append(r, v))
  <2>1. list \in Seq(D) /\ k \in 0..Len(list) /\ r \in Seq(D) /\ v \in D
    BY <1>1, <1>2, <1>6, <1>7
  <2> HIDE DEF v
  <2> QED
    BY <2>1, SplicedMore
<1>12. Append(r, v) = Run(n, i + 1)
  BY RunGrows DEF r
<1>13. Lists(new)[p] = Spliced(list, k, Run(n, i + 1))
  BY <1>4, <1>6, <1>7, <1>10, <1>11, <1>12
<1>14. \A q \in (DOMAIN old \cup {Null}) \ {p} : Lists(new)[q] = Lists(old)[q]
  <2>1. DOMAIN old \subseteq DOMAIN vs
    OBVIOUS
  <2> QED
    BY <1>4, <1>6, <2>1
<1>15. \A q \in DOMAIN new \ DOMAIN old : Lists(new)[q] = <<>>
  <2>1. ASSUME NEW q \in DOMAIN vs \ DOMAIN old PROVE Lists(new)[q] = <<>>
    <3>1. q # p /\ q \in DOMAIN vs
      <4>1. Null \notin DOMAIN vs
        BY DEF Laid, Records
      <4> QED
        BY <2>1, <4>1 DEF p
    <3> QED
      BY <1>4, <1>6, <3>1
  <2> QED
    BY <1>4, <1>5, <2>1
<1> QED
  BY <1>6, <1>13, <1>14, <1>15 DEF Grafted, new, p, list

\* The last version of the run is a child of the parent of the run.
LEMMA RunParent ==
  ASSUME NEW n \in Nat, NEW i \in Nat, i > 0,
         NEW old, Laid(old), DOMAIN old = 1..n,
         NEW vs, Laid(vs), DOMAIN old \subseteq DOMAIN vs, NEW p \in DOMAIN old \cup {Null},
         NEW k, Grafted(vs, old, p, k, Run(n, i))
  PROVE  vs[n + i].parent = p
<1> DEFINE list == Lists(old)[p]
           mid == Lists(vs)[p]
           D == 1..(n + i)
<1>1. list \in Seq(D) /\ \A j \in 1..i : n + j \in D
  <2>1. ListOver(Siblings(old, p), DOMAIN old) /\ list = Siblings(old, p)
    BY SiblingsOver DEF Lists
  <2>2. DOMAIN old \subseteq D /\ \A j \in 1..i : n + j \in D
    OBVIOUS
  <2> HIDE DEF list, D
  <2> QED
    BY <2>1, <2>2, SeqMonotonic DEF ListOver
<1>2. k \in 0..Len(list) /\ mid = Spliced(list, k, Run(n, i))
  BY DEF Grafted
<1> HIDE DEF D, list
<1>3. Stands(mid, k + i, n + i)
  BY <1>1, <1>2, RunMember
<1>4. Children(vs, p) = ToSet(mid)
  <2>1. p \in DOMAIN Lists(vs)
    BY DEF Lists
  <2> QED
    BY <2>1, DrawnChildren DEF Laid, LaidAlong
<1> HIDE DEF mid
<1>5. n + i \in ToSet(mid)
  BY <1>3 DEF Stands, ToSet
<1> QED
  BY <1>4, <1>5 DEF Children

\* The run is what stands between the two parts of the list.
RunBetween(q, s, r, i) ==
  SubSeq(q, i + 1, i + Len(q) - Len(s)) = r /\ Len(q) = Len(s) + Len(r)

LEMMA SplicedRun ==
  ASSUME NEW D, NEW s \in Seq(D), NEW r \in Seq(D), NEW i \in 0..Len(s)
  PROVE  RunBetween(Spliced(s, i, r), s, r, i)
<1> DEFINE q == Spliced(s, i, r)
           n == Len(s)
           m == Len(r)
           x == SubSeq(q, i + 1, i + m)
<1>1. q \in Seq(D) /\ HasRun(q, s, r, i)
  BY SplicedFacts
<1>2. n \in Nat /\ m \in Nat /\ DOMAIN r = 1..m /\ i \in 0..n
  OBVIOUS
<1> HIDE DEF q
<1>3. Len(q) = n + m /\ \A j \in 1..(n + m) : j > i /\ j <= i + m => q[j] = r[j - i]
  BY <1>1, Zenon DEF HasRun
<1>4. \A j \in (i + 1)..(i + m) : q[j] \in D
  <2>1. Len(q) \in Nat /\ \A j \in 1..Len(q) : q[j] \in D
    BY <1>1
  <2> HIDE DEF n, m
  <2> QED
    BY <1>2, <1>3, <2>1
<1>5. i + 1 \in Int /\ i + m \in Int
  BY <1>2
<1>6. /\ x \in Seq(D) /\ Len(x) = IF i + 1 <= i + m THEN (i + m) - (i + 1) + 1 ELSE 0
      /\ \A j \in 1..((i + m) - (i + 1) + 1) : x[j] = q[(i + 1) + j - 1]
  <2> HIDE DEF m
  <2> QED
    BY SMTT(30), <1>4, <1>5, SubSeqProperties
<1> HIDE DEF x, n, m
<1>7. Len(x) = m /\ \A j \in 1..m : x[j] = q[i + j]
  BY <1>2, <1>6
<1>8. \A j \in 1..m : q[i + j] = r[j]
  <2>1. \A j \in 1..m : /\ i + j \in 1..(n + m) /\ i + j > i /\ i + j <= i + m
                        /\ (i + j) - i = j
    BY <1>2
  <2> QED
    BY <1>3, <2>1
<1>9. x = r
  <2>1. r \in Seq(D) /\ Len(r) = m
    BY DEF m
  <2>2. \A j \in 1..Len(x) : x[j] = r[j]
    BY <1>7, <1>8
  <2> QED
    BY <1>6, <1>7, <2>1, <2>2, SeqEqual
<1>10. i + Len(q) - n = i + m
  BY <1>2, <1>3
<1> QED
  BY <1>3, <1>9, <1>10 DEF x, q, n, m, RunBetween
=============================================================================
