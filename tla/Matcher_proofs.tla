---------------------------- MODULE Matcher_proofs ----------------------------
(***************************************************************************)
(* Lemmas about the operators of Matcher, for names of any length, any     *)
(* number of sidecars and any order of them: what the edit distance bounds *)
(* and when it is zero, what the index answers, which names are looked up  *)
(* and in which order, what a match says of the names it relates, and when *)
(* it depends on nothing but them.  Recursive functions are reasoned about *)
(* by induction over the sets of the numbers for which a fact holds.       *)
(***************************************************************************)
EXTENDS Matcher, FiniteSetTheorems, SequenceTheorems, TLAPS

-----------------------------------------------------------------------------
(* Sequences, whatever their elements are, numbers and loops.               *)

IsList(s) == s \in Seq(ToSet(s))

LEMMA ListFacts ==
    ASSUME NEW s, IsList(s)
    PROVE  Len(s) \in Nat /\ DOMAIN s = 1..Len(s)
BY LenProperties DEF IsList

LEMMA ListOf ==
    ASSUME NEW n \in Nat, NEW s, DOMAIN s = 1..n, s = [i \in 1..n |-> s[i]]
    PROVE  IsList(s) /\ Len(s) = n
<1>1. s \in [1..n -> ToSet(s)]
  BY DEF ToSet
<1>. QED  BY <1>1 DEF IsList

(* Induction over the numbers of a set. *)
LEMMA Induction ==
    ASSUME NEW P, 0 \in P, \A k \in Nat : k \in P => k + 1 \in P
    PROVE  Nat \subseteq P
<1>. DEFINE D == Nat \ P
<1>. SUFFICES ASSUME D # {} PROVE FALSE
  OBVIOUS
<1>2. PICK x \in D : \A y \in D : ~ (<<y, x>> \in OpToRel(<, Nat))
  <2>1. IsWellFoundedOn(OpToRel(<, Nat), Nat)
    BY NatLessThanWellFounded
  <2>2. D \subseteq Nat
    OBVIOUS
  <2>. HIDE DEF D
  <2>. QED  BY <2>1, <2>2, WFMin, Zenon
<1>3. x \in Nat /\ x # 0
  OBVIOUS
<1>4. x - 1 \in Nat /\ (x - 1) + 1 = x /\ x - 1 < x
  BY <1>3
<1>5. x - 1 \in D
  BY <1>4
<1>6. <<x - 1, x>> \in OpToRel(<, Nat)
  BY <1>3, <1>4 DEF OpToRel
<1>. QED  BY <1>2, <1>5, <1>6

(* A loop of n steps, from c, over values of S: f has the value after each. *)
IsStep(S, n, step) == \A v \in S, i \in 1..n : step[<<v, i>>] \in S
IsRun(f, n, S, c, step) ==
    f \in [0..n -> S] /\ f[0] = c /\ \A i \in 1..n : f[i] = step[<<f[i - 1], i>>]

LEMMA Loop ==
    ASSUME NEW S, NEW c \in S, NEW n \in Nat, NEW step, IsStep(S, n, step)
    PROVE  \E f : IsRun(f, n, S, c, step)
<1>. DEFINE P == {m \in Nat : m <= n => \E f : IsRun(f, m, S, c, step)}
<1>1. 0 \in P
  <2>. DEFINE f == [i \in {0} |-> c]
  <2>1. 0..0 = {0} /\ 1..0 = {}
    OBVIOUS
  <2>2. IsRun(f, 0, S, c, step)
    BY <2>1 DEF IsRun
  <2>. QED  BY <2>2
<1>2. ASSUME NEW m \in Nat, m \in P PROVE m + 1 \in P
  <2>. SUFFICES ASSUME m + 1 <= n PROVE \E f : IsRun(f, m + 1, S, c, step)
    OBVIOUS
  <2>0. PICK f : IsRun(f, m, S, c, step)
    BY <1>2
  <2>1. f \in [0..m -> S] /\ f[0] = c /\ \A i \in 1..m : f[i] = step[<<f[i - 1], i>>]
    BY <2>0 DEF IsRun
  <2>. DEFINE x == step[<<f[m], m + 1>>]
              g == [i \in 0..(m + 1) |-> IF i <= m THEN f[i] ELSE x]
  <2>2. x \in S
    <3>1. f[m] \in S /\ m + 1 \in 1..n
      BY <2>1
    <3>. QED  BY <3>1 DEF IsStep
  <2>. HIDE DEF x
  <2>3. g \in [0..(m + 1) -> S]
    BY <2>1, <2>2
  <2>4. \A i \in 0..m : g[i] = f[i]
    OBVIOUS
  <2>5. g[m + 1] = x
    OBVIOUS
  <2>. HIDE DEF g
  <2>6. g[0] = c
    BY <2>1, <2>4
  <2>7. ASSUME NEW i \in 1..(m + 1)
        PROVE  g[i] = step[<<g[i - 1], i>>]
    <3>1. CASE i \in 1..m
      <4>1. i - 1 \in 0..m /\ i \in 0..m
        BY <3>1
      <4>. QED  BY <2>1, <2>4, <3>1, <4>1
    <3>2. CASE i = m + 1
      <4>1. i - 1 = m /\ m \in 0..m
        BY <3>2
      <4>. QED  BY <2>4, <2>5, <3>2, <4>1 DEF x
    <3>. QED  BY <3>1, <3>2
  <2>8. IsRun(g, m + 1, S, c, step)
    BY <2>3, <2>6, <2>7 DEF IsRun
  <2>. QED  BY <2>8
<1>3. n \in P
  <2>. HIDE DEF P
  <2>. QED  BY <1>1, <1>2, Induction
<1>. QED  BY <1>3

(* c is one list after the other. *)
Joined(c, s, t) ==
    /\ IsList(c)
    /\ Len(c) = Len(s) + Len(t)
    /\ \A i \in 1..Len(s) : c[i] = s[i]
    /\ \A i \in 1..Len(t) : c[Len(s) + i] = t[i]
    /\ \A i \in DOMAIN c : i \in DOMAIN s \/ \E j \in DOMAIN t : i = Len(s) + j

LEMMA ListConcat ==
    ASSUME NEW s, NEW t, IsList(s), IsList(t)
    PROVE  Joined(s \o t, s, t)
<1>. DEFINE T == ToSet(s) \cup ToSet(t)
            c == s \o t
<1>1. s \in Seq(T) /\ t \in Seq(T)
  BY SeqMonotonic DEF IsList
<1>. HIDE DEF T
<1>2. /\ c \in Seq(T) /\ Len(c) = Len(s) + Len(t)
      /\ \A i \in 1..(Len(s) + Len(t)) : c[i] = IF i <= Len(s) THEN s[i] ELSE t[i - Len(s)]
  BY <1>1, ConcatProperties
<1>3. /\ Len(s) \in Nat /\ DOMAIN s = 1..Len(s) /\ Len(t) \in Nat /\ DOMAIN t = 1..Len(t)
      /\ Len(c) \in Nat /\ DOMAIN c = 1..Len(c) /\ c \in [1..Len(c) -> T]
  BY <1>1, <1>2, LenProperties
<1>. HIDE DEF c
<1>4. IsList(c)
  BY <1>3, ListOf
<1>5. \A i \in 1..Len(s) : c[i] = s[i]
  BY <1>2, <1>3
<1>6. ASSUME NEW i \in 1..Len(t)
      PROVE  c[Len(s) + i] = t[i]
  <2>1. Len(s) + i \in 1..(Len(s) + Len(t)) /\ ~(Len(s) + i <= Len(s)) /\ (Len(s) + i) - Len(s) = i
    BY <1>3
  <2>. QED  BY <2>1, <1>2
<1>7. ASSUME NEW i \in DOMAIN c, i \notin DOMAIN s
      PROVE  \E j \in DOMAIN t : i = Len(s) + j
  <2>1. i - Len(s) \in DOMAIN t /\ i = Len(s) + (i - Len(s))
    BY <1>2, <1>3, <1>7
  <2>. QED  BY <2>1
<1>8. Joined(c, s, t)
  BY <1>2, <1>4, <1>5, <1>6, <1>7 DEF Joined
<1>. QED  BY <1>8 DEF c

(* The smallest and the largest number of a set. *)
LEMMA SmallestOf ==
    ASSUME NEW D \in SUBSET Nat, D # {}
    PROVE  Min(D) \in D /\ \A j \in D : Min(D) <= j
<1>1. PICK x \in D : \A y \in D : ~ (<<y, x>> \in OpToRel(<, Nat))
  <2>1. IsWellFoundedOn(OpToRel(<, Nat), Nat)
    BY NatLessThanWellFounded
  <2>. QED  BY <2>1, WFMin, Zenon
<1>2. ASSUME NEW y \in D
      PROVE  x <= y
  <2>1. x \in Nat /\ y \in Nat
    OBVIOUS
  <2>2. ~ (<<y, x>> \in OpToRel(<, Nat))
    BY <1>1
  <2>3. ~ (y < x)
    BY <2>1, <2>2 DEF OpToRel
  <2>. QED  BY <2>1, <2>3
<1>. QED  BY <1>2 DEF Min

LEMMA Smallest ==
    ASSUME NEW n \in Nat, NEW D \in SUBSET (1..n), D # {}
    PROVE  Min(D) \in D /\ \A j \in D : Min(D) <= j
<1>1. D \in SUBSET Nat
  OBVIOUS
<1>. QED  BY <1>1, SmallestOf

LEMMA Largest ==
    ASSUME NEW n \in Nat, NEW D \in SUBSET (1..n), D # {}
    PROVE  Max(D) \in D /\ \A j \in D : j <= Max(D)
<1>. DEFINE E == {(n + 1) - i : i \in D}
<1>1. E \in SUBSET (1..n) /\ E # {}
  <2>1. \A i \in D : i \in Int /\ 1 <= i /\ i <= n
    OBVIOUS
  <2>2. \A i \in D : (n + 1) - i \in 1..n
    BY <2>1
  <2>. QED  BY <2>2
<1>2. Min(E) \in E /\ \A j \in E : Min(E) <= j
  <2>. HIDE DEF E
  <2>. QED  BY <1>1, Smallest
<1>3. PICK x \in D : Min(E) = (n + 1) - x
  BY <1>2
<1>4. ASSUME NEW y \in D
      PROVE  x >= y
  <2>1. (n + 1) - x <= (n + 1) - y
    BY <1>2, <1>3
  <2>2. x \in Int /\ y \in Int
    OBVIOUS
  <2>. QED  BY <2>1, <2>2
<1>5. \E z \in D : \A y \in D : z >= y
  BY <1>4
<1>6. Max(D) \in D /\ \A y \in D : Max(D) >= y
  BY <1>5 DEF Max
<1>. QED
  BY <1>6

(* How many elements of S are not after i. *)
Rank(S, i) == Cardinality({j \in S : j <= i})

LEMMA RankFacts ==
    ASSUME NEW n \in Nat, NEW S \in SUBSET (1..n)
    PROVE  /\ Cardinality(S) \in Nat
           /\ \A i \in S : Rank(S, i) \in 1..Cardinality(S)
           /\ \A i, k \in S : i < k => Rank(S, i) < Rank(S, k)
           /\ \A k \in 1..Cardinality(S) : \E i \in S : Rank(S, i) = k
<1>. DEFINE R == [i \in S |-> Rank(S, i)]
            m == Cardinality(S)
<1>1. IsFiniteSet(S) /\ m \in Nat /\ \A i \in S : i \in Int
  <2>1. IsFiniteSet(1..n)
    BY FS_Interval
  <2>2. IsFiniteSet(S)
    BY <2>1, FS_Subset
  <2>. QED  BY <2>2, FS_CardinalityType
<1>2. ASSUME NEW i \in S
      PROVE  IsFiniteSet({j \in S : j <= i}) /\ Rank(S, i) \in 1..m
  <2>. DEFINE B == {j \in S : j <= i}
  <2>1. B \in SUBSET S /\ i \in B
    OBVIOUS
  <2>. HIDE DEF B
  <2>2. IsFiniteSet(B) /\ Cardinality(B) <= m /\ Cardinality(B) \in Nat
    BY <1>1, <2>1, FS_Subset, FS_CardinalityType
  <2>3. Cardinality(B) # 0
    BY <2>1, <2>2, FS_EmptySet
  <2>. QED  BY <1>1, <2>2, <2>3 DEF B, Rank
<1>3. ASSUME NEW i \in S, NEW k \in S, i < k
      PROVE  Rank(S, i) < Rank(S, k)
  <2>. DEFINE A == {j \in S : j <= i}
              B == {j \in S : j <= k}
  <2>0. k \in Int /\ ~(k <= i) /\ k <= k /\ \A j \in S : j <= i => j <= k
    BY <1>1, <1>3
  <2>1. A \in SUBSET B /\ k \in B /\ k \notin A
    BY <2>0
  <2>2. IsFiniteSet(B) /\ Cardinality(A) \in Nat /\ Cardinality(B) \in Nat
    BY <1>2 DEF Rank
  <2>. HIDE DEF A, B
  <2>3. Cardinality(A) <= Cardinality(B) /\ Cardinality(A) # Cardinality(B)
    BY <2>1, <2>2, FS_Subset
  <2>4. Cardinality(A) < Cardinality(B)
    BY <2>2, <2>3
  <2>. QED  BY <2>4 DEF A, B, Rank
<1>4. R \in Injection(S, 1..m)
  <2>1. R \in [S -> 1..m]
    BY <1>2
  <2>2. ASSUME NEW i \in S, NEW k \in S, i # k
        PROVE  R[i] # R[k]
    <3>1. i < k \/ k < i
      BY <1>1, <2>2
    <3>2. Rank(S, i) \in 1..m /\ Rank(S, k) \in 1..m
      BY <1>2
    <3>3. Rank(S, i) < Rank(S, k) \/ Rank(S, k) < Rank(S, i)
      BY <1>3, <3>1
    <3>4. Rank(S, i) # Rank(S, k)
      <4>. HIDE DEF m
      <4>. QED  BY <1>1, <3>2, <3>3
    <3>. QED  BY <3>4
  <2>. HIDE DEF R
  <2>. QED  BY <2>1, <2>2 DEF Injection, IsInjective
<1>5. IsFiniteSet(1..m) /\ Cardinality(1..m) = m
  BY <1>1, FS_Interval
<1>6. R \in Surjection(S, 1..m)
  <2>. HIDE DEF R
  <2>. QED  BY <1>4, <1>5, FS_Injection
<1>. QED  BY <1>1, <1>2, <1>3, <1>6 DEF Surjection

(* The picked elements are the elements at the places S, distinct if those  *)
(* are.                                                                     *)
LEMMA PickedFacts ==
    ASSUME NEW n \in Nat, NEW S \in SUBSET (1..n), NEW s
    PROVE  /\ IsList(Picked(s, S))
           /\ \A k \in DOMAIN Picked(s, S) : \E i \in S : Picked(s, S)[k] = s[i]
           /\ \A i \in S : \E k \in DOMAIN Picked(s, S) : Picked(s, S)[k] = s[i]
           /\ (\A i, j \in S : s[i] = s[j] => i = j) =>
                 \A k, l \in DOMAIN Picked(s, S) : Picked(s, S)[k] = Picked(s, S)[l] => k = l
<1>. DEFINE m == Cardinality(S)
            t == Picked(s, S)
            p == [k \in 1..m |-> CHOOSE i \in S : Rank(S, i) = k]
<1>1. m \in Nat
  BY RankFacts
<1>2. \A k \in 1..m : p[k] \in S /\ Rank(S, p[k]) = k
  <2>1. \A k \in 1..m : \E i \in S : Rank(S, i) = k
    BY RankFacts
  <2>. QED  BY <2>1
<1>3. t = [k \in 1..m |-> s[p[k]]]
  BY DEF Picked, Rank
<1>4. ASSUME NEW i \in S
      PROVE  \E k \in 1..m : p[k] = i
  <2>1. Rank(S, i) \in 1..m
    BY RankFacts
  <2>. DEFINE k == Rank(S, i)
              q == p[k]
  <2>2. q \in S /\ Rank(S, q) = k
    BY <1>2, <2>1
  <2>. HIDE DEF p, q, m
  <2>3. q = i
    <3>1. \A x, y \in S : x < y => Rank(S, x) < Rank(S, y)
      BY RankFacts
    <3>2. ~(q < i) /\ ~(i < q)
      BY <1>1, <2>1, <2>2, <3>1
    <3>. QED  BY <2>2, <3>2
  <2>. QED  BY <2>1, <2>3 DEF q
<1>. HIDE DEF p, m
<1>5. IsList(t) /\ DOMAIN t = 1..m /\ \A k \in 1..m : t[k] = s[p[k]]
  <2>1. DOMAIN t = 1..m /\ t = [k \in 1..m |-> t[k]] /\ \A k \in 1..m : t[k] = s[p[k]]
    BY <1>3
  <2>. HIDE DEF t
  <2>. QED  BY <1>1, <2>1, ListOf
<1>. HIDE DEF t
<1>6. \A i \in S : \E k \in DOMAIN t : t[k] = s[i]
  BY <1>4, <1>5
<1>7. \A k \in DOMAIN t : p[k] \in S /\ t[k] = s[p[k]]
  BY <1>2, <1>5
<1>8. ASSUME \A i, j \in S : s[i] = s[j] => i = j,
             NEW k \in DOMAIN t, NEW l \in DOMAIN t, t[k] = t[l]
      PROVE  k = l
  <2>1. p[k] \in S /\ p[l] \in S /\ s[p[k]] = s[p[l]]
    BY <1>7, <1>8
  <2>2. p[k] = p[l]
    BY <1>8, <2>1
  <2>. QED  BY <1>2, <1>5, <2>2
<1>. QED  BY <1>5, <1>6, <1>7, <1>8 DEF t

LEMMA One ==
    ASSUME NEW x, NEW s, s = <<x>>
    PROVE  IsList(s) /\ Len(s) = 1 /\ DOMAIN s = 1..1 /\ s[1] = x
<1>1. s \in Seq({x}) /\ DOMAIN s = 1..1 /\ Len(s) = 1 /\ s[1] = x
  OBVIOUS
<1>2. s = [i \in 1..1 |-> s[i]]
  BY <1>1
<1>3. IsList(s)
  <2>1. 1 \in Nat
    OBVIOUS
  <2>. QED  BY <1>1, <1>2, <2>1, ListOf
<1>. QED  BY <1>1, <1>3

LEMMA Two ==
    ASSUME NEW x, NEW y, NEW s, s = <<x, y>>
    PROVE  IsList(s) /\ Len(s) = 2 /\ DOMAIN s = 1..2 /\ s[1] = x /\ s[2] = y
<1>1. s \in Seq({x, y}) /\ DOMAIN s = 1..2 /\ Len(s) = 2 /\ s[1] = x /\ s[2] = y
  OBVIOUS
<1>2. s = [i \in 1..2 |-> s[i]]
  BY <1>1
<1>3. IsList(s)
  <2>1. 2 \in Nat
    OBVIOUS
  <2>. QED  BY <1>1, <1>2, <2>1, ListOf
<1>. QED  BY <1>1, <1>3

LEMMA Nothing == IsList(<<>>) /\ Len(<<>>) = 0 /\ DOMAIN <<>> = {}
BY DEF IsList

-----------------------------------------------------------------------------
(* The edit distance.                                                       *)

LEMMA SizeFacts ==
    ASSUME NEW p, NEW q
    PROVE  /\ Size(p) \in Nat /\ Size(p) > 0
           /\ Replacing(p, q) \in Nat
           /\ Replacing(p, q) = 0 => p = q
           /\ Size(p) <= Size(q) + Replacing(p, q)
           /\ Size(q) <= Size(p) + Replacing(p, q)
<1>1. Size(p) \in Nat /\ Size(p) > 0 /\ Size(q) \in Nat /\ Size(q) > 0
  BY DEF Size
<1>2. p \in Numbers => Size(p) = 3
  BY DEF Size
<1>3. q \in Numbers => Size(q) = 3
  BY DEF Size
<1>4. CASE p = q
  <2>1. Replacing(p, q) = 0 /\ Size(p) = Size(q)
    BY <1>4 DEF Replacing
  <2>. QED  BY <1>1, <1>4, <2>1
<1>5. CASE p # q /\ p \in Numbers /\ q \in Numbers
  <2>1. Replacing(p, q) = 1
    BY <1>5 DEF Replacing
  <2>. QED  BY <1>1, <1>2, <1>3, <1>5, <2>1
<1>6. CASE p # q /\ ~(p \in Numbers /\ q \in Numbers)
  <2>. DEFINE a == Size(p)
              b == Size(q)
              m == Max({a, b})
  <2>1. Replacing(p, q) = m
    BY <1>6 DEF Replacing
  <2>. HIDE DEF a, b
  <2>2. a \in Nat /\ b \in Nat /\ a > 0 /\ b > 0
    BY <1>1 DEF a, b
  <2>3. m \in {a, b} /\ m >= a /\ m >= b
    <3>1. \E x \in {a, b} : \A y \in {a, b} : x >= y
      BY <2>2
    <3>. QED  BY <3>1 DEF Max
  <2>. HIDE DEF m
  <2>4. m \in Nat /\ m # 0 /\ a <= b + m /\ b <= a + m
    BY <2>2, <2>3
  <2>. QED  BY <1>6, <2>1, <2>2, <2>4 DEF a, b
<1>. QED  BY <1>4, <1>5, <1>6

(* The characters of the beginnings add up. *)
IsLengths(n, s) ==
    /\ n \in [0..Len(s) -> Nat] /\ n[0] = 0
    /\ \A k \in 1..Len(s) : n[k] = n[k - 1] + Size(s[k])

LEMMA LengthsFacts ==
    ASSUME NEW s, Len(s) \in Nat
    PROVE  IsLengths(Lengths(s), s)
<1>. DEFINE step == [q \in Nat \X (1..Len(s)) |-> q[1] + Size(s[q[2]])]
            Def(n) == n = [k \in 0..Len(s) |-> IF k = 0 THEN 0 ELSE n[k - 1] + Size(s[k])]
<1>1. \A v \in Nat, i \in 1..Len(s) : step[<<v, i>>] = v + Size(s[i]) 
  OBVIOUS
<1>1a. IsStep(Nat, Len(s), step) /\ 0 \in Nat
  BY <1>1, SizeFacts DEF IsStep
<1>. HIDE DEF step
<1>2a. PICK f : IsRun(f, Len(s), Nat, 0, step)
  BY <1>1a, Loop
<1>2. f \in [0..Len(s) -> Nat] /\ f[0] = 0 /\ \A i \in 1..Len(s) : f[i] = step[<<f[i - 1], i>>]
  BY <1>2a DEF IsRun
<1>3. Def(f)
  <2>1. ASSUME NEW k \in 0..Len(s), k # 0
        PROVE  f[k] = f[k - 1] + Size(s[k])
    <3>1. k \in 1..Len(s) /\ k - 1 \in 0..Len(s)
      BY <2>1
    <3>. QED  BY <1>1, <1>2, <3>1
  <2>. QED  BY <1>2, <2>1
<1>4. Def(Lengths(s))
  <2>1. Lengths(s) = CHOOSE n : Def(n)
    BY DEF Lengths
  <2>. HIDE DEF Def
  <2>. QED  BY <1>3, <2>1
<1>. DEFINE n == Lengths(s)
<1>. HIDE DEF n
<1>5. Def(n)
  BY <1>4 DEF n
<1>6. n[0] = 0 /\ \A k \in 1..Len(s) : n[k] = n[k - 1] + Size(s[k])
  BY <1>5
<1>7. DOMAIN n = 0..Len(s) /\ n = [k \in 0..Len(s) |-> n[k]]
  BY <1>5
<1>. HIDE DEF Def
<1>8. \A k \in 0..Len(s) : n[k] \in Nat
  <2>. DEFINE P == {k \in Nat : k <= Len(s) => n[k] \in Nat}
  <2>1. 0 \in P
    BY <1>6
  <2>2. ASSUME NEW k \in Nat, k \in P PROVE k + 1 \in P
    <3>. SUFFICES ASSUME k + 1 <= Len(s) PROVE n[k + 1] \in Nat
      OBVIOUS
    <3>1. k + 1 \in 1..Len(s) /\ (k + 1) - 1 = k /\ n[k] \in Nat
      BY <2>2
    <3>2. n[k + 1] = n[k] + Size(s[k + 1])
      BY <1>6, <3>1
    <3>3. Size(s[k + 1]) \in Nat
      BY SizeFacts
    <3>. QED  BY <3>1, <3>2, <3>3
  <2>. HIDE DEF P
  <2>3. Nat \subseteq P
    BY <2>1, <2>2, Induction
  <2>. QED  BY <2>3 DEF P
<1>. QED  BY <1>6, <1>7, <1>8 DEF IsLengths, n

LEMMA LeastOfThree ==
    ASSUME NEW a \in Nat, NEW b \in Nat, NEW c \in Nat, NEW m, m = Min({a, b, c})
    PROVE  m \in Nat /\ (m = a \/ m = b \/ m = c)
<1>1. \E x \in {a, b, c} : \A y \in {a, b, c} : x <= y
  <2>1. CASE a <= b /\ a <= c
    BY <2>1
  <2>2. CASE b <= a /\ b <= c
    BY <2>2
  <2>3. CASE c <= a /\ c <= b
    BY <2>3
  <2>. QED  BY <2>1, <2>2, <2>3
<1>2. m \in {a, b, c}
  BY <1>1 DEF Min
<1>. QED  BY <1>2

(* One cell of the table d of distances, from its neighbours. *)
Cells(s, t) == (0..Len(s)) \X (0..Len(t))
Cell(d, s, t, p) ==
    LET i == p[1]
        j == p[2]
    IN  IF i = 0 THEN Lengths(t)[j]
        ELSE IF j = 0 THEN Lengths(s)[i]
        ELSE Min({d[<<i - 1, j>>] + Size(s[i]), d[<<i, j - 1>>] + Size(t[j]),
                  d[<<i - 1, j - 1>>] + Replacing(s[i], t[j])})
IsTable(d, s, t) == \A p \in Cells(s, t) : d[p] = Cell(d, s, t, p)

(* The cells before the diagonal m are filled. *)
Filled(d, s, t, m) == \A q \in Cells(s, t) : q[1] + q[2] < m => d[q] \in Nat

(* The value v of the cell <<i, j>> comes from its neighbours. *)
IsCell(d, s, t, i, j, v) ==
    /\ v \in Nat
    /\ i = 0 => v = Lengths(t)[j]
    /\ i # 0 /\ j = 0 => v = Lengths(s)[i]
    /\ i # 0 /\ j # 0 => \/ v = d[<<i - 1, j>>] + Size(s[i])
                         \/ v = d[<<i, j - 1>>] + Size(t[j])
                         \/ v = d[<<i - 1, j - 1>>] + Replacing(s[i], t[j])

LEMMA CellFacts ==
    ASSUME NEW s, NEW t, Len(s) \in Nat, Len(t) \in Nat,
           NEW i \in 0..Len(s), NEW j \in 0..Len(t), NEW p, p = <<i, j>>,
           NEW d, Filled(d, s, t, i + j)
    PROVE  p \in Cells(s, t) /\ IsCell(d, s, t, i, j, Cell(d, s, t, p))
<1>1. p \in Cells(s, t) /\ p[1] = i /\ p[2] = j
  BY DEF Cells
<1>2. CASE i = 0
  <2>1. Cell(d, s, t, p) = Lengths(t)[j]
    BY <1>1, <1>2 DEF Cell
  <2>2. Lengths(t)[j] \in Nat
    BY LengthsFacts DEF IsLengths
  <2>. QED  BY <1>1, <1>2, <2>1, <2>2 DEF IsCell
<1>3. CASE i # 0 /\ j = 0
  <2>1. Cell(d, s, t, p) = Lengths(s)[i]
    BY <1>1, <1>3 DEF Cell
  <2>2. Lengths(s)[i] \in Nat
    BY LengthsFacts DEF IsLengths
  <2>. QED  BY <1>1, <1>3, <2>1, <2>2 DEF IsCell
<1>4. CASE i # 0 /\ j # 0
  <2>. DEFINE a == d[<<i - 1, j>>]
              b == d[<<i, j - 1>>]
              c == d[<<i - 1, j - 1>>]
  <2>1. <<i - 1, j>> \in Cells(s, t) /\ <<i, j - 1>> \in Cells(s, t) /\ <<i - 1, j - 1>> \in Cells(s, t)
    BY <1>4 DEF Cells
  <2>2. a \in Nat /\ b \in Nat /\ c \in Nat
    <3>1. /\ <<i - 1, j>>[1] + <<i - 1, j>>[2] < i + j
          /\ <<i, j - 1>>[1] + <<i, j - 1>>[2] < i + j
          /\ <<i - 1, j - 1>>[1] + <<i - 1, j - 1>>[2] < i + j
      BY <1>4
    <3>. QED  BY <2>1, <3>1 DEF Filled
  <2>3. Cell(d, s, t, p) = Min({a + Size(s[i]), b + Size(t[j]), c + Replacing(s[i], t[j])})
    BY <1>1, <1>4 DEF Cell
  <2>. HIDE DEF a, b, c
  <2>4. Size(s[i]) \in Nat /\ Size(t[j]) \in Nat /\ Replacing(s[i], t[j]) \in Nat
    BY SizeFacts
  <2>5. a + Size(s[i]) \in Nat /\ b + Size(t[j]) \in Nat /\ c + Replacing(s[i], t[j]) \in Nat
    <3>1. \A x, y \in Nat : x + y \in Nat
      OBVIOUS
    <3>. QED  BY <2>2, <2>4, <3>1, Zenon
  <2>6. /\ Cell(d, s, t, p) \in Nat
        /\ \/ Cell(d, s, t, p) = a + Size(s[i])
           \/ Cell(d, s, t, p) = b + Size(t[j])
           \/ Cell(d, s, t, p) = c + Replacing(s[i], t[j])
    BY <2>3, <2>5, LeastOfThree
  <2>. QED  BY <1>1, <1>4, <2>6 DEF IsCell, a, b, c
<1>. QED  BY <1>2, <1>3, <1>4

(* The tables d and e are alike up to the diagonal m. *)
Alike(d, e, s, t, m) == \A p \in Cells(s, t) : p[1] + p[2] <= m => d[p] = e[p]

(* A cell depends on cells that are nearer to the corner. *)
LEMMA CellDepends ==
    ASSUME NEW s, NEW t, Len(s) \in Nat, Len(t) \in Nat, NEW m \in Nat, NEW d, NEW e, Alike(d, e, s, t, m),
           NEW p \in Cells(s, t), p[1] + p[2] <= m + 1
    PROVE  Cell(d, s, t, p) = Cell(e, s, t, p)
<1>. DEFINE i == p[1]
            j == p[2]
<1>1. i \in 0..Len(s) /\ j \in 0..Len(t) /\ i + j <= m + 1
  BY DEF Cells
<1>2. CASE i = 0 \/ j = 0
  BY <1>2 DEF Cell
<1>3. CASE i # 0 /\ j # 0
  <2>. DEFINE up == <<i - 1, j>>
              left == <<i, j - 1>>
              both == <<i - 1, j - 1>>
  <2>. HIDE DEF i, j
  <2>1. /\ up \in Cells(s, t) /\ up[1] + up[2] <= m
        /\ left \in Cells(s, t) /\ left[1] + left[2] <= m
        /\ both \in Cells(s, t) /\ both[1] + both[2] <= m
    BY <1>1, <1>3 DEF Cells
  <2>. HIDE DEF up, left, both
  <2>2. d[up] = e[up] /\ d[left] = e[left] /\ d[both] = e[both]
    BY <2>1 DEF Alike
  <2>. QED  BY <1>3, <2>2 DEF Cell, up, left, both, i, j
<1>. QED  BY <1>2, <1>3

LEMMA DistanceTable ==
    ASSUME NEW s, NEW t, Len(s) \in Nat, Len(t) \in Nat
    PROVE  \E d : IsTable(d, s, t) /\ Distance(s, t) = d[<<Len(s), Len(t)>>]
<1>. DEFINE D == Cells(s, t)
            Upto(g, m) == g \in [D -> Nat] /\ \A p \in D : p[1] + p[2] <= m => g[p] = Cell(g, s, t, p)
            P == {m \in Nat : \E g : Upto(g, m)}
<1>0. \A p \in D : p[1] \in 0..Len(s) /\ p[2] \in 0..Len(t) /\ p = <<p[1], p[2]>>
  BY DEF Cells
<1>1. ASSUME NEW m \in Nat, NEW f \in [D -> Nat], \A p \in D : p[1] + p[2] < m => f[p] = Cell(f, s, t, p)
      PROVE  \E g : Upto(g, m)
  <2>. DEFINE g == [p \in D |-> IF p[1] + p[2] < m THEN f[p] ELSE Cell(f, s, t, p)]
  <2>1. ASSUME NEW p \in D PROVE Cell(f, s, t, p) \in Nat
    <3>1. Filled(f, s, t, p[1] + p[2])
      BY DEF Filled
    <3>. QED  BY <1>0, <3>1, CellFacts DEF IsCell
  <2>2. g \in [D -> Nat]
    BY <2>1
  <2>3. \A p \in D : g[p] = Cell(f, s, t, p)
    BY <1>1
  <2>4. \A p \in D : p[1] + p[2] < m => g[p] = f[p]
    OBVIOUS
  <2>. HIDE DEF g
  <2>5. ASSUME NEW p \in D, p[1] + p[2] <= m
        PROVE  g[p] = Cell(g, s, t, p)
    <3>1. CASE m = 0
      <4>1. p[1] = 0
        BY <1>0, <2>5, <3>1
      <4>. QED  BY <2>3, <4>1 DEF Cell
    <3>2. CASE m # 0
      <4>. DEFINE l == m - 1
      <4>1. l \in Nat /\ p[1] + p[2] <= l + 1
        BY <1>0, <2>5, <3>2
      <4>2. \A q \in D : q[1] + q[2] <= l => q[1] + q[2] < m
        BY <1>0
      <4>. HIDE DEF l
      <4>3. Alike(f, g, s, t, l)
        BY <2>4, <4>2 DEF Alike
      <4>4. Cell(f, s, t, p) = Cell(g, s, t, p)
        BY <4>1, <4>3, CellDepends
      <4>. QED  BY <2>3, <4>4
    <3>. QED  BY <3>1, <3>2
  <2>. QED  BY <2>2, <2>5
<1>2. 0 \in P
  <2>1. \A p \in D : ~(p[1] + p[2] < 0)
    BY <1>0
  <2>2. [p \in D |-> 0] \in [D -> Nat]
    OBVIOUS
  <2>3. \E g : Upto(g, 0)
    <3>. HIDE DEF D, Upto
    <3>. QED  BY <1>1, <2>1, <2>2
  <2>. QED  BY <2>3
<1>3. ASSUME NEW m \in Nat, m \in P PROVE m + 1 \in P
  <2>1. PICK f : Upto(f, m)
    BY <1>3
  <2>2. \A p \in D : p[1] + p[2] < m + 1 => f[p] = Cell(f, s, t, p)
    <3>1. \A p \in D : p[1] + p[2] < m + 1 => p[1] + p[2] <= m
      BY <1>0
    <3>. QED  BY <2>1, <3>1
  <2>3. \E g : Upto(g, m + 1)
    <3>1. m + 1 \in Nat /\ f \in [D -> Nat]
      BY <2>1
    <3>. HIDE DEF Upto, D
    <3>. QED  BY <1>1, <2>2, <3>1
  <2>. QED  BY <2>3
<1>4. Len(s) + Len(t) \in P
  <2>. HIDE DEF P
  <2>1. Nat \subseteq P
    BY <1>2, <1>3, Induction
  <2>. QED  BY <2>1
<1>5. PICK f : Upto(f, Len(s) + Len(t))
  BY <1>4
<1>. DEFINE Def(d) == d = [p \in D |-> Cell(d, s, t, p)]
            table == CHOOSE d : Def(d)
<1>6. Def(f)
  <2>1. \A p \in D : p[1] + p[2] <= Len(s) + Len(t)
    BY <1>0
  <2>. QED  BY <1>5, <2>1
<1>7. Def(table)
  <2>. HIDE DEF Def
  <2>. QED  BY <1>6
<1>8. Distance(s, t) = table[<<Len(s), Len(t)>>]
  BY DEF Distance, Cell, Cells
<1>. HIDE DEF table
<1>9. IsTable(table, s, t)
  BY <1>7 DEF IsTable
<1>. QED  BY <1>8, <1>9

(* Names at distance zero are equal, and the distance is no less than the   *)
(* difference of the lengths.                                               *)
LEMMA DistanceFacts ==
    ASSUME NEW s, NEW t, IsList(s), IsList(t)
    PROVE  /\ Distance(s, t) \in Nat /\ Length(s) \in Nat /\ Length(t) \in Nat
           /\ Distance(s, t) = 0 => s = t
           /\ Length(s) <= Length(t) + Distance(s, t)
           /\ Length(t) <= Length(s) + Distance(s, t)
<1>1. Len(s) \in Nat /\ Len(t) \in Nat /\ DOMAIN s = 1..Len(s) /\ DOMAIN t = 1..Len(t)
  BY ListFacts
<1>2. PICK d : IsTable(d, s, t) /\ Distance(s, t) = d[<<Len(s), Len(t)>>]
  BY <1>1, DistanceTable
<1>3. PICK m, n : m = Lengths(s) /\ n = Lengths(t)
  OBVIOUS
<1>4. IsLengths(m, s) /\ IsLengths(n, t)
  BY <1>1, <1>3, LengthsFacts
<1>5. /\ m \in [0..Len(s) -> Nat] /\ m[0] = 0 /\ \A k \in 1..Len(s) : m[k] = m[k - 1] + Size(s[k])
      /\ n \in [0..Len(t) -> Nat] /\ n[0] = 0 /\ \A k \in 1..Len(t) : n[k] = n[k - 1] + Size(t[k])
  BY <1>4 DEF IsLengths
<1>. DEFINE Good(i, j) ==
              /\ d[<<i, j>>] \in Nat
              /\ d[<<i, j>>] = 0 => i = j /\ \A k \in 1..i : s[k] = t[k]
              /\ m[i] <= n[j] + d[<<i, j>>]
              /\ n[j] <= m[i] + d[<<i, j>>]
            P == {l \in Nat : \A i \in 0..Len(s), j \in 0..Len(t) : i + j < l => Good(i, j)}
<1>6. ASSUME NEW i \in 0..Len(s), NEW j \in 0..Len(t),
             \A a \in 0..Len(s), b \in 0..Len(t) : a + b < i + j => Good(a, b)
      PROVE  Good(i, j)
  <2>1. Filled(d, s, t, i + j)
    BY <1>6 DEF Filled, Cells
  <2>2. PICK p : p = <<i, j>>
    OBVIOUS
  <2>3. /\ p \in Cells(s, t) /\ Cell(d, s, t, p) \in Nat
        /\ i = 0 => Cell(d, s, t, p) = n[j]
        /\ i # 0 /\ j = 0 => Cell(d, s, t, p) = m[i]
        /\ i # 0 /\ j # 0 =>
             \/ Cell(d, s, t, p) = d[<<i - 1, j>>] + Size(s[i])
             \/ Cell(d, s, t, p) = d[<<i, j - 1>>] + Size(t[j])
             \/ Cell(d, s, t, p) = d[<<i - 1, j - 1>>] + Replacing(s[i], t[j])
    <3>1. p \in Cells(s, t) /\ IsCell(d, s, t, i, j, Cell(d, s, t, p))
      BY <1>1, <2>1, <2>2, CellFacts
    <3>. QED  BY <1>3, <3>1 DEF IsCell
  <2>4. d[p] = Cell(d, s, t, p)
    BY <1>2, <2>3 DEF IsTable
  <2>5. CASE i = 0
    <3>1. d[p] = n[j] /\ n[j] \in Nat /\ m[0] = 0
      BY <1>5, <2>3, <2>4, <2>5
    <3>2. j # 0 => n[j] # 0
      <4>1. j # 0 => j \in 1..Len(t) /\ j - 1 \in 0..Len(t)
        OBVIOUS
      <4>2. j # 0 => n[j] = n[j - 1] + Size(t[j]) /\ n[j - 1] \in Nat
        BY <1>5, <4>1
      <4>3. Size(t[j]) \in Nat /\ Size(t[j]) > 0
        BY SizeFacts
      <4>. QED  BY <4>2, <4>3
    <3>3. d[p] = 0 => j = 0
      BY <3>1, <3>2
    <3>. QED  BY <2>5, <3>1, <3>3, <2>2
  <2>6. CASE i # 0 /\ j = 0
    <3>1. d[p] = m[i] /\ m[i] \in Nat /\ n[0] = 0
      BY <1>5, <2>3, <2>4, <2>6
    <3>2. m[i] # 0
      <4>1. i \in 1..Len(s) /\ i - 1 \in 0..Len(s)
        BY <2>6
      <4>2. m[i] = m[i - 1] + Size(s[i]) /\ m[i - 1] \in Nat
        BY <1>5, <4>1
      <4>3. Size(s[i]) \in Nat /\ Size(s[i]) > 0
        BY SizeFacts
      <4>. QED  BY <4>2, <4>3
    <3>. QED  BY <2>6, <3>1, <3>2, <2>2
  <2>7. CASE i # 0 /\ j # 0
    <3>. DEFINE a == s[i]
                b == t[j]
    <3>1. /\ i \in 1..Len(s) /\ i - 1 \in 0..Len(s) /\ j \in 1..Len(t) /\ j - 1 \in 0..Len(t)
          /\ i - 1 + j < i + j /\ i + (j - 1) < i + j /\ i - 1 + (j - 1) < i + j
      BY <2>7
    <3>2. Good(i - 1, j) /\ Good(i, j - 1) /\ Good(i - 1, j - 1)
      <4>. HIDE DEF Good
      <4>. QED  BY <1>6, <3>1
    <3>3. /\ m[i] = m[i - 1] + Size(a) /\ n[j] = n[j - 1] + Size(b)
          /\ m[i - 1] \in Nat /\ n[j - 1] \in Nat /\ m[i] \in Nat /\ n[j] \in Nat
      BY <1>5, <3>1
    <3>4. /\ Size(a) \in Nat /\ Size(a) > 0 /\ Size(b) \in Nat /\ Size(b) > 0
          /\ Replacing(a, b) \in Nat /\ (Replacing(a, b) = 0 => a = b)
          /\ Size(a) <= Size(b) + Replacing(a, b) /\ Size(b) <= Size(a) + Replacing(a, b)
      BY SizeFacts
    <3>5. \/ d[p] = d[<<i - 1, j>>] + Size(a)
          \/ d[p] = d[<<i, j - 1>>] + Size(b)
          \/ d[p] = d[<<i - 1, j - 1>>] + Replacing(a, b)
      BY <2>3, <2>4, <2>7
    <3>6. CASE d[p] = d[<<i - 1, j>>] + Size(a)
      <4>. DEFINE x == d[<<i - 1, j>>]
                  z == Size(a)
                  u == m[i - 1]
                  v == n[j]
      <4>1. /\ x \in Nat /\ u <= v + x /\ v <= u + x /\ u \in Nat /\ v \in Nat
            /\ z \in Nat /\ z > 0 /\ d[p] = x + z
            /\ m[i] = u + z /\ n[j] = v
        BY <3>2, <3>3, <3>4, <3>6
      <4>. HIDE DEF x, z, u, v
      <4>2. d[p] \in Nat /\ d[p] # 0 /\ m[i] <= n[j] + d[p] /\ n[j] <= m[i] + d[p]
        BY <4>1
      <4>. QED  BY <4>2, <2>2
    <3>7. CASE d[p] = d[<<i, j - 1>>] + Size(b)
      <4>. DEFINE x == d[<<i, j - 1>>]
                  z == Size(b)
                  u == m[i]
                  v == n[j - 1]
      <4>1. /\ x \in Nat /\ u <= v + x /\ v <= u + x /\ u \in Nat /\ v \in Nat
            /\ z \in Nat /\ z > 0 /\ d[p] = x + z
            /\ m[i] = u /\ n[j] = v + z
        BY <3>2, <3>3, <3>4, <3>7
      <4>. HIDE DEF x, z, u, v
      <4>2. d[p] \in Nat /\ d[p] # 0 /\ m[i] <= n[j] + d[p] /\ n[j] <= m[i] + d[p]
        BY <4>1
      <4>. QED  BY <4>2, <2>2
    <3>8. CASE d[p] = d[<<i - 1, j - 1>>] + Replacing(a, b)
      <4>. DEFINE x == d[<<i - 1, j - 1>>]
      <4>1. /\ x \in Nat /\ m[i - 1] <= n[j - 1] + x /\ n[j - 1] <= m[i - 1] + x
            /\ x = 0 => i - 1 = j - 1 /\ \A k \in 1..(i - 1) : s[k] = t[k]
        BY <3>2
      <4>. HIDE DEF x
      <4>2. d[p] = x + Replacing(a, b)
        BY <3>8 DEF x
      <4>3. d[p] \in Nat /\ m[i] <= n[j] + d[p] /\ n[j] <= m[i] + d[p]
        <5>. DEFINE r == Replacing(a, b)
                    sa == Size(a)
                    sb == Size(b)
                    mi == m[i - 1]
                    nj == n[j - 1]
        <5>1. /\ r \in Nat /\ sa \in Nat /\ sb \in Nat /\ mi \in Nat /\ nj \in Nat /\ x \in Nat
              /\ sa <= sb + r /\ sb <= sa + r /\ mi <= nj + x /\ nj <= mi + x
              /\ d[p] = x + r /\ m[i] = mi + sa /\ n[j] = nj + sb
          BY <3>3, <3>4, <4>1, <4>2
        <5>. HIDE DEF r, sa, sb, mi, nj
        <5>. QED  BY <5>1
      <4>4. ASSUME d[p] = 0
            PROVE  i = j /\ \A k \in 1..i : s[k] = t[k]
        <5>1. x = 0 /\ a = b
          BY <3>4, <4>1, <4>2, <4>4
        <5>2. i - 1 = j - 1 /\ \A k \in 1..(i - 1) : s[k] = t[k]
          BY <4>1, <5>1
        <5>3. i = j
          BY <5>2
        <5>4. \A k \in 1..i : k \in 1..(i - 1) \/ k = i
          BY <2>7
        <5>. QED  BY <5>1, <5>2, <5>3, <5>4
      <4>. QED  BY <4>3, <4>4, <2>2
    <3>. QED  BY <3>5, <3>6, <3>7, <3>8
  <2>. QED  BY <2>5, <2>6, <2>7
<1>. HIDE DEF Good
<1>7. 0 \in P
  OBVIOUS
<1>8. ASSUME NEW l \in Nat, l \in P PROVE l + 1 \in P
  <2>1. ASSUME NEW i \in 0..Len(s), NEW j \in 0..Len(t), i + j < l + 1
        PROVE  Good(i, j)
    <3>1. \A a \in 0..Len(s), b \in 0..Len(t) : a + b < i + j => a + b < l
      BY <2>1
    <3>2. \A a \in 0..Len(s), b \in 0..Len(t) : a + b < i + j => Good(a, b)
      BY <1>8, <3>1
    <3>. QED  BY <1>6, <3>2
  <2>. QED  BY <2>1
<1>9. Good(Len(s), Len(t))
  <2>1. Nat \subseteq P
    <3>. HIDE DEF P
    <3>. QED  BY <1>7, <1>8, Induction
  <2>2. Len(s) + Len(t) + 1 \in P
    BY <1>1, <2>1
  <2>3. Len(s) \in 0..Len(s) /\ Len(t) \in 0..Len(t) /\ Len(s) + Len(t) < Len(s) + Len(t) + 1
    BY <1>1
  <2>. QED  BY <2>2, <2>3
<1>10. Length(s) = m[Len(s)] /\ Length(t) = n[Len(t)] /\ m[Len(s)] \in Nat /\ n[Len(t)] \in Nat
  BY <1>1, <1>3, <1>5 DEF Length
<1>11. Distance(s, t) = 0 => s = t
  <2>. SUFFICES ASSUME Distance(s, t) = 0 PROVE s = t
    OBVIOUS
  <2>1. Len(s) = Len(t) /\ \A k \in 1..Len(s) : s[k] = t[k]
    BY <1>2, <1>9 DEF Good
  <2>2. s \in Seq(ToSet(s)) /\ t \in Seq(ToSet(t))
    BY DEF IsList
  <2>. QED  BY <2>1, <2>2, SeqEqual
<1>. QED  BY <1>2, <1>9, <1>10, <1>11 DEF Good

(* The beginning of a list. *)
LEMMA BeginningFacts ==
    ASSUME NEW s, IsList(s), NEW k \in 0..Len(s), NEW b, b = SubSeq(s, 1, k)
    PROVE  IsList(b) /\ Len(b) = k /\ \A i \in 1..k : i \in 1..Len(s) /\ b[i] = s[i]
<1>1. PICK n : n = Len(s)
  OBVIOUS
<1>2. n \in Nat /\ DOMAIN s = 1..n /\ k \in 0..n
  BY <1>1, ListFacts
<1>3. \A i \in 1..k : i \in 1..n /\ s[i] \in ToSet(s)
  BY <1>2 DEF ToSet
<1>4. k \in Int /\ 1 \in Int /\ k \in Nat
  BY <1>2
<1>5. /\ b \in Seq(ToSet(s)) /\ Len(b) = IF 1 <= k THEN k - 1 + 1 ELSE 0
      /\ \A i \in 1..(k - 1 + 1) : b[i] = s[1 + i - 1]
  BY <1>3, <1>4, SubSeqProperties
<1>6. Len(b) = k
  BY <1>4, <1>5
<1>7. \A i \in 1..k : i \in 1..(k - 1 + 1) /\ 1 + i - 1 = i
  BY <1>4
<1>8. \A i \in 1..k : b[i] = s[i]
  BY <1>5, <1>7
<1>9. b \in [1..k -> ToSet(s)]
  BY <1>5, <1>6, LenProperties
<1>10. DOMAIN b = 1..k /\ b = [i \in 1..k |-> b[i]]
  BY <1>9
<1>11. IsList(b)
  BY <1>4, <1>10, ListOf
<1>. QED  BY <1>1, <1>3, <1>6, <1>8, <1>11

(* The last part of a list and what is before it. *)
LEMMA FrontFacts ==
    ASSUME NEW s, IsList(s), s # <<>>, NEW f, f = Front(s)
    PROVE  /\ IsList(f) /\ Len(s) = Len(f) + 1 /\ Last(s) = s[Len(s)] /\ Len(s) \in 1..Len(s)
           /\ \A i \in 1..Len(f) : i \in 1..Len(s) /\ f[i] = s[i]
<1>1. PICK n : n = Len(s)
  OBVIOUS
<1>2. n \in Nat /\ n # 0
  <2>1. s \in Seq(ToSet(s))
    BY DEF IsList
  <2>. QED  BY <1>1, <2>1, EmptySeq
<1>3. PICK k : k = n - 1
  OBVIOUS
<1>4. k \in 0..n /\ n = k + 1 /\ n \in 1..n
  BY <1>2, <1>3
<1>5. f = SubSeq(s, 1, k)
  BY <1>1, <1>3 DEF Front
<1>6. PICK b : b = SubSeq(s, 1, k)
  OBVIOUS
<1>7. k \in 0..Len(s)
  BY <1>1, <1>4
<1>8. IsList(b) /\ Len(b) = k /\ \A i \in 1..k : b[i] = s[i]
  BY <1>6, <1>7, BeginningFacts
<1>9. \A i \in 1..k : i \in 1..Len(s)
  BY <1>1, <1>4
<1>. QED  BY <1>1, <1>4, <1>5, <1>6, <1>8, <1>9 DEF Last

(* Lists are equal when their elements are. *)
LEMMA ListEqual ==
    ASSUME NEW s, NEW t, IsList(s), IsList(t), Len(s) = Len(t), \A i \in 1..Len(s) : s[i] = t[i]
    PROVE  s = t
<1>1. s \in Seq(ToSet(s) \cup ToSet(t)) /\ t \in Seq(ToSet(s) \cup ToSet(t))
  BY SeqMonotonic DEF IsList
<1>. QED  BY <1>1, SeqEqual

LEMMA LowerFacts ==
    ASSUME NEW s, IsList(s), NEW low, low = Lower(s)
    PROVE  /\ IsList(low) /\ Len(low) = Len(s) /\ DOMAIN low = DOMAIN s
           /\ \A i \in DOMAIN s : low[i] = LowerPart(s[i])
<1>1. Len(s) \in Nat /\ DOMAIN s = 1..Len(s)
  BY ListFacts
<1>. DEFINE n == Len(s)
<1>2. DOMAIN low = 1..n /\ low = [i \in 1..n |-> low[i]] /\ \A i \in 1..n : low[i] = LowerPart(s[i])
  BY <1>1 DEF Lower
<1>. HIDE DEF n
<1>3. IsList(low) /\ Len(low) = n
  BY <1>1, <1>2, ListOf DEF n
<1>. QED  BY <1>1, <1>2, <1>3 DEF n

(* The name of a sidecar. *)
IsSidecar(json) == IsList(json) /\ Lower(ExtensionOf(json)) = JSON

(* Its stem is what is left of it without the extension and without the     *)
(* mark of a sidecar.                                                       *)
LEMMA JsonStemFacts ==
    ASSUME NEW json, IsSidecar(json)
    PROVE  /\ IsList(JsonStem(json))
           /\ Lower(json) \in {JsonStem(json) \o JSON, JsonStem(json) \o SM \o JSON}
<1>1. json # <<>> /\ Last(json) \in Extensions
  <2>. SUFFICES ASSUME ~(json # <<>> /\ Last(json) \in Extensions) PROVE FALSE
    OBVIOUS
  <2>1. Lower(<<>>) = JSON
    BY DEF IsSidecar, ExtensionOf
  <2>2. DOMAIN Lower(<<>>) = {} /\ DOMAIN JSON = 1..1
    BY Nothing DEF Lower, JSON
  <2>. QED  BY <2>1, <2>2
<1>2. LowerPart(Last(json)) = ".json"
  <2>1. ExtensionOf(json) = <<Last(json)>>
    BY <1>1 DEF ExtensionOf
  <2>2. PICK x : x = <<Last(json)>>
    OBVIOUS
  <2>3. IsList(x) /\ DOMAIN x = 1..1 /\ x[1] = Last(json)
    BY <2>2, One
  <2>4. Lower(x)[1] = LowerPart(x[1]) 
    BY <2>3 DEF Lower
  <2>5. Lower(x) = <<".json">>
    BY <2>1, <2>2 DEF IsSidecar, JSON
  <2>. QED  BY <2>3, <2>4, <2>5
<1>. DEFINE low  == Lower(json)
            base == Front(low)
<1>3. IsList(json) /\ IsList(low) /\ Len(low) = Len(json) /\ DOMAIN low = DOMAIN json
      /\ DOMAIN json = 1..Len(json) /\ Len(json) \in Nat
      /\ \A i \in DOMAIN json : low[i] = LowerPart(json[i])
  BY LowerFacts, ListFacts DEF IsSidecar
<1>4. Len(json) \in 1..Len(json) /\ Last(json) = json[Len(json)]
  BY <1>1, <1>3, FrontFacts
<1>. HIDE DEF low
<1>5. low # <<>>
  <2>1. Len(low) # 0
    BY <1>3, <1>4
  <2>. QED  BY <2>1, Nothing
<1>6. /\ IsList(base) /\ Len(low) = Len(base) + 1
      /\ \A i \in 1..Len(base) : base[i] = low[i]
      /\ low[Len(low)] = ".json"
  BY <1>2, <1>3, <1>4, <1>5, FrontFacts
<1>. HIDE DEF base
<1>7. low = base \o JSON
  <2>1. IsList(JSON) /\ Len(JSON) = 1 /\ JSON[1] = ".json"
    BY One DEF JSON
  <2>. DEFINE c == base \o JSON
  <2>2. Joined(c, base, JSON)
    BY <1>6, <2>1, ListConcat
  <2>. HIDE DEF c
  <2>3. IsList(c) /\ Len(c) = Len(low) /\ Len(base) \in Nat
        /\ (\A i \in 1..Len(base) : c[i] = low[i]) /\ c[Len(base) + 1] = ".json"
    BY <1>6, <2>1, <2>2, ListFacts DEF Joined
  <2>4. \A i \in 1..Len(low) : i \in 1..Len(base) \/ i = Len(low)
    BY <1>6, <2>3
  <2>5. \A i \in 1..Len(low) : low[i] = c[i]
    BY <1>6, <2>3, <2>4
  <2>. QED  BY <1>3, <2>3, <2>5, ListEqual DEF c
<1>8. CASE base # <<>> /\ <<Last(base)>> = SM
  <2>1. JsonStem(json) = Front(base)
    BY <1>8 DEF JsonStem, base, low
  <2>2. PICK stem : stem = Front(base)
    OBVIOUS
  <2>3. IsList(stem) /\ Len(base) = Len(stem) + 1
        /\ (\A i \in 1..Len(stem) : stem[i] = base[i]) /\ base[Len(base)] = Last(base)
    BY <1>6, <1>8, <2>2, FrontFacts
  <2>4. base = stem \o SM
    <3>1. IsList(SM) /\ Len(SM) = 1 /\ SM[1] = Last(base)
      BY <1>8, One
    <3>. DEFINE c == stem \o SM
    <3>2. Joined(c, stem, SM)
      BY <2>3, <3>1, ListConcat
    <3>. HIDE DEF c
    <3>3. IsList(c) /\ Len(c) = Len(base) /\ Len(stem) \in Nat
          /\ (\A i \in 1..Len(stem) : c[i] = base[i]) /\ c[Len(stem) + 1] = Last(base)
      BY <2>3, <3>1, <3>2, ListFacts DEF Joined
    <3>4. \A i \in 1..Len(base) : i \in 1..Len(stem) \/ i = Len(base)
      BY <2>3, <3>3
    <3>5. \A i \in 1..Len(base) : base[i] = c[i]
      BY <2>3, <3>3, <3>4
    <3>. QED  BY <1>6, <3>3, <3>5, ListEqual DEF c
  <2>. QED  BY <1>7, <2>1, <2>2, <2>3, <2>4 DEF low
<1>9. CASE ~(base # <<>> /\ <<Last(base)>> = SM)
  <2>1. JsonStem(json) = base
    BY <1>9 DEF JsonStem, base, low
  <2>. QED  BY <1>6, <1>7, <2>1 DEF low
<1>. QED  BY <1>8, <1>9

-----------------------------------------------------------------------------
(* Tier 7: the nearest sidecar.                                             *)

Far(stem, json) == Distance(Lower(stem), JsonStem(json))

LEMMA Pair ==
    ASSUME NEW a \in Nat, NEW b \in Nat
    PROVE  Min({a, b}) \in {a, b} /\ Max({a, b}) \in {a, b}
<1>1. \E x \in {a, b} : \A y \in {a, b} : x <= y
  BY a <= b \/ b <= a
<1>2. \E x \in {a, b} : \A y \in {a, b} : x >= y
  BY a <= b \/ b <= a
<1>3. Min({a, b}) \in {a, b}
  BY <1>1 DEF Min
<1>4. Max({a, b}) \in {a, b}
  BY <1>2 DEF Max
<1>. QED  BY <1>3, <1>4

LEMMA ThresholdFacts ==
    ASSUME NEW stem, IsList(stem)
    PROVE  DynamicThreshold(stem) \in Nat /\ DynamicThreshold(stem) <= Threshold
<1>. DEFINE l == Length(Lower(stem))
            t == l \div 10
            u == Max({1, t})
            d == Min({Threshold, u})
<1>1. l \in Nat
  <2>1. IsList(Lower(stem))
    BY LowerFacts
  <2>. QED  BY <2>1, DistanceFacts
<1>. HIDE DEF l
<1>2. t \in Nat
  BY <1>1
<1>3. DynamicThreshold(stem) = d
  BY DEF DynamicThreshold, l
<1>. HIDE DEF t
<1>4. u \in Nat
  <2>1. u \in {1, t} /\ 1 \in Nat
    BY <1>2, Pair
  <2>. QED  BY <1>2, <2>1
<1>. HIDE DEF u
<1>5. Threshold \in Nat
  BY MatcherAssumption
<1>6. d \in Nat /\ d <= Threshold
  <2>1. \E x \in {Threshold, u} : \A y \in {Threshold, u} : x <= y
    <3>1. Threshold <= u \/ u <= Threshold
      BY <1>4, <1>5
    <3>. QED  BY <1>4, <1>5, <3>1
  <2>2. d \in {Threshold, u} /\ \A y \in {Threshold, u} : d <= y
    BY <2>1 DEF Min
  <2>. QED  BY <1>4, <1>5, <2>2
<1>. QED  BY <1>3, <1>6

(* The distances are numbers, and the check of the lengths skips only what  *)
(* is beyond the limit.                                                     *)
FarFrom(stem, json) == Abs(Length(Lower(stem)) - Length(JsonStem(json))) > DynamicThreshold(stem)
Measured(stem, order) ==
    /\ DynamicThreshold(stem) \in Nat
    /\ \A i \in 1..Len(order) : /\ Far(stem, order[i]) \in Nat
                                /\ FarFrom(stem, order[i]) => Far(stem, order[i]) > DynamicThreshold(stem)

LEMMA MeasuredFacts ==
    ASSUME NEW stem, IsList(stem), NEW order, \A i \in 1..Len(order) : IsSidecar(order[i])
    PROVE  Measured(stem, order)
<1>1. DynamicThreshold(stem) \in Nat
  BY ThresholdFacts
<1>2. ASSUME NEW i \in 1..Len(order)
      PROVE  /\ Far(stem, order[i]) \in Nat
             /\ FarFrom(stem, order[i]) => Far(stem, order[i]) > DynamicThreshold(stem)
  <2>. DEFINE a == Length(Lower(stem))
              b == Length(JsonStem(order[i]))
              d == Far(stem, order[i])
              l == DynamicThreshold(stem)
  <2>1. IsList(Lower(stem)) /\ IsList(JsonStem(order[i]))
    BY LowerFacts, JsonStemFacts
  <2>2. d \in Nat /\ a \in Nat /\ b \in Nat /\ a <= b + d /\ b <= a + d
    BY <2>1, DistanceFacts DEF Far
  <2>3. FarFrom(stem, order[i]) = (Abs(a - b) > l)
    BY DEF FarFrom
  <2>. HIDE DEF a, b, d, l
  <2>4. Abs(a - b) > l => d > l
    BY <1>1, <2>2 DEF Abs, l
  <2>. QED  BY <2>2, <2>3, <2>4 DEF d, l
<1>. QED  BY <1>1, <1>2 DEF Measured

(* What the loop has after the first k sidecars. *)
Nearest(stem, order, k, b) ==
    /\ b.least \in 0..(DynamicThreshold(stem) + 1) /\ b.tie \in BOOLEAN
    /\ \A i \in 1..k : b.least <= Far(stem, order[i])
    /\ b.least > DynamicThreshold(stem) => ~b.tie
    /\ b.least <= DynamicThreshold(stem) =>
         \E i \in 1..k : /\ order[i] = b.json /\ Far(stem, order[i]) = b.least
                         /\ b.tie = \E j \in 1..k : j # i /\ Far(stem, order[j]) = b.least

LEMMA WeighFacts ==
    ASSUME NEW stem, NEW order, Measured(stem, order), Len(order) \in Nat,
           NEW k \in 1..Len(order), NEW b, Nearest(stem, order, k - 1, b)
    PROVE  Nearest(stem, order, k, Weigh(stem, b, order[k]))
<1>. DEFINE l == DynamicThreshold(stem)
            d == Far(stem, order[k])
            c == Weigh(stem, b, order[k])
<1>1. /\ l \in Nat /\ \A i \in 1..Len(order) : Far(stem, order[i]) \in Nat
      /\ FarFrom(stem, order[k]) => d > l
  BY DEF Measured
<1>2. /\ b.least \in 0..(l + 1) /\ b.tie \in BOOLEAN
      /\ \A i \in 1..(k - 1) : b.least <= Far(stem, order[i])
      /\ b.least > l => ~b.tie
      /\ b.least <= l =>
           \E i \in 1..(k - 1) : /\ order[i] = b.json /\ Far(stem, order[i]) = b.least
                                 /\ b.tie = \E j \in 1..(k - 1) : j # i /\ Far(stem, order[j]) = b.least
  BY DEF Nearest
<1>3. c = IF FarFrom(stem, order[k]) THEN b
          ELSE IF d < b.least THEN [least |-> d, tie |-> FALSE, json |-> order[k]]
          ELSE IF d = b.least /\ b.least <= l THEN [b EXCEPT !.tie = TRUE]
          ELSE b
  BY DEF Weigh, Far, FarFrom
<1>. HIDE DEF c, d, l
<1>4. /\ d \in Nat /\ \A i \in 1..k : i \in 1..(k - 1) \/ i = k
      /\ k \in 1..k /\ k \notin 1..(k - 1) /\ \A i \in 1..(k - 1) : i \in 1..k
      /\ \A i \in 1..k : Far(stem, order[i]) \in Nat
  BY <1>1 DEF d
<1>5. d = Far(stem, order[k])
  BY DEF d
<1>6. CASE ~FarFrom(stem, order[k]) /\ d < b.least
  <2>1. c.least = d /\ c.tie = FALSE /\ c.json = order[k]
    BY <1>3, <1>6
  <2>2. c.least \in 0..(l + 1)
    BY <1>1, <1>2, <1>4, <1>6, <2>1
  <2>3. ASSUME NEW i \in 1..k PROVE c.least <= Far(stem, order[i])
    <3>1. i = k => c.least <= Far(stem, order[i])
      BY <1>4, <1>5, <2>1
    <3>2. i \in 1..(k - 1) => c.least < Far(stem, order[i])
      BY <1>2, <1>4, <1>6, <2>1
    <3>. QED  BY <1>4, <2>1, <3>1, <3>2
  <2>4. ~ \E j \in 1..k : j # k /\ Far(stem, order[j]) = c.least
    <3>. SUFFICES ASSUME NEW j \in 1..k, j # k PROVE Far(stem, order[j]) # c.least
      OBVIOUS
    <3>1. b.least <= Far(stem, order[j]) /\ Far(stem, order[j]) \in Nat
      BY <1>2, <1>4
    <3>. QED  BY <1>2, <1>4, <1>6, <2>1, <3>1
  <2>. QED  BY <1>4, <1>5, <2>1, <2>2, <2>3, <2>4 DEF Nearest, c, l
<1>7. CASE ~FarFrom(stem, order[k]) /\ d = b.least /\ b.least <= l
  <2>1. PICK i \in 1..(k - 1) : order[i] = b.json /\ Far(stem, order[i]) = b.least
    BY <1>2, <1>7
  <2>2. \A j \in 1..k : b.least <= Far(stem, order[j])
    BY <1>2, <1>4, <1>5, <1>7
  <2>3. i \in 1..k /\ i # k
    BY <1>4
  <2>4. c.least = b.least /\ c.tie = TRUE /\ c.json = b.json
    <3>1. c = [b EXCEPT !.tie = TRUE]
      BY <1>3, <1>7, <1>2, <1>4
    <3>. QED  BY <3>1
  <2>5. c.least <= l /\ c.least \in 0..(l + 1)
    BY <1>2, <1>7, <2>4
  <2>6. \E j \in 1..k : j # i /\ Far(stem, order[j]) = c.least
    BY <1>4, <1>5, <1>7, <2>3, <2>4
  <2>7. ~(c.least > l)
    BY <1>1, <1>2, <2>5
  <2>8. c.tie \in BOOLEAN /\ c.tie = \E j \in 1..k : j # i /\ Far(stem, order[j]) = c.least
    BY <2>4, <2>6
  <2>9. \A j \in 1..k : c.least <= Far(stem, order[j])
    BY <2>2, <2>4
  <2>10. order[i] = c.json /\ Far(stem, order[i]) = c.least
    BY <2>1, <2>4
  <2>. QED  BY <2>3, <2>5, <2>7, <2>8, <2>9, <2>10 DEF Nearest, c, l
<1>8. CASE ~(~FarFrom(stem, order[k]) /\ (d < b.least \/ (d = b.least /\ b.least <= l)))
  <2>1. c = b /\ b.least <= d /\ (b.least <= l => d # b.least)
    <3>0. b.least \in Nat /\ b.least <= l + 1 /\ d \in Nat /\ l \in Nat
      BY <1>1, <1>2, <1>4
    <3>1. CASE FarFrom(stem, order[k])
      <4>1. c = b
        BY <1>3, <3>1
      <4>2. d > l
        BY <1>1, <3>1 DEF d, l
      <4>. QED  BY <3>0, <4>1, <4>2
    <3>2. CASE ~FarFrom(stem, order[k])
      <4>1. ~(d < b.least) /\ ~(d = b.least /\ b.least <= l)
        BY <1>8, <3>2
      <4>2. c = b
        BY <1>3, <3>2, <4>1
      <4>. QED  BY <3>0, <4>1, <4>2
    <3>. QED  BY <3>1, <3>2
  <2>2. b.least <= d
    BY <2>1
  <2>3. b.least <= l => d # b.least
    BY <2>1
  <2>4. \A j \in 1..k : b.least <= Far(stem, order[j])
    BY <1>2, <1>4, <1>5, <2>2
  <2>5. ASSUME b.least <= l
        PROVE  \E i \in 1..k : /\ order[i] = b.json /\ Far(stem, order[i]) = b.least
                               /\ b.tie = \E j \in 1..k : j # i /\ Far(stem, order[j]) = b.least
    <3>1. PICK i \in 1..(k - 1) :
             /\ order[i] = b.json /\ Far(stem, order[i]) = b.least
             /\ b.tie = \E j \in 1..(k - 1) : j # i /\ Far(stem, order[j]) = b.least
      BY <1>2, <2>5
    <3>2. (\E j \in 1..(k - 1) : j # i /\ Far(stem, order[j]) = b.least)
          = (\E j \in 1..k : j # i /\ Far(stem, order[j]) = b.least)
      BY <1>4, <1>5, <2>3, <2>5
    <3>. QED  BY <1>4, <3>1, <3>2
  <2>. QED  BY <1>2, <2>1, <2>4, <2>5 DEF Nearest, c, l
<1>. QED  BY <1>6, <1>7, <1>8

(* The loop ends with the nearest of all. *)
LEMMA BestFacts ==
    ASSUME NEW stem, NEW order, IsList(order), Measured(stem, order)
    PROVE  Nearest(stem, order, Len(order), Best(order, stem))
<1>. DEFINE n     == Len(order)
            start == [least |-> DynamicThreshold(stem) + 1, tie |-> FALSE, json |-> <<>>]
            S     == [least : 0..(DynamicThreshold(stem) + 1), tie : BOOLEAN, json : ToSet(order) \cup {<<>>}]
            step  == [q \in S \X (1..n) |-> Weigh(stem, q[1], order[q[2]])]
            Def(f) == f = [k \in 0..n |-> IF k = 0 THEN start ELSE Weigh(stem, f[k - 1], order[k])]
            best  == CHOOSE f : Def(f)
<1>1. n \in Nat /\ DOMAIN order = 1..n /\ DynamicThreshold(stem) \in Nat
  BY ListFacts DEF Measured
<1>2. Best(order, stem) = best[n]
  BY DEF Best
<1>3. start \in S
  BY <1>1
<1>4. ASSUME NEW b \in S, NEW i \in 1..n
      PROVE  Weigh(stem, b, order[i]) \in S
  <2>. DEFINE d == Far(stem, order[i])
              l == DynamicThreshold(stem)
  <2>1. d \in Nat /\ l \in Nat /\ order[i] \in ToSet(order) /\ b.least \in 0..(l + 1)
    BY <1>1 DEF Measured, ToSet
  <2>2. \/ Weigh(stem, b, order[i]) = b
        \/ Weigh(stem, b, order[i]) = [b EXCEPT !.tie = TRUE]
        \/ d < b.least /\ Weigh(stem, b, order[i]) = [least |-> d, tie |-> FALSE, json |-> order[i]]
    BY DEF Weigh, Far
  <2>3. [b EXCEPT !.tie = TRUE] \in S
    OBVIOUS
  <2>4. d < b.least => [least |-> d, tie |-> FALSE, json |-> order[i]] \in S
    <3>. HIDE DEF d
    <3>. QED  BY <2>1
  <2>. HIDE DEF S, d
  <2>. QED  BY <2>2, <2>3, <2>4
<1>. HIDE DEF S, start
<1>5. \A b \in S, i \in 1..n : step[<<b, i>>] = Weigh(stem, b, order[i])
  OBVIOUS
<1>6. IsStep(S, n, step)
  BY <1>4, <1>5 DEF IsStep
<1>. HIDE DEF step
<1>7. PICK f : IsRun(f, n, S, start, step)
  BY <1>1, <1>3, <1>6, Loop
<1>8. f \in [0..n -> S] /\ f[0] = start /\ \A i \in 1..n : f[i] = step[<<f[i - 1], i>>]
  BY <1>7 DEF IsRun
<1>9. Def(f)
  <2>1. ASSUME NEW k \in 0..n, k # 0
        PROVE  f[k] = Weigh(stem, f[k - 1], order[k])
    <3>1. k \in 1..n /\ k - 1 \in 0..n
      BY <1>1, <2>1
    <3>. QED  BY <1>5, <1>8, <3>1
  <2>. QED  BY <1>8, <2>1
<1>10. Def(best)
  <2>. HIDE DEF Def
  <2>. QED  BY <1>9
<1>. HIDE DEF best
<1>11. best[0] = start /\ \A k \in 1..n : best[k] = Weigh(stem, best[k - 1], order[k])
  BY <1>1, <1>10
<1>. HIDE DEF Def
<1>. DEFINE P == {k \in Nat : k <= n => Nearest(stem, order, k, best[k])}
<1>12. 0 \in P
  <2>1. /\ start.least = DynamicThreshold(stem) + 1 /\ start.tie = FALSE /\ 1..0 = {}
    BY DEF start
  <2>2. start.least \in 0..(DynamicThreshold(stem) + 1) /\ ~(start.least <= DynamicThreshold(stem))
    BY <1>1, <2>1
  <2>3. Nearest(stem, order, 0, start)
    BY <2>1, <2>2 DEF Nearest
  <2>. QED  BY <1>11, <2>3
<1>13. ASSUME NEW k \in Nat, k \in P PROVE k + 1 \in P
  <2>. SUFFICES ASSUME k + 1 <= n PROVE Nearest(stem, order, k + 1, best[k + 1])
    OBVIOUS
  <2>1. k + 1 \in 1..n /\ (k + 1) - 1 = k /\ Nearest(stem, order, k, best[k])
    BY <1>1, <1>13
  <2>2. best[k + 1] = Weigh(stem, best[k], order[k + 1])
    BY <1>11, <2>1
  <2>. PICK j : j = k + 1
    OBVIOUS
  <2>3. j \in 1..n /\ Nearest(stem, order, j - 1, best[k])
    BY <2>1
  <2>4. Nearest(stem, order, j, Weigh(stem, best[k], order[j]))
    BY <1>1, <2>3, WeighFacts
  <2>. QED  BY <2>2, <2>4
<1>14. n \in P
  <2>. HIDE DEF P
  <2>. QED  BY <1>1, <1>12, <1>13, Induction
<1>. QED  BY <1>1, <1>2, <1>14

Distinct(s) == \A i, j \in DOMAIN s : s[i] = s[j] => i = j

(* The one sidecar of names that is nearest to the stem, within the limit.  *)
IsNearest(names, stem, json) ==
    /\ json \in names /\ Far(stem, json) <= DynamicThreshold(stem)
    /\ \A other \in names \ {json} : Far(stem, other) > Far(stem, json)

(* The match m is that one, if there is one.                                *)
NearestFound(names, count, name, m) ==
    IF count <= FuzzyCap /\ \E json : IsNearest(names, Stem(name), json)
    THEN \E json : /\ IsNearest(names, Stem(name), json)
                   /\ m = Candidate(json, 7, (100 - Far(Stem(name), json) * 10) % 256)
    ELSE m = NoMatch

(* Fuzzy matching finds it, whatever the order of the folder's sidecars is. *)
LEMMA FuzzyFacts ==
    ASSUME NEW name, NEW order, IsList(order), Distinct(order), Measured(Stem(name), order),
           NEW m, m = Fuzzy(order, name)
    PROVE  NearestFound(ToSet(order), Len(order), name, m)
<1>. DEFINE stem  == Stem(name)
            n     == Len(order)
            names == ToSet(order)
            b     == Best(order, stem)
            l     == DynamicThreshold(stem)
            d(i)  == Far(stem, order[i])
<1>1. n \in Nat /\ DOMAIN order = 1..n /\ l \in Nat /\ FuzzyCap \in Nat /\ \A i \in 1..n : d(i) \in Nat
  BY ListFacts, MatcherAssumption DEF Measured
<1>2. Nearest(stem, order, n, b)
  BY BestFacts
<1>3. m = IF n > FuzzyCap \/ b.tie \/ b.least > l THEN NoMatch
          ELSE Candidate(b.json, 7, (100 - b.least * 10) % 256)
  BY DEF Fuzzy
<1>. HIDE DEF b, stem
<1>4. /\ b.least \in 0..(l + 1) /\ b.tie \in BOOLEAN
      /\ \A i \in 1..n : b.least <= d(i)
      /\ b.least > l => ~b.tie
      /\ b.least <= l =>
           \E i \in 1..n : /\ order[i] = b.json /\ d(i) = b.least
                           /\ b.tie = \E j \in 1..n : j # i /\ d(j) = b.least
  BY <1>2 DEF Nearest
<1>5. \A json \in names : \E i \in 1..n : order[i] = json /\ Far(stem, json) = d(i)
  BY <1>1 DEF ToSet
<1>6. \A i \in 1..n : order[i] \in names /\ Far(stem, order[i]) = d(i)
  BY <1>1 DEF ToSet
<1>7. \A i, j \in 1..n : i # j => order[i] # order[j]
  BY <1>1 DEF Distinct
<1>. HIDE DEF names, l, n
<1>8. CASE b.least > l
  <2>1. ASSUME NEW json, IsNearest(names, stem, json) PROVE FALSE
    <3>1. PICK i \in 1..n : Far(stem, json) = d(i)
      BY <1>5, <2>1 DEF IsNearest
    <3>2. d(i) <= l /\ b.least <= d(i) /\ d(i) \in Nat
      BY <1>1, <1>4, <2>1, <3>1 DEF IsNearest, l
    <3>. QED  BY <1>1, <1>4, <1>8, <3>2
  <2>2. m = NoMatch
    BY <1>3, <1>8
  <2>. QED  BY <2>1, <2>2 DEF NearestFound, stem, n, names
<1>9. CASE ~(b.least > l) /\ b.tie
  <2>1. PICK i \in 1..n, j \in 1..n : d(i) = b.least /\ d(j) = b.least /\ j # i
    BY <1>1, <1>4, <1>9
  <2>2. ASSUME NEW json, IsNearest(names, stem, json) PROVE FALSE
    <3>1. PICK k \in 1..n : order[k] = json /\ Far(stem, json) = d(k)
      BY <1>5, <2>2 DEF IsNearest
    <3>2. PICK o \in {i, j} : o # k
      BY <2>1
    <3>3. o \in 1..n /\ order[o] # json /\ order[o] \in names /\ d(o) = b.least
      BY <1>6, <1>7, <2>1, <3>1, <3>2
    <3>4. d(o) > d(k)
      BY <1>6, <2>2, <3>1, <3>3 DEF IsNearest
    <3>5. b.least <= d(k) /\ b.least \in Nat /\ d(k) \in Nat
      BY <1>1, <1>4
    <3>. QED  BY <3>3, <3>4, <3>5
  <2>3. m = NoMatch
    BY <1>3, <1>9
  <2>. QED  BY <2>2, <2>3 DEF NearestFound, stem, n, names
<1>10. CASE ~(b.least > l) /\ ~b.tie
  <2>1. PICK i \in 1..n : order[i] = b.json /\ d(i) = b.least /\ \A j \in 1..n : j = i \/ d(j) # b.least
    <3>1. b.least <= l
      BY <1>1, <1>4, <1>10
    <3>2. PICK i \in 1..n : /\ order[i] = b.json /\ d(i) = b.least
                            /\ b.tie = \E j \in 1..n : j # i /\ d(j) = b.least
      BY <1>4, <3>1
    <3>3. ~ \E j \in 1..n : j # i /\ d(j) = b.least
      <4>. HIDE DEF d
      <4>. QED  BY <1>10, <3>2
    <3>. QED  BY <3>2, <3>3
  <2>2. ASSUME NEW other \in names \ {b.json} PROVE Far(stem, other) > Far(stem, b.json)
    <3>1. PICK j \in 1..n : order[j] = other /\ Far(stem, other) = d(j)
      BY <1>5
    <3>2. j # i
      BY <2>1, <3>1
    <3>3. d(j) # b.least /\ b.least <= d(j) /\ d(j) \in Nat /\ b.least \in Nat
      BY <1>1, <1>4, <2>1, <3>2
    <3>4. Far(stem, b.json) = b.least
      BY <1>6, <2>1
    <3>. QED  BY <3>1, <3>3, <3>4
  <2>3. b.json \in names /\ Far(stem, b.json) = b.least
    BY <1>6, <2>1
  <2>4. IsNearest(names, stem, b.json)
    BY <1>1, <1>4, <1>10, <2>2, <2>3 DEF IsNearest, l
  <2>5. CASE n > FuzzyCap
    <3>1. m = NoMatch /\ ~(n <= FuzzyCap)
      BY <1>1, <1>3, <2>5
    <3>. QED  BY <3>1 DEF NearestFound, stem, n, names
  <2>6. CASE ~(n > FuzzyCap)
    <3>1. m = Candidate(b.json, 7, (100 - Far(stem, b.json) * 10) % 256) /\ n <= FuzzyCap
      BY <1>1, <1>3, <1>10, <2>3, <2>6
    <3>. QED  BY <2>4, <3>1 DEF NearestFound, stem, n, names
  <2>. QED  BY <2>5, <2>6
<1>. QED  BY <1>8, <1>9, <1>10

(* There is no second one. *)
LEMMA NearestFoundOnce ==
    ASSUME NEW names, NEW count, NEW name, NEW m, NEW k, \A json \in names : Far(Stem(name), json) \in Nat,
           NearestFound(names, count, name, m), NearestFound(names, count, name, k)
    PROVE  m = k
<1>. DEFINE stem == Stem(name)
<1>1. ASSUME NEW x, NEW y, IsNearest(names, stem, x), IsNearest(names, stem, y)
      PROVE  x = y
  <2>. SUFFICES ASSUME x # y PROVE FALSE
    OBVIOUS
  <2>1. x \in names /\ y \in names /\ Far(stem, y) > Far(stem, x) /\ Far(stem, x) > Far(stem, y)
    BY <1>1 DEF IsNearest
  <2>2. Far(stem, x) \in Nat /\ Far(stem, y) \in Nat
    BY <2>1
  <2>. QED  BY <2>1, <2>2
<1>2. CASE count <= FuzzyCap /\ \E json : IsNearest(names, stem, json)
  <2>1. PICK x : IsNearest(names, stem, x) /\ m = Candidate(x, 7, (100 - Far(stem, x) * 10) % 256)
    BY <1>2 DEF NearestFound
  <2>2. PICK y : IsNearest(names, stem, y) /\ k = Candidate(y, 7, (100 - Far(stem, y) * 10) % 256)
    BY <1>2 DEF NearestFound
  <2>. QED  BY <1>1, <2>1, <2>2
<1>3. CASE ~(count <= FuzzyCap /\ \E json : IsNearest(names, stem, json))
  BY <1>3 DEF NearestFound
<1>. QED  BY <1>2, <1>3

-----------------------------------------------------------------------------
(* The index of a folder's sidecars.                                        *)

(* An index of names: it answers for every name in lower case. *)
IsIndex(ix, names) ==
    /\ ix = [names |-> names, lower |-> [low \in {Lower(n) : n \in names} |-> ix.lower[low]]]
    /\ \A low \in DOMAIN ix.lower : ix.lower[low] \in names /\ Lower(ix.lower[low]) = low

LEMMA IsIndexFields ==
    ASSUME NEW ix, NEW names, IsIndex(ix, names)
    PROVE  ix.names = names /\ DOMAIN ix.lower = {Lower(n) : n \in names}
<1>1. PICK f : f = [low \in {Lower(n) : n \in names} |-> ix.lower[low]]
  OBVIOUS
<1>2. ix = [names |-> names, lower |-> f]
  BY <1>1 DEF IsIndex
<1>3. ix.names = names /\ ix.lower = f
  BY <1>2
<1>. QED  BY <1>1, <1>3

LEMMA IndexOfFacts ==
    ASSUME NEW names, IsList(names)
    PROVE  IsIndex(IndexOf(names), ToSet(names))
<1>. DEFINE places(low) == {i \in DOMAIN names : Lower(names[i]) = low}
            lows  == {Lower(n) : n \in ToSet(names)}
            lower == [low \in lows |-> names[Max(places(low))]]
<1>1. IndexOf(names) = [names |-> ToSet(names), lower |-> lower]
  BY DEF IndexOf
<1>2. ASSUME NEW low \in lows
      PROVE  lower[low] \in ToSet(names) /\ Lower(lower[low]) = low
  <2>. DEFINE P == places(low)
  <2>1. Len(names) \in Nat /\ P \in SUBSET (1..Len(names))
    BY ListFacts
  <2>2. P # {}
    BY DEF ToSet
  <2>3. Max(P) \in P
    <3>. HIDE DEF P
    <3>. QED  BY <2>1, <2>2, Largest
  <2>. QED  BY <2>3 DEF ToSet
<1>3. lower = [low \in lows |-> lower[low]] /\ DOMAIN lower = lows
  OBVIOUS
<1>. PICK ix : ix = IndexOf(names)
  OBVIOUS
<1>. HIDE DEF lower
<1>4. ix.lower = lower /\ ix.names = ToSet(names)
  BY <1>1
<1>. QED  BY <1>1, <1>2, <1>3, <1>4 DEF IsIndex

(* Without sidecars that differ in case only, there is one index. *)
LEMMA IndexIsUnique ==
    ASSUME NEW names, \A n, m \in names : Lower(n) = Lower(m) => n = m,
           NEW ix, IsIndex(ix, names), NEW iy, IsIndex(iy, names)
    PROVE  ix = iy
<1>. DEFINE lows == {Lower(n) : n \in names}
            f == [low \in lows |-> ix.lower[low]]
            g == [low \in lows |-> iy.lower[low]]
<1>1. ix = [names |-> names, lower |-> f] /\ iy = [names |-> names, lower |-> g]
  BY DEF IsIndex
<1>2. \A low \in lows : ix.lower[low] \in names /\ Lower(ix.lower[low]) = low
  <2>1. DOMAIN ix.lower = lows
    BY IsIndexFields
  <2>. QED  BY <2>1 DEF IsIndex
<1>3. \A low \in lows : iy.lower[low] \in names /\ Lower(iy.lower[low]) = low
  <2>1. DOMAIN iy.lower = lows
    BY IsIndexFields
  <2>. QED  BY <2>1 DEF IsIndex
<1>4. \A low \in lows : ix.lower[low] = iy.lower[low]
  BY <1>2, <1>3
<1>. HIDE DEF lows
<1>5. f = g
  BY <1>4
<1>. QED  BY <1>1, <1>5

LEMMA LookupFacts ==
    ASSUME NEW ix, NEW names, IsIndex(ix, names), NEW target
    PROVE  /\ target \in names => Lookup(ix, target) = {target}
           /\ Lower(target) \in {Lower(n) : n \in names} => Lookup(ix, target) # {}
           /\ Lower(target) \notin {Lower(n) : n \in names} => Lookup(ix, target) = {}
           /\ \A json \in Lookup(ix, target) : json \in names /\ Lower(json) = Lower(target)
<1>1. ix.names = names /\ DOMAIN ix.lower = {Lower(n) : n \in names}
  BY IsIndexFields
<1>2. \A low \in DOMAIN ix.lower : ix.lower[low] \in names /\ Lower(ix.lower[low]) = low
  BY DEF IsIndex
<1>3. target \in names => Lower(target) \in {Lower(n) : n \in names}
  OBVIOUS
<1>. QED  BY <1>1, <1>2, <1>3 DEF Lookup

-----------------------------------------------------------------------------
(* Tier 6: the beginning of a stem.                                         *)

(* Numbers from m on, with a largest one. *)
LEMMA LargestFrom ==
    ASSUME NEW n \in Nat, NEW D \in SUBSET (0..n), D # {}
    PROVE  Max(D) \in D
<1>. DEFINE E == {i + 1 : i \in D}
<1>1. E \in SUBSET (1..(n + 1)) /\ E # {} /\ n + 1 \in Nat
  <2>1. \A i \in D : i \in Nat /\ i <= n
    OBVIOUS
  <2>2. \A i \in D : i + 1 \in 1..(n + 1)
    BY <2>1
  <2>3. E \in SUBSET (1..(n + 1))
    BY <2>2
  <2>4. E # {}
    OBVIOUS
  <2>5. n + 1 \in Nat
    OBVIOUS
  <2>. QED  BY <2>3, <2>4, <2>5
<1>2. Max(E) \in E /\ \A j \in E : j <= Max(E)
  <2>. HIDE DEF E
  <2>. QED  BY <1>1, Largest
<1>3. PICK x \in D : Max(E) = x + 1
  BY <1>2
<1>4. \A y \in D : x >= y
  <2>. SUFFICES ASSUME NEW y \in D PROVE x >= y
    OBVIOUS
  <2>1. y + 1 <= x + 1
    BY <1>2, <1>3
  <2>. QED  BY <2>1
<1>. QED  BY <1>4 DEF Max

(* One of the six names, and no other, finds a sidecar: the one of m.       *)
OnlyBeginning(ix, stem, ext, m) ==
    \E cut \in 0..Len(stem), i \in 1..6 :
        /\ m.json \in Lookup(ix, TruncatedNames(stem, ext, cut)[i] \o JSON)
        /\ \A j \in 1..6 : Lookup(ix, TruncatedNames(stem, ext, cut)[j] \o JSON) # {} => j = i

LEMMA TruncatedFacts ==
    ASSUME NEW ix, NEW name, NEW ext, IsList(Stem(name)), NEW m, m = Truncated(ix, name, ext)
    PROVE  m = NoMatch \/ (m.tier = 6 /\ m.confidence = 90 /\ OnlyBeginning(ix, Stem(name), ext, m))
<1>. DEFINE stem == Stem(name)
            hits(c) == TruncatedHits(ix, stem, ext, c)
            cuts == {c \in MinTruncation..Len(stem) : Cardinality(hits(c)) = 1}
<1>. SUFFICES ASSUME m # NoMatch
              PROVE  m.tier = 6 /\ m.confidence = 90 /\ OnlyBeginning(ix, stem, ext, m)
  OBVIOUS
<1>1. Len(stem) \in Nat /\ MinTruncation \in Nat
  BY ListFacts, MatcherAssumption
<1>. DEFINE cut == Max(cuts)
            i   == CHOOSE i \in hits(cut) : TRUE
            v   == TruncatedNames(stem, ext, cut)[i]
            c   == CHOOSE c \in Lookup(ix, v \o JSON) : TRUE
<1>2. cuts # {} /\ m = Candidate(c, 6, 90)
  BY DEF Truncated
<1>3. cut \in cuts
  <2>1. cuts \in SUBSET (0..Len(stem))
    BY <1>1
  <2>. HIDE DEF cuts
  <2>. QED  BY <1>1, <1>2, <2>1, LargestFrom
<1>. HIDE DEF c
<1>4. m.tier = 6 /\ m.confidence = 90 /\ m.json = c
  BY <1>2 DEF Candidate
<1>5. cut \in 0..Len(stem) /\ Cardinality(hits(cut)) = 1
  BY <1>1, <1>3
<1>. HIDE DEF cut
<1>6. \A k \in hits(cut) : k \in 1..6 /\ Lookup(ix, TruncatedNames(stem, ext, cut)[k] \o JSON) # {}
  BY DEF TruncatedHits
<1>7. \A k \in 1..6 : Lookup(ix, TruncatedNames(stem, ext, cut)[k] \o JSON) # {} => k \in hits(cut)
  BY DEF TruncatedHits
<1>8. PICK x : hits(cut) = {x}
  <2>1. IsFiniteSet(hits(cut))
    <3>1. IsFiniteSet(1..6)
      <4>1. 1 \in Int /\ 6 \in Int
        OBVIOUS
      <4>. QED  BY <4>1, FS_Interval, Zenon
    <3>2. hits(cut) \subseteq 1..6
      BY <1>6
    <3>. HIDE DEF hits
    <3>. QED  BY <3>1, <3>2, FS_Subset
  <2>. HIDE DEF hits
  <2>. QED  BY <1>5, <2>1, FS_Singleton
<1>. HIDE DEF hits
<1>9. i = x /\ i \in 1..6
  BY <1>6, <1>8
<1>. HIDE DEF i
<1>10. c \in Lookup(ix, v \o JSON)
  <2>1. Lookup(ix, v \o JSON) # {}
    BY <1>6, <1>8, <1>9
  <2>. QED  BY <2>1 DEF c
<1>11. \A j \in 1..6 : Lookup(ix, TruncatedNames(stem, ext, cut)[j] \o JSON) # {} => j = i
  BY <1>7, <1>8, <1>9
<1>. QED  BY <1>4, <1>5, <1>9, <1>10, <1>11 DEF OnlyBeginning

-----------------------------------------------------------------------------
(* The series of a name.                                                    *)

Others == Numbers \cup Marks \cup Extensions \cup ToSet(SM)

(* The first k parts of the name are letters, and what follows is not. *)
Letters(name, k) ==
    /\ k \in 0..Len(name)
    /\ \A i \in 1..k : name[i] \notin Others
    /\ k = Len(name) \/ name[k + 1] \in Others

LEMMA SeriesFacts ==
    ASSUME NEW name, IsList(name), NEW s, s = Series(name)
    PROVE  \E k : /\ Letters(name, k)
                  /\ IsList(s) /\ Len(s) = k /\ \A i \in 1..k : s[i] = LowerPart(name[i])
<1>. DEFINE n == Len(name)
            D == {i \in DOMAIN name : name[i] \in Others} \cup {n + 1}
            k == Min(D) - 1
            b == SubSeq(name, 1, k)
<1>1. n \in Nat /\ DOMAIN name = 1..n
  BY ListFacts
<1>2. s = Lower(b)
  BY DEF Series, Others
<1>3. Min(D) \in D /\ \A j \in D : Min(D) <= j
  <2>1. D \in SUBSET Nat /\ D # {}
    BY <1>1
  <2>. HIDE DEF D
  <2>. QED  BY <2>1, SmallestOf
<1>4. PICK m : m = Min(D)
  OBVIOUS
<1>5. m \in 1..(n + 1) /\ k = m - 1 /\ (m = n + 1 \/ name[m] \in Others)
  BY <1>1, <1>3, <1>4
<1>6. \A i \in 1..n : name[i] \in Others => m <= i
  BY <1>1, <1>3, <1>4
<1>. HIDE DEF D, k, b
<1>7. k \in 0..n /\ k + 1 = m
  BY <1>1, <1>5
<1>8. \A i \in 1..k : i \in 1..n /\ ~(m <= i)
  BY <1>1, <1>7
<1>9. Letters(name, k)
  BY <1>5, <1>6, <1>7, <1>8 DEF Letters
<1>10. IsList(b) /\ Len(b) = k /\ \A i \in 1..k : b[i] = name[i]
  BY <1>7, BeginningFacts DEF b, n
<1>11. DOMAIN b = 1..k
  BY <1>10, ListFacts
<1>12. IsList(s) /\ Len(s) = k /\ \A i \in 1..k : s[i] = LowerPart(b[i])
  BY <1>2, <1>10, <1>11, LowerFacts
<1>. QED  BY <1>9, <1>10, <1>12

(* Two names that begin with the same letters are of one series. *)
LEMMA SameSeries ==
    ASSUME NEW a, NEW b, IsList(a), IsList(b), NEW k, Letters(a, k), Letters(b, k),
           \A i \in 1..k : LowerPart(a[i]) = LowerPart(b[i])
    PROVE  Series(a) = Series(b)
<1>1. \A name, l, m : Letters(name, l) /\ Letters(name, m) /\ IsList(name) => l = m
  <2>. SUFFICES ASSUME NEW name, NEW l, NEW m, Letters(name, l), Letters(name, m), IsList(name)
                PROVE  ~(l < m) /\ ~(m < l) /\ l \in Int /\ m \in Int
    OBVIOUS
  <2>0. Len(name) \in Nat /\ l \in 0..Len(name) /\ m \in 0..Len(name)
    BY ListFacts DEF Letters
  <2>1. ASSUME l < m PROVE FALSE
    <3>1. l + 1 \in 1..m /\ l # Len(name)
      BY <2>0, <2>1
    <3>. QED  BY <3>1 DEF Letters
  <2>2. ASSUME m < l PROVE FALSE
    <3>1. m + 1 \in 1..l /\ m # Len(name)
      BY <2>0, <2>2
    <3>. QED  BY <3>1 DEF Letters
  <2>. QED  BY <2>0, <2>1, <2>2
<1>2. PICK s, t : s = Series(a) /\ t = Series(b)
  OBVIOUS
<1>3. PICK l : Letters(a, l) /\ IsList(s) /\ Len(s) = l /\ \A i \in 1..l : s[i] = LowerPart(a[i])
  BY <1>2, SeriesFacts
<1>4. PICK m : Letters(b, m) /\ IsList(t) /\ Len(t) = m /\ \A i \in 1..m : t[i] = LowerPart(b[i])
  BY <1>2, SeriesFacts
<1>5. l = k /\ m = k
  BY <1>1, <1>3, <1>4
<1>6. s = t
  BY <1>3, <1>4, <1>5, ListEqual
<1>. QED  BY <1>2, <1>6

LEMMA OneName ==
    ASSUME NEW a, IsList(a)
    PROVE  \E k : Letters(a, k)
BY SeriesFacts

(* What is left of a name when it is cut before a part that is no letter.   *)
LEMMA CutSeries ==
    ASSUME NEW n, NEW b, IsList(n), IsList(b), Len(b) <= Len(n),
           \A i \in 1..Len(b) : b[i] = n[i],
           Len(b) = Len(n) \/ n[Len(b) + 1] \in Others
    PROVE  Series(b) = Series(n)
<1>1. PICK k : Letters(b, k)
  BY OneName
<1>2. Len(b) \in Nat /\ Len(n) \in Nat /\ k \in 0..Len(b)
  BY <1>1, ListFacts DEF Letters
<1>3. \A i \in 1..k : i \in 1..Len(b) /\ n[i] = b[i]
  BY <1>2
<1>4. k = Len(n) \/ n[k + 1] \in Others
  <2>1. CASE k = Len(b)
    BY <2>1
  <2>2. CASE k # Len(b)
    <3>1. k + 1 \in 1..Len(b) /\ b[k + 1] \in Others
      BY <1>1, <1>2, <2>2 DEF Letters
    <3>. QED  BY <3>1
  <2>. QED  BY <2>1, <2>2
<1>5. Letters(n, k)
  BY <1>1, <1>2, <1>3, <1>4 DEF Letters
<1>. QED  BY <1>1, <1>3, <1>5, SameSeries

(* Parts that are put at the end of a name: nothing, or no letter first.    *)
IsTail(x) == IsList(x) /\ (x = <<>> \/ x[1] \in Others)

(* The name n is of the series S. *)
IsKin(n, S) == IsList(n) /\ Series(n) = S

LEMMA KinTail ==
    ASSUME NEW n, NEW S, IsKin(n, S), NEW x, IsTail(x)
    PROVE  IsKin(n \o x, S)
<1>1. IsList(n) /\ IsList(x)
  BY DEF IsKin, IsTail
<1>2. PICK c : c = n \o x
  OBVIOUS
<1>3. Joined(c, n, x)
  BY <1>1, <1>2, ListConcat
<1>4. /\ IsList(c) /\ Len(c) = Len(n) + Len(x) /\ (\A i \in 1..Len(n) : c[i] = n[i])
      /\ Len(n) \in Nat /\ Len(x) \in Nat /\ \A i \in 1..Len(x) : c[Len(n) + i] = x[i]
  BY <1>1, <1>3, ListFacts DEF Joined
<1>5. Len(n) = Len(c) \/ c[Len(n) + 1] \in Others
  <2>1. CASE x = <<>>
    BY <1>4, <2>1, Nothing
  <2>2. CASE x # <<>>
    <3>1. Len(x) # 0
      <4>1. x \in Seq(ToSet(x))
        BY <1>1 DEF IsList
      <4>. QED  BY <2>2, <4>1, EmptySeq
    <3>2. 1 \in 1..Len(x)
      BY <1>4, <3>1
    <3>. QED  BY <1>4, <2>2, <3>2 DEF IsTail
  <2>. QED  BY <2>1, <2>2
<1>6. Len(n) <= Len(c)
  BY <1>4
<1>7. Series(n) = Series(c)
  BY <1>1, <1>4, <1>5, <1>6, CutSeries
<1>. QED  BY <1>2, <1>4, <1>7 DEF IsKin

(* Lower case keeps letters and other parts apart. *)
LEMMA OthersInLowerCase ==
    ASSUME NEW p
    PROVE  LowerPart(p) \in Others <=> p \in Others
<1>1. CASE p \notin DOMAIN Lowered
  BY <1>1 DEF LowerPart
<1>2. CASE p \in DOMAIN Lowered
  <2>1. LowerPart(p) = Lowered[p] /\ Lowered[p] \in ToSet(Lowered)
    BY <1>2 DEF LowerPart, ToSet
  <2>2. p \notin Numbers /\ Lowered[p] \notin Numbers
    BY <1>2, <2>1, PartsAssumption
  <2>. DEFINE upper == <<".HEIC", ".JPG", ".JPEG", ".PNG", ".MOV", "-EDITED", "A", "B", "C">>
              lower == <<".heic", ".jpg", ".jpeg", ".png", ".mov", "-edited", "a", "b", "c">>
              i == CHOOSE i \in DOMAIN upper : upper[i] = p
  <2>3. DOMAIN Lowered = ToSet(upper) /\ Lowered[p] = lower[i]
    BY <1>2 DEF Lowered
  <2>4. i \in 1..9 /\ upper[i] = p
    <3>1. DOMAIN upper = 1..9
      OBVIOUS
    <3>2. \E k \in DOMAIN upper : upper[k] = p
      <4>. HIDE DEF upper
      <4>. QED  BY <1>2, <2>3 DEF ToSet
    <3>. HIDE DEF upper
    <3>. QED  BY <3>1, <3>2
  <2>. HIDE DEF i
  <2>5. ToSet(ImageExts) = {".heic", ".HEIC", ".jpg", ".JPG", ".jpeg", ".JPEG", ".png", ".PNG"}
        /\ ToSet(SM) = {".supplemental-metadata"}
    BY DEF ImageExts, SM, ToSet
  <2>6. i \in {1, 2, 3, 4, 5, 6, 7, 8, 9}
    BY <2>4
  <2>7. CASE i \in {1, 2, 3, 4, 5, 6}
    <3>1. p \in {".HEIC", ".JPG", ".JPEG", ".PNG", ".MOV", "-EDITED"}
      BY <2>4, <2>7
    <3>2. Lowered[p] \in {".heic", ".jpg", ".jpeg", ".png", ".mov", "-edited"}
      BY <2>3, <2>7
    <3>. QED  BY <2>1, <2>5, <3>1, <3>2 DEF Others, Extensions, Marks
  <2>8. CASE i \in {7, 8, 9}
    <3>1. p \in {"A", "B", "C"} /\ Lowered[p] \in {"a", "b", "c"}
      BY <2>3, <2>4, <2>8
    <3>. QED  BY <2>1, <2>2, <2>5, <3>1 DEF Others, Extensions, Marks
  <2>. QED  BY <2>6, <2>7, <2>8
<1>. QED  BY <1>1, <1>2

LEMMA SeriesInLowerCase ==
    ASSUME NEW a, NEW b, IsList(a), IsList(b), Lower(a) = Lower(b)
    PROVE  Series(a) = Series(b)
<1>1. PICK k : Letters(a, k)
  BY OneName
<1>2. PICK x, y : x = Lower(a) /\ y = Lower(b)
  OBVIOUS
<1>3. /\ Len(a) = Len(b) /\ DOMAIN a = 1..Len(a) /\ DOMAIN b = 1..Len(b) /\ Len(a) \in Nat
      /\ \A i \in DOMAIN a : x[i] = LowerPart(a[i])
      /\ \A i \in DOMAIN b : y[i] = LowerPart(b[i])
  BY <1>2, LowerFacts, ListFacts
<1>4. \A i \in 1..Len(a) : LowerPart(a[i]) = LowerPart(b[i])
  BY <1>2, <1>3
<1>5. \A i \in 1..Len(a) : a[i] \in Others <=> b[i] \in Others
  BY <1>4, OthersInLowerCase
<1>6. k \in 0..Len(a) /\ (\A i \in 1..k : i \in 1..Len(a)) /\ (k = Len(a) \/ k + 1 \in 1..Len(a))
  <2>1. k \in 0..Len(a)
    BY <1>1 DEF Letters
  <2>2. PICK n : n = Len(a)
    OBVIOUS
  <2>3. n \in Nat /\ k \in 0..n
    BY <1>3, <2>1, <2>2
  <2>4. (\A i \in 1..k : i \in 1..n) /\ (k = n \/ k + 1 \in 1..n)
    BY <2>3
  <2>. QED  BY <2>1, <2>2, <2>4
<1>7. Letters(b, k)
  BY <1>1, <1>3, <1>5, <1>6 DEF Letters
<1>. QED  BY <1>1, <1>4, <1>6, <1>7, SameSeries

-----------------------------------------------------------------------------
(* The attempts of the tiers 1 to 5.                                        *)

(* A list of attempts of the tiers T. *)
IsOfTiers(a, T) == a.tier \in T /\ a.confidence \in {95, 100}
OfTiers(s, T)   == IsList(s) /\ \A i \in DOMAIN s : IsOfTiers(s[i], T)

LEMMA TiersConcat ==
    ASSUME NEW s, NEW t, NEW T, NEW U, OfTiers(s, T), OfTiers(t, U)
    PROVE  OfTiers(s \o t, T \cup U) /\ Joined(s \o t, s, t)
<1>. DEFINE c == s \o t
<1>1. Joined(c, s, t)
  BY ListConcat DEF OfTiers
<1>2. DOMAIN s = 1..Len(s) /\ DOMAIN t = 1..Len(t)
  BY ListFacts DEF OfTiers
<1>. HIDE DEF c
<1>3. ASSUME NEW i \in DOMAIN c
      PROVE  IsOfTiers(c[i], T \cup U)
  <2>1. CASE i \in DOMAIN s
    <3>1. c[i] = s[i]
      BY <1>1, <1>2, <2>1 DEF Joined
    <3>. QED  BY <2>1, <3>1 DEF OfTiers, IsOfTiers
  <2>2. ASSUME NEW j \in DOMAIN t, i = Len(s) + j
        PROVE  IsOfTiers(c[i], T \cup U)
    <3>1. c[i] = t[j]
      BY <1>1, <1>2, <2>2 DEF Joined
    <3>. QED  BY <3>1 DEF OfTiers, IsOfTiers
  <2>. QED  BY <1>1, <2>1, <2>2 DEF Joined
<1>. QED  BY <1>1, <1>3 DEF c, OfTiers, Joined

(* The names of an attempt are those it is given, with their extension. *)
LEMMA AttemptFacts ==
    ASSUME NEW tier, NEW confidence, NEW names, IsList(names),
           NEW a, a = Attempt(tier, confidence, names)
    PROVE  /\ a.tier = tier /\ a.confidence = confidence /\ IsList(a.names) /\ DOMAIN a.names = DOMAIN names
           /\ \A i \in DOMAIN names : a.names[i] = names[i] \o JSON
<1>. DEFINE n == Len(names)
            all == [i \in 1..n |-> names[i] \o JSON]
<1>1. n \in Nat /\ DOMAIN names = 1..n
  BY ListFacts
<1>2. a.tier = tier /\ a.confidence = confidence /\ a.names = all
  BY <1>1 DEF Attempt
<1>3. DOMAIN all = 1..n /\ all = [i \in 1..n |-> all[i]] /\ \A i \in 1..n : all[i] = names[i] \o JSON
  OBVIOUS
<1>. HIDE DEF all, n
<1>4. IsList(all)
  BY <1>1, <1>3, ListOf
<1>. QED  BY <1>1, <1>2, <1>3, <1>4

(* The number of a file is tried before every other number. *)
LEMMA SearchOrderFacts ==
    ASSUME NEW n \in Nat
    PROVE  /\ IsList(SearchOrder(n)) /\ 1 \in DOMAIN SearchOrder(n)
           /\ SearchOrder(n)[1] = n
<1>. DEFINE down == IF n > 1 THEN [i \in 1..(n - 1) |-> n - i] ELSE IF n = 0 THEN <<1>> ELSE <<>>
            have == {n} \cup ToSet(down)
            rest == Picked(<<1, 2, 3, 4, 5>>, 1..5 \ have)
            self == <<n>>
<1>1. SearchOrder(n) = (self \o down) \o rest
  BY DEF SearchOrder
<1>2. IsList(down)
  <2>1. CASE n > 1
    <3>. DEFINE d == [i \in 1..(n - 1) |-> n - i]
    <3>1. down = d /\ n - 1 \in Nat /\ DOMAIN d = 1..(n - 1) /\ d = [i \in 1..(n - 1) |-> d[i]]
      BY <2>1
    <3>. HIDE DEF d, down
    <3>2. IsList(d)
      BY <3>1, ListOf
    <3>. QED  BY <3>1, <3>2
  <2>2. CASE n = 0
    <3>1. down = <<1>>
      BY <2>2
    <3>. HIDE DEF down
    <3>. QED  BY <3>1, One
  <2>3. CASE ~(n > 1) /\ n # 0
    <3>1. down = <<>>
      BY <2>3
    <3>. HIDE DEF down
    <3>. QED  BY <3>1, Nothing
  <2>. QED  BY <2>1, <2>2, <2>3
<1>. HIDE DEF down
<1>3. IsList(rest)
  <2>1. 5 \in Nat /\ (1..5 \ have) \in SUBSET (1..5)
    OBVIOUS
  <2>. HIDE DEF have
  <2>. QED  BY <2>1, PickedFacts
<1>4. IsList(self) /\ DOMAIN self = 1..1 /\ Len(self) = 1 /\ self[1] = n
  BY One
<1>. HIDE DEF rest, self
<1>5. Joined(self \o down, self, down)
  BY <1>2, <1>4, ListConcat
<1>. DEFINE first == self \o down
<1>6. IsList(first) /\ Len(first) = 1 + Len(down) /\ first[1] = n
  BY <1>4, <1>5 DEF Joined
<1>. HIDE DEF first
<1>7. Joined(first \o rest, first, rest)
  BY <1>3, <1>6, ListConcat
<1>. DEFINE all == first \o rest
<1>8. Len(down) \in Nat /\ Len(rest) \in Nat
  BY <1>2, <1>3, ListFacts
<1>9. IsList(all) /\ Len(all) = 1 + Len(down) + Len(rest) /\ all[1] = n
  BY <1>6, <1>7, <1>8 DEF Joined
<1>10. DOMAIN all = 1..Len(all)
  BY <1>9, ListFacts
<1>11. SearchOrder(n) = all
  BY <1>1 DEF first
<1>. HIDE DEF all
<1>. QED  BY <1>8, <1>9, <1>10, <1>11

LEMMA ValueIsNumber ==
    ASSUME NEW stem, IsNumbered(stem)
    PROVE  ValueOf(Last(stem)) \in Nat
<1>1. PICK n \in 0..MaxNumber : Last(stem) = Number(n)
  BY DEF IsNumbered, Numbers
<1>2. ValueOf(Last(stem)) \in 0..MaxNumber
  BY <1>1 DEF ValueOf
<1>. QED  BY <1>2, MatcherAssumption

(* The attempts own begin with the sidecars named like name. *)
StartOwn(own, name) ==
    /\ OfTiers(own, {1, 2}) /\ DOMAIN own = 1..2 /\ Len(own) = 2
    /\ own[1].tier = 1 /\ IsList(own[1].names) /\ DOMAIN own[1].names = 1..4
    /\ own[1].names[1] = name \o SM \o JSON
    /\ own[1].names[2] = name \o JSON
    /\ own[2].tier = 2 /\ IsList(own[2].names) /\ DOMAIN own[2].names = 1..2
    /\ own[2].names[1] = Stem(name) \o SM \o JSON
    /\ own[2].names[2] = Stem(name) \o JSON

LEMMA OwnAttemptsFacts ==
    ASSUME NEW name, NEW ext, NEW own, own = OwnAttempts(name, ext)
    PROVE  StartOwn(own, name)
<1>. DEFINE stem == Stem(name)
            low == stem \o Lower(ext)
            names == << name \o SM, name, low \o SM, low >>
            a == Attempt(1, 100, names)
            other == << stem \o SM, stem >>
            b == Attempt(2, 100, other)
<1>1. own = <<a, b>>
  BY DEF OwnAttempts
<1>2. /\ DOMAIN names = 1..4 /\ names[1] = name \o SM /\ names[2] = name
      /\ names = [i \in 1..4 |-> names[i]]
  OBVIOUS
<1>3. IsList(other) /\ DOMAIN other = 1..2 /\ other[1] = stem \o SM /\ other[2] = stem
  BY Two
<1>. HIDE DEF names, other
<1>4. IsList(names)
  <2>1. 4 \in Nat
    OBVIOUS
  <2>. QED  BY <1>2, <2>1, ListOf
<1>5. a.tier = 1 /\ a.confidence = 100 /\ IsList(a.names) /\ DOMAIN a.names = DOMAIN names
      /\ \A i \in DOMAIN names : a.names[i] = names[i] \o JSON
  BY <1>4, AttemptFacts
<1>8. b.tier = 2 /\ b.confidence = 100 /\ IsList(b.names) /\ DOMAIN b.names = DOMAIN other
      /\ \A i \in DOMAIN other : b.names[i] = other[i] \o JSON
  <2>1. IsList(other) /\ b = Attempt(2, 100, other)
    BY <1>3
  <2>. HIDE DEF b
  <2>. QED  BY <2>1, AttemptFacts
<1>. HIDE DEF a, b
<1>6. IsList(own) /\ Len(own) = 2 /\ DOMAIN own = 1..2 /\ own[1] = a /\ own[2] = b
  BY <1>1, Two
<1>7. a.names[1] = name \o SM \o JSON /\ a.names[2] = name \o JSON
  <2>1. 1 \in DOMAIN names /\ 2 \in DOMAIN names
    BY <1>2
  <2>2. a.names[1] = names[1] \o JSON /\ a.names[2] = names[2] \o JSON
    BY <1>5, <2>1, Zenon
  <2>. QED  BY <1>2, <2>2, Zenon
<1>9. b.names[1] = stem \o SM \o JSON /\ b.names[2] = stem \o JSON
  <2>1. 1 \in DOMAIN other /\ 2 \in DOMAIN other
    BY <1>3
  <2>2. b.names[1] = other[1] \o JSON /\ b.names[2] = other[2] \o JSON
    BY <1>8, <2>1, Zenon
  <2>. QED  BY <1>3, <2>2, Zenon
<1>10. OfTiers(own, {1, 2})
  <2>1. IsOfTiers(a, {1, 2}) /\ IsOfTiers(b, {1, 2})
    BY <1>5, <1>8 DEF IsOfTiers
  <2>2. \A i \in 1..2 : i = 1 \/ i = 2
    OBVIOUS
  <2>. QED  BY <1>6, <2>1, <2>2 DEF OfTiers
<1>. QED  BY <1>2, <1>3, <1>5, <1>6, <1>7, <1>8, <1>9, <1>10 DEF StartOwn

(* A file whose stem has one number at its end starts with that number. *)
LEMMA NumberAttemptsFacts ==
    ASSUME NEW stem, NEW ext, NEW tries, tries = NumberAttempts(stem, ext)
    PROVE  /\ OfTiers(tries, {3})
           /\ IsNumbered(stem) /\ Front(stem) = Root(stem) =>
                /\ 1 \in DOMAIN tries
                /\ tries[1] = Attempt(3, 100, Numbered(Root(stem), ext, ValueOf(Last(stem))))
<1>1. CASE ~IsNumbered(stem)
  <2>1. tries = <<>>
    BY <1>1 DEF NumberAttempts
  <2>. QED  BY <1>1, <2>1, Nothing DEF OfTiers
<1>2. CASE IsNumbered(stem)
  <2>. DEFINE root  == Root(stem)
              value == ValueOf(Last(stem))
              search == SearchOrder(value)
              plain == << Attempt(3, 100, Plain(Front(stem), ext)) >>
              inner == IF Front(stem) # root THEN plain ELSE <<>>
              outer == << Attempt(3, 95, Plain(root, ext)) >>
              each  == [i \in DOMAIN search |-> Attempt(3, 100, Numbered(root, ext, search[i]))]
  <2>1. tries = (inner \o each) \o outer
    BY <1>2 DEF NumberAttempts
  <2>2. IsList(search) /\ 1 \in DOMAIN search /\ search[1] = value
    BY <1>2, ValueIsNumber, SearchOrderFacts
  <2>3. OfTiers(each, {3}) /\ DOMAIN each = DOMAIN search
        /\ each[1] = Attempt(3, 100, Numbered(root, ext, value))
    <3>. HIDE DEF search, root, value
    <3>1. Len(search) \in Nat /\ DOMAIN search = 1..Len(search)
      BY <2>2, ListFacts
    <3>2. /\ DOMAIN each = 1..Len(search) /\ each = [i \in 1..Len(search) |-> each[i]]
          /\ \A i \in DOMAIN search : each[i] = Attempt(3, 100, Numbered(root, ext, search[i]))
      BY <3>1
    <3>. HIDE DEF each
    <3>3. IsList(each)
      BY <3>1, <3>2, ListOf
    <3>4. \A i \in DOMAIN each : IsOfTiers(each[i], {3})
      BY <3>1, <3>2 DEF Attempt, IsOfTiers
    <3>. QED  BY <2>2, <3>1, <3>2, <3>3, <3>4 DEF OfTiers
  <2>4. OfTiers(plain, {3}) /\ OfTiers(outer, {3})
    <3>1. IsOfTiers(Attempt(3, 100, Plain(Front(stem), ext)), {3}) /\ IsOfTiers(Attempt(3, 95, Plain(root, ext)), {3})
      BY DEF Attempt, IsOfTiers
    <3>. QED  BY <3>1, One DEF OfTiers
  <2>5. OfTiers(inner, {3})
    <3>1. OfTiers(<<>>, {3})
      BY Nothing DEF OfTiers
    <3>. HIDE DEF plain
    <3>. QED  BY <2>4, <3>1
  <2>6. Front(stem) = root => inner = <<>>
    OBVIOUS
  <2>. HIDE DEF inner, outer, each, search
  <2>. DEFINE head == inner \o each
  <2>7. OfTiers(head, {3} \cup {3}) /\ Joined(head, inner, each)
    BY <2>3, <2>5, TiersConcat
  <2>8. OfTiers(head, {3})
    BY <2>7
  <2>9. IsNumbered(stem) /\ Front(stem) = Root(stem) => 1 \in DOMAIN head /\ head[1] = each[1]
    <3>. SUFFICES ASSUME Front(stem) = root PROVE 1 \in DOMAIN head /\ head[1] = each[1]
      OBVIOUS
    <3>1. Len(inner) = 0 /\ inner = <<>>
      BY <2>6, Nothing
    <3>2. Len(each) \in Nat /\ DOMAIN each = 1..Len(each) /\ 1 \in 1..Len(each)
      BY <2>2, <2>3, ListFacts DEF OfTiers
    <3>. HIDE DEF head
    <3>3. IsList(head) /\ Len(head) = 0 + Len(each) /\ head[0 + 1] = each[1]
      BY <2>7, <3>1, <3>2 DEF Joined
    <3>4. DOMAIN head = 1..Len(head)
      BY <3>3, ListFacts
    <3>. QED  BY <3>2, <3>3, <3>4
  <2>10. OfTiers(tries, {3}) /\ Joined(tries, head, outer)
    <3>. HIDE DEF head
    <3>1. OfTiers(head \o outer, {3} \cup {3}) /\ Joined(head \o outer, head, outer)
      BY <2>4, <2>8, TiersConcat
    <3>2. tries = head \o outer
      BY <2>1 DEF head
    <3>. QED  BY <3>1, <3>2
  <2>11. 1 \in DOMAIN head => 1 \in DOMAIN tries /\ tries[1] = head[1]
    <3>. HIDE DEF head
    <3>1. Len(head) \in Nat /\ DOMAIN head = 1..Len(head) /\ Len(outer) \in Nat
      BY <2>4, <2>8, ListFacts DEF OfTiers
    <3>2. DOMAIN tries = 1..Len(tries) /\ Len(tries) = Len(head) + Len(outer)
      BY <2>10, ListFacts DEF Joined
    <3>. QED  BY <2>10, <3>1, <3>2 DEF Joined
  <2>. HIDE DEF head
  <2>. QED  BY <2>3, <2>9, <2>10, <2>11
<1>. QED  BY <1>1, <1>2

LEMMA OtherAttemptsFacts ==
    ASSUME NEW name, NEW stem, NEW ext
    PROVE  OfTiers(EditedAttempts(name, stem, ext), {4}) /\ OfTiers(LiveAttempts(stem, ext), {5})
<1>0. OfTiers(<<>>, {4}) /\ OfTiers(<<>>, {5})
  BY Nothing DEF OfTiers
<1>1. \A names : OfTiers(<< Attempt(4, 100, names) >>, {4}) /\ OfTiers(<< Attempt(5, 100, names) >>, {5})
  <2>1. \A names : IsOfTiers(Attempt(4, 100, names), {4}) /\ IsOfTiers(Attempt(5, 100, names), {5})
    BY DEF Attempt, IsOfTiers
  <2>. SUFFICES ASSUME NEW names
                PROVE  OfTiers(<< Attempt(4, 100, names) >>, {4}) /\ OfTiers(<< Attempt(5, 100, names) >>, {5})
    OBVIOUS
  <2>. QED  BY <2>1, One DEF OfTiers
<1>2. OfTiers(EditedAttempts(name, stem, ext), {4})
  <2>1. PICK s, t : /\ OfTiers(s, {4}) /\ OfTiers(t, {4})
                    /\ EditedAttempts(name, stem, ext) = s \o t
    BY <1>0, <1>1 DEF EditedAttempts
  <2>2. OfTiers(s \o t, {4} \cup {4})
    BY <2>1, TiersConcat
  <2>. QED  BY <2>1, <2>2
<1>3. OfTiers(LiveAttempts(stem, ext), {5})
  <2>. DEFINE pictures == [i \in DOMAIN ImageExts |-> Attempt(5, 100, LiveNames(stem, <<ImageExts[i]>>))]
  <2>1. OfTiers(pictures, {5})
    <3>1. DOMAIN ImageExts = 1..8 /\ 8 \in Nat
      BY DEF ImageExts
    <3>2. DOMAIN pictures = 1..8 /\ pictures = [i \in 1..8 |-> pictures[i]]
      BY <3>1
    <3>3. \A i \in DOMAIN pictures : IsOfTiers(pictures[i], {5})
      BY DEF Attempt, IsOfTiers
    <3>. HIDE DEF pictures
    <3>. QED  BY <3>1, <3>2, <3>3, ListOf DEF OfTiers
  <2>2. CASE Lower(ext) \in {<<".mov">>, <<".mp4">>}
    <3>1. PICK t : OfTiers(t, {5}) /\ LiveAttempts(stem, ext) = pictures \o t
      BY <1>0, <1>1, <2>2 DEF LiveAttempts
    <3>. HIDE DEF pictures
    <3>2. OfTiers(pictures \o t, {5} \cup {5})
      BY <2>1, <3>1, TiersConcat
    <3>. QED  BY <3>1, <3>2
  <2>3. CASE Lower(ext) \notin {<<".mov">>, <<".mp4">>}
    BY <1>0, <2>3 DEF LiveAttempts
  <2>. QED  BY <2>2, <2>3
<1>. QED  BY <1>2, <1>3

(* The attempts for a name: first its own sidecar, then, if its stem ends   *)
(* in one number, that of its number; they are of the tiers 1 to 5.         *)
LEMMA AttemptsFacts ==
    ASSUME NEW name, NEW ext, NEW tries, tries = Attempts(name, ext),
           NEW own, own = OwnAttempts(name, ext),
           NEW number, number = NumberAttempts(Stem(name), ext)
    PROVE  /\ OfTiers(tries, 1..5)
           /\ 1 \in DOMAIN tries /\ tries[1] = own[1]
           /\ 2 \in DOMAIN tries /\ tries[2] = own[2]
           /\ \A i \in DOMAIN tries : tries[i].tier = 3 => i > 2 /\ number # <<>>
           /\ 1 \in DOMAIN number => 3 \in DOMAIN tries /\ tries[3] = number[1]
<1>. DEFINE stem   == Stem(name)
            edited == EditedAttempts(name, stem, ext)
            live   == LiveAttempts(stem, ext)
<1>1. tries = ((own \o number) \o edited) \o live
  BY DEF Attempts
<1>2. /\ OfTiers(own, {1, 2}) /\ DOMAIN own = 1..2 /\ Len(own) = 2
      /\ OfTiers(edited, {4}) /\ OfTiers(live, {5})
  BY OwnAttemptsFacts, NumberAttemptsFacts, OtherAttemptsFacts DEF StartOwn
<1>. HIDE DEF edited, live
<1>0. PICK T \in SUBSET {3} : OfTiers(number, T) /\ (number = <<>> => T = {})
  <2>1. OfTiers(number, {3})
    BY NumberAttemptsFacts
  <2>2. CASE number = <<>>
    <3>1. OfTiers(number, {})
      BY <2>2, Nothing DEF OfTiers
    <3>. QED  BY <3>1
  <2>3. CASE number # <<>>
    BY <2>1, <2>3
  <2>. QED  BY <2>2, <2>3
<1>3. PICK two : two = own \o number
  OBVIOUS
<1>4. OfTiers(two, {1, 2} \cup T) /\ Joined(two, own, number)
  BY <1>0, <1>2, <1>3, TiersConcat
<1>5. PICK three : three = two \o edited
  OBVIOUS
<1>6. OfTiers(three, ({1, 2} \cup T) \cup {4}) /\ Joined(three, two, edited)
  BY <1>2, <1>4, <1>5, TiersConcat
<1>7. tries = three \o live
  BY <1>1, <1>3, <1>5
<1>8. OfTiers(tries, (({1, 2} \cup T) \cup {4}) \cup {5}) /\ Joined(tries, three, live)
  BY <1>2, <1>6, <1>7, TiersConcat
<1>9. /\ Len(number) \in Nat /\ DOMAIN number = 1..Len(number)
      /\ Len(edited) \in Nat /\ Len(live) \in Nat
      /\ Len(two) = 2 + Len(number) /\ Len(three) = Len(two) + Len(edited)
      /\ DOMAIN tries = 1..Len(tries) /\ Len(tries) = Len(three) + Len(live)
  BY <1>0, <1>2, <1>4, <1>6, <1>8, ListFacts DEF OfTiers, Joined
<1>10. \A i \in 1..(2 + Len(number)) : i \in DOMAIN tries /\ tries[i] = two[i]
  <2>1. \A i \in 1..Len(two) : three[i] = two[i]
    BY <1>6 DEF Joined
  <2>2. \A i \in 1..Len(three) : tries[i] = three[i]
    BY <1>8 DEF Joined
  <2>. QED  BY <1>9, <2>1, <2>2
<1>11. 1 \in DOMAIN tries /\ tries[1] = own[1] /\ 2 \in DOMAIN tries /\ tries[2] = own[2]
  <2>1. two[1] = own[1] /\ two[2] = own[2]
    BY <1>2, <1>4 DEF Joined
  <2>. QED  BY <1>9, <1>10, <2>1
<1>12. 1 \in DOMAIN number => 3 \in DOMAIN tries /\ tries[3] = number[1]
  <2>. SUFFICES ASSUME 1 \in DOMAIN number PROVE 3 \in DOMAIN tries /\ tries[3] = number[1]
    OBVIOUS
  <2>1. two[2 + 1] = number[1]
    BY <1>2, <1>4, <1>9 DEF Joined
  <2>. QED  BY <1>9, <1>10, <2>1
<1>13. ASSUME NEW i \in DOMAIN tries, tries[i].tier = 3
       PROVE  i > 2 /\ number # <<>>
  <2>1. own[1].tier # 3 /\ own[2].tier # 3
    <3>1. own[1].tier \in {1, 2} /\ own[2].tier \in {1, 2}
      BY <1>2 DEF OfTiers, IsOfTiers
    <3>. QED  BY <3>1
  <2>2. i # 1 /\ i # 2
    BY <1>11, <1>13, <2>1
  <2>3. 3 \in T
    <3>1. tries[i].tier \in {1, 2} \cup T \cup {4} \cup {5}
      BY <1>8 DEF OfTiers, IsOfTiers
    <3>. QED  BY <1>13, <3>1
  <2>. QED  BY <1>0, <1>9, <2>2, <2>3
<1>14. OfTiers(tries, 1..5)
  <2>1. (({1, 2} \cup T) \cup {4}) \cup {5} \subseteq 1..5
    BY <1>0
  <2>. QED  BY <1>8, <2>1 DEF OfTiers, IsOfTiers
<1>. QED  BY <1>11, <1>12, <1>13, <1>14

(* An attempt hits with the first of its names that is there. *)
LEMMA HitTier ==
    ASSUME NEW ix, NEW a, a.tier \in 1..5
    PROVE  /\ Hit(ix, a) = NoMatch \/ (Hit(ix, a).tier = a.tier /\ Hit(ix, a).confidence = a.confidence)
           /\ \A i \in DOMAIN a.names : Lookup(ix, a.names[i]) # {} => Hit(ix, a) # NoMatch
<1>. DEFINE found == {i \in DOMAIN a.names : Lookup(ix, a.names[i]) # {}}
            c == Candidate(CHOOSE c \in Lookup(ix, a.names[Min(found)]) : TRUE, a.tier, a.confidence)
<1>1. Hit(ix, a) = IF found = {} THEN NoMatch ELSE c
  BY DEF Hit
<1>2. c.tier = a.tier /\ c.confidence = a.confidence /\ NoMatch.tier = 0
  BY DEF Candidate, NoMatch
<1>3. c # NoMatch
  <2>. HIDE DEF c
  <2>. QED  BY <1>2
<1>. HIDE DEF c
<1>. QED  BY <1>1, <1>2, <1>3

LEMMA HitFacts ==
    ASSUME NEW ix, NEW a, IsList(a.names), Hit(ix, a) # NoMatch
    PROVE  \E i \in DOMAIN a.names :
              /\ Lookup(ix, a.names[i]) # {}
              /\ Hit(ix, a).json = CHOOSE c \in Lookup(ix, a.names[i]) : TRUE
              /\ \A j \in DOMAIN a.names : Lookup(ix, a.names[j]) # {} => i <= j
<1>. DEFINE found == {i \in DOMAIN a.names : Lookup(ix, a.names[i]) # {}}
<1>1. found # {}
  BY DEF Hit
<1>2. Len(a.names) \in Nat /\ found \in SUBSET (1..Len(a.names))
  BY ListFacts
<1>3. Min(found) \in found /\ \A j \in found : Min(found) <= j
  <2>. HIDE DEF found
  <2>. QED  BY <1>1, <1>2, Smallest
<1>. DEFINE c == CHOOSE c \in Lookup(ix, a.names[Min(found)]) : TRUE
<1>4. Hit(ix, a) = Candidate(c, a.tier, a.confidence)
  BY <1>1 DEF Hit
<1>. DEFINE i == Min(found)
<1>5. /\ i \in DOMAIN a.names /\ Lookup(ix, a.names[i]) # {}
      /\ \A j \in DOMAIN a.names : Lookup(ix, a.names[j]) # {} => i <= j
  BY <1>3
<1>6. Hit(ix, a).json = c
  <2>. HIDE DEF c
  <2>. QED  BY <1>4 DEF Candidate
<1>7. c = CHOOSE d \in Lookup(ix, a.names[i]) : TRUE
  OBVIOUS
<1>. HIDE DEF i, c
<1>. QED  BY <1>5, <1>6, <1>7

(* Tiers 1 to 5 find what the first attempt that hits finds. *)
LEMMA NamedFacts ==
    ASSUME NEW ix, NEW name, NEW ext, NEW tries, tries = Attempts(name, ext),
           NEW m, m = Named(ix, name, ext)
    PROVE  /\ \/ m = NoMatch
              \/ \E q \in DOMAIN tries :
                    /\ m = Hit(ix, tries[q]) /\ m # NoMatch
                    /\ m.tier = tries[q].tier /\ m.confidence = tries[q].confidence
                    /\ \A p \in DOMAIN tries : Hit(ix, tries[p]) # NoMatch => q <= p
           /\ \A p \in DOMAIN tries : Hit(ix, tries[p]) # NoMatch => m # NoMatch
<1>. DEFINE hits == {i \in DOMAIN tries : Hit(ix, tries[i]) # NoMatch}
<1>1. m = IF hits = {} THEN NoMatch ELSE Hit(ix, tries[Min(hits)])
  BY DEF Named
<1>2. OfTiers(tries, 1..5)
  BY AttemptsFacts
<1>3. Len(tries) \in Nat /\ hits \in SUBSET (1..Len(tries))
  BY <1>2, ListFacts DEF OfTiers
<1>4. CASE hits = {}
  BY <1>1, <1>4
<1>5. CASE hits # {}
  <2>. DEFINE q == Min(hits)
  <2>1. q \in hits /\ \A j \in hits : q <= j
    <3>. HIDE DEF hits
    <3>. QED  BY <1>3, <1>5, Smallest
  <2>2. m = Hit(ix, tries[q])
    BY <1>1, <1>5
  <2>. HIDE DEF q
  <2>3. q \in DOMAIN tries /\ m # NoMatch
    BY <2>1, <2>2
  <2>4. m.tier = tries[q].tier /\ m.confidence = tries[q].confidence
    BY <1>2, <2>2, <2>3, HitTier DEF OfTiers, IsOfTiers
  <2>. QED  BY <2>1, <2>2, <2>3, <2>4
<1>. QED  BY <1>4, <1>5

-----------------------------------------------------------------------------
(* Every name that is looked up is of the series of the file.               *)

LEMMA ConcatElements ==
    ASSUME NEW s, NEW t, IsList(s), IsList(t)
    PROVE  IsList(s \o t) /\ ToSet(s \o t) = ToSet(s) \cup ToSet(t)
<1>1. PICK c : c = s \o t
  OBVIOUS
<1>2. Joined(c, s, t)
  BY <1>1, ListConcat
<1>3. /\ IsList(c) /\ DOMAIN s = 1..Len(s) /\ DOMAIN t = 1..Len(t) /\ DOMAIN c = 1..Len(c)
      /\ Len(s) \in Nat /\ Len(t) \in Nat /\ Len(c) = Len(s) + Len(t)
      /\ \A i \in 1..Len(s) : c[i] = s[i]
      /\ \A i \in 1..Len(t) : c[Len(s) + i] = t[i]
      /\ \A i \in DOMAIN c : i \in DOMAIN s \/ \E j \in DOMAIN t : i = Len(s) + j
  BY <1>2, ListFacts DEF Joined
<1>4. (\A i \in 1..Len(s) : i \in DOMAIN c) /\ (\A i \in 1..Len(t) : Len(s) + i \in DOMAIN c)
  BY <1>3
<1>5. ASSUME NEW x \in ToSet(c) PROVE x \in ToSet(s) \cup ToSet(t)
  <2>1. PICK i \in DOMAIN c : x = c[i]
    BY DEF ToSet
  <2>. QED  BY <1>3, <2>1 DEF ToSet
<1>6. ASSUME NEW x \in ToSet(s) PROVE x \in ToSet(c)
  <2>1. PICK i \in DOMAIN s : x = s[i]
    BY DEF ToSet
  <2>. QED  BY <1>3, <1>4, <2>1 DEF ToSet
<1>7. ASSUME NEW x \in ToSet(t) PROVE x \in ToSet(c)
  <2>1. PICK i \in DOMAIN t : x = t[i]
    BY DEF ToSet
  <2>. QED  BY <1>3, <1>4, <2>1 DEF ToSet
<1>. QED  BY <1>1, <1>3, <1>5, <1>6, <1>7

LEMMA OnePart ==
    ASSUME NEW p, p \in Others
    PROVE  IsTail(<<p>>) /\ IsTail(Lower(<<p>>))
<1>1. PICK s : s = <<p>>
  OBVIOUS
<1>2. IsList(s) /\ Len(s) = 1 /\ DOMAIN s = 1..1 /\ s[1] = p
  BY <1>1, One
<1>3. PICK low : low = Lower(s)
  OBVIOUS
<1>4. IsList(low) /\ \A i \in DOMAIN s : low[i] = LowerPart(s[i])
  BY <1>2, <1>3, LowerFacts
<1>5. low[1] \in Others
  BY <1>2, <1>4, OthersInLowerCase
<1>. QED  BY <1>1, <1>2, <1>3, <1>4, <1>5 DEF IsTail

LEMMA TailParts ==
    /\ IsTail(SM) /\ IsTail(JSON) /\ IsTail(<<"-edited">>) /\ IsTail(<<"-EDITED">>) /\ IsTail(<<".mp">>)
    /\ \A k \in 0..MaxNumber : IsTail(<<Number(k)>>)
    /\ \A p \in Numbers \cup Extensions : IsTail(<<p>>) /\ IsTail(Lower(<<p>>))
<1>1. ".supplemental-metadata" \in Others
  <2>1. SM = <<".supplemental-metadata">>
    BY DEF SM
  <2>2. ".supplemental-metadata" \in ToSet(SM)
    BY <2>1, One DEF ToSet
  <2>. QED  BY <2>2 DEF Others
<1>2. ".json" \in Others /\ ".mp" \in Others /\ "-edited" \in Others /\ "-EDITED" \in Others
  BY DEF Others, Extensions, Marks
<1>3. \A k \in 0..MaxNumber : Number(k) \in Others
  BY DEF Others, Numbers
<1>4. Numbers \cup Extensions \subseteq Others
  BY DEF Others
<1>. QED  BY <1>1, <1>2, <1>3, <1>4, OnePart DEF SM, JSON

(* All names are of the series S; an attempt that is sure has such names.   *)
AllKin(names, S)    == IsList(names) /\ \A n \in ToSet(names) : IsKin(n, S)
KinAttempt(a, S)    == a.confidence = 100 => AllKin(a.names, S)
KinAttempts(tries, S) == IsList(tries) /\ \A a \in ToSet(tries) : KinAttempt(a, S)

LEMMA KinConcat ==
    ASSUME NEW S, NEW s, NEW t
    PROVE  /\ AllKin(s, S) /\ AllKin(t, S) => AllKin(s \o t, S)
           /\ KinAttempts(s, S) /\ KinAttempts(t, S) => KinAttempts(s \o t, S)
<1>1. AllKin(s, S) /\ AllKin(t, S) => AllKin(s \o t, S)
  BY ConcatElements DEF AllKin
<1>2. KinAttempts(s, S) /\ KinAttempts(t, S) => KinAttempts(s \o t, S)
  BY ConcatElements DEF KinAttempts
<1>. QED  BY <1>1, <1>2

LEMMA KinNothing ==
    ASSUME NEW S
    PROVE  AllKin(<<>>, S) /\ KinAttempts(<<>>, S)
BY Nothing DEF AllKin, KinAttempts, ToSet

LEMMA KinSingle ==
    ASSUME NEW S, NEW tier, NEW names, AllKin(names, S)
    PROVE  KinAttempt(Attempt(tier, 100, names), S) /\ KinAttempts(<<Attempt(tier, 100, names)>>, S)
<1>1. PICK a : a = Attempt(tier, 100, names)
  OBVIOUS
<1>2. IsList(a.names) /\ DOMAIN a.names = DOMAIN names /\ \A i \in DOMAIN names : a.names[i] = names[i] \o JSON
  <2>1. IsList(names)
    BY DEF AllKin
  <2>. QED  BY <1>1, <2>1, AttemptFacts
<1>3. ASSUME NEW n \in ToSet(a.names) PROVE IsKin(n, S)
  <2>1. PICK i \in DOMAIN names : n = names[i] \o JSON
    BY <1>2 DEF ToSet
  <2>2. IsKin(names[i], S)
    BY DEF AllKin, ToSet
  <2>. QED  BY <2>1, <2>2, KinTail, TailParts
<1>4. KinAttempt(a, S)
  BY <1>2, <1>3 DEF KinAttempt, AllKin
<1>5. KinAttempts(<<a>>, S)
  <2>1. IsList(<<a>>) /\ ToSet(<<a>>) = {a}
    BY One DEF ToSet
  <2>. QED  BY <1>4, <2>1 DEF KinAttempts
<1>. QED  BY <1>1, <1>4, <1>5

KinEach(s, n, S) == DOMAIN s = 1..n /\ s = [i \in 1..n |-> s[i]] /\ \A i \in 1..n : IsKin(s[i], S)

LEMMA KinTuple ==
    ASSUME NEW S, NEW n \in Nat, NEW s, KinEach(s, n, S)
    PROVE  AllKin(s, S)
BY ListOf DEF AllKin, KinEach, ToSet

(* A name with some of these endings is of the series of its beginning.     *)
LEMMA KinPlain ==
    ASSUME NEW S, NEW base, IsKin(base, S), NEW ext, IsTail(ext), IsTail(Lower(ext))
    PROVE  AllKin(Plain(base, ext), S)
<1>. DEFINE s == Plain(base, ext)
<1>1. DOMAIN s = 1..6 /\ s = [i \in 1..6 |-> s[i]]
  BY DEF Plain
<1>2. /\ s[1] = base \o ext \o SM /\ s[2] = base \o Lower(ext) \o SM /\ s[3] = base \o SM
      /\ s[4] = base \o ext /\ s[5] = base \o Lower(ext) /\ s[6] = base
  BY DEF Plain
<1>. HIDE DEF s
<1>3. IsTail(SM)
  BY TailParts
<1>4. IsKin(base \o ext, S) /\ IsKin(base \o Lower(ext), S) /\ IsKin(base \o SM, S)
  BY <1>3, KinTail
<1>5. IsKin(base \o ext \o SM, S) /\ IsKin(base \o Lower(ext) \o SM, S)
  BY <1>3, <1>4, KinTail
<1>6. /\ IsKin(s[1], S) /\ IsKin(s[2], S) /\ IsKin(s[3], S)
      /\ IsKin(s[4], S) /\ IsKin(s[5], S) /\ IsKin(s[6], S)
  BY <1>2, <1>4, <1>5
<1>7. \A i \in 1..6 : i \in {1, 2, 3, 4, 5, 6}
  OBVIOUS
<1>8. \A i \in 1..6 : IsKin(s[i], S)
  BY <1>6, <1>7
<1>9. 6 \in Nat
  OBVIOUS
<1>10. KinEach(s, 6, S)
  BY <1>1, <1>8 DEF KinEach
<1>11. AllKin(s, S)
  BY <1>9, <1>10, KinTuple
<1>. QED  BY <1>11 DEF s

LEMMA KinNumbered ==
    ASSUME NEW S, NEW base, IsKin(base, S), NEW ext, IsTail(ext), IsTail(Lower(ext)), NEW k \in 0..MaxNumber
    PROVE  AllKin(Numbered(base, ext, k), S)
<1>. DEFINE s == Numbered(base, ext, k)
<1>. PICK low, n : low = Lower(ext) /\ n = <<Number(k)>>
  OBVIOUS
<1>1. DOMAIN s = 1..11 /\ s = [i \in 1..11 |-> s[i]]
  BY DEF Numbered
<1>2. /\ s[1] = base \o ext \o SM \o n /\ s[2] = base \o low \o SM \o n /\ s[3] = base \o SM \o n
      /\ s[4] = base \o n \o ext \o SM /\ s[5] = base \o n \o low \o SM /\ s[6] = base \o n \o SM
      /\ s[7] = base \o ext \o n /\ s[8] = base \o low \o n /\ s[9] = base \o n
      /\ s[10] = base \o n \o ext /\ s[11] = base \o n \o low
  BY DEF Numbered
<1>. HIDE DEF s
<1>3. IsTail(SM) /\ IsTail(n) /\ IsTail(low) /\ IsTail(ext)
  BY TailParts
<1>4. IsKin(base \o ext, S) /\ IsKin(base \o low, S) /\ IsKin(base \o SM, S) /\ IsKin(base \o n, S)
  BY <1>3, KinTail
<1>5. /\ IsKin(base \o ext \o SM, S) /\ IsKin(base \o low \o SM, S) /\ IsKin(base \o SM \o n, S)
      /\ IsKin(base \o n \o ext, S) /\ IsKin(base \o n \o low, S) /\ IsKin(base \o n \o SM, S)
      /\ IsKin(base \o ext \o n, S) /\ IsKin(base \o low \o n, S)
  BY <1>3, <1>4, KinTail
<1>6. /\ IsKin(base \o ext \o SM \o n, S) /\ IsKin(base \o low \o SM \o n, S)
      /\ IsKin(base \o n \o ext \o SM, S) /\ IsKin(base \o n \o low \o SM, S)
  BY <1>3, <1>5, KinTail
<1>7. /\ IsKin(s[1], S) /\ IsKin(s[2], S) /\ IsKin(s[3], S) /\ IsKin(s[4], S) /\ IsKin(s[5], S)
      /\ IsKin(s[6], S) /\ IsKin(s[7], S) /\ IsKin(s[8], S) /\ IsKin(s[9], S)
      /\ IsKin(s[10], S) /\ IsKin(s[11], S)
  BY <1>2, <1>4, <1>5, <1>6
<1>8. \A i \in 1..11 : i \in {1, 2, 3, 4, 5, 6, 7, 8, 9, 10, 11}
  OBVIOUS
<1>9. \A i \in 1..11 : IsKin(s[i], S)
  BY <1>7, <1>8
<1>10. 11 \in Nat
  OBVIOUS
<1>11. KinEach(s, 11, S)
  BY <1>1, <1>9 DEF KinEach
<1>12. AllKin(s, S)
  BY <1>10, <1>11, KinTuple
<1>. QED  BY <1>12 DEF s

(* Stems, and what is left of them without numbers and marks.               *)
LEMMA KinFront ==
    ASSUME NEW S, NEW n, IsKin(n, S), n # <<>>, Last(n) \in Others
    PROVE  IsKin(Front(n), S)
<1>1. PICK f : f = Front(n)
  OBVIOUS
<1>2. IsList(n)
  BY DEF IsKin
<1>3. /\ IsList(f) /\ Len(n) = Len(f) + 1 /\ Last(n) = n[Len(n)]
      /\ \A i \in 1..Len(f) : f[i] = n[i]
  BY <1>1, <1>2, FrontFacts
<1>4. Len(f) \in Nat /\ Len(f) <= Len(n) /\ n[Len(f) + 1] \in Others
  BY <1>3, ListFacts
<1>5. Series(f) = Series(n)
  BY <1>2, <1>3, <1>4, CutSeries
<1>. QED  BY <1>1, <1>3, <1>5 DEF IsKin

LEMMA KinStem ==
    ASSUME NEW S, NEW name, IsKin(name, S)
    PROVE  IsKin(Stem(name), S)
<1>1. Stem(name) = name \/ (name # <<>> /\ Last(name) \in Extensions /\ Stem(name) = Front(name))
  BY DEF Stem, ExtensionOf
<1>2. Extensions \subseteq Others
  BY DEF Others
<1>. QED  BY <1>1, <1>2, KinFront

LEMMA KinUnnumbered ==
    ASSUME NEW S, NEW stem, IsKin(stem, S)
    PROVE  /\ IsKin(Unnumbered(stem), S)
           /\ IsNumbered(stem) => IsKin(Front(stem), S)
           /\ IsEdited(stem) => IsKin(Front(Unnumbered(stem)), S)
<1>1. Numbers \subseteq Others /\ Marks \subseteq Others
  BY DEF Others
<1>2. IsNumbered(stem) => IsKin(Front(stem), S)
  BY <1>1, KinFront DEF IsNumbered
<1>3. IsKin(Unnumbered(stem), S)
  BY <1>2 DEF Unnumbered
<1>4. PICK u : u = Unnumbered(stem)
  OBVIOUS
<1>5. IsEdited(stem) => IsKin(Front(u), S)
  BY <1>1, <1>3, <1>4, KinFront DEF IsEdited
<1>. QED  BY <1>2, <1>3, <1>4, <1>5

LEMMA KinRoot ==
    ASSUME NEW S, NEW stem, IsKin(stem, S)
    PROVE  IsKin(Root(stem), S)
<1>. DEFINE n    == Len(stem)
            ends == {i \in 0..n : \A j \in (i + 1)..n : stem[j] \in Numbers}
            r    == Min(ends)
            b    == SubSeq(stem, 1, r)
<1>1. IsList(stem) /\ n \in Nat /\ DOMAIN stem = 1..n
  BY ListFacts DEF IsKin
<1>2. Root(stem) = b
  BY DEF Root
<1>3. r \in ends
  <2>1. n \in ends
    BY <1>1
  <2>2. ends \in SUBSET Nat
    OBVIOUS
  <2>. HIDE DEF ends
  <2>. QED  BY <2>1, <2>2, SmallestOf
<1>. HIDE DEF b, r
<1>4. r \in 0..n /\ \A j \in (r + 1)..n : stem[j] \in Numbers
  BY <1>3
<1>. HIDE DEF n
<1>5. IsList(b) /\ Len(b) = r /\ \A i \in 1..r : b[i] = stem[i]
  BY <1>1, <1>4, BeginningFacts DEF b, n
<1>6. Len(b) <= Len(stem) /\ (Len(b) = Len(stem) \/ stem[Len(b) + 1] \in Others)
  <2>1. r <= n /\ (r = n \/ r + 1 \in (r + 1)..n)
    BY <1>1, <1>4
  <2>2. Numbers \subseteq Others
    BY DEF Others
  <2>. QED  BY <1>4, <1>5, <2>1, <2>2 DEF n
<1>7. Series(b) = Series(stem)
  BY <1>1, <1>5, <1>6, CutSeries
<1>. QED  BY <1>2, <1>5, <1>7 DEF IsKin

(* The numbers that are searched are numbers of files. *)
LEMMA SearchOrderNumbers ==
    ASSUME NEW n \in 0..MaxNumber, NEW s, s = SearchOrder(n)
    PROVE  IsList(s) /\ ToSet(s) \subseteq 0..MaxNumber
<1>. DEFINE down == IF n > 1 THEN [i \in 1..(n - 1) |-> n - i] ELSE IF n = 0 THEN <<1>> ELSE <<>>
            have == {n} \cup ToSet(down)
            five == <<1, 2, 3, 4, 5>>
            rest == Picked(five, 1..5 \ have)
            self == <<n>>
<1>1. s = (self \o down) \o rest
  BY DEF SearchOrder
<1>2. MaxNumber \in Nat /\ MaxNumber >= 5 /\ n \in Nat /\ n <= MaxNumber
  BY MatcherAssumption
<1>3. IsList(down) /\ ToSet(down) \subseteq 0..MaxNumber
  <2>1. CASE n > 1
    <3>. DEFINE d == [i \in 1..(n - 1) |-> n - i]
    <3>1. down = d /\ n - 1 \in Nat /\ DOMAIN d = 1..(n - 1) /\ d = [i \in 1..(n - 1) |-> d[i]]
      BY <1>2, <2>1
    <3>2. \A i \in 1..(n - 1) : d[i] \in 0..MaxNumber
      BY <1>2
    <3>. HIDE DEF d, down
    <3>3. IsList(d)
      BY <3>1, ListOf
    <3>. QED  BY <3>1, <3>2, <3>3 DEF ToSet
  <2>2. CASE n = 0
    <3>1. down = <<1>>
      BY <2>2
    <3>. HIDE DEF down
    <3>2. IsList(down) /\ DOMAIN down = 1..1 /\ down[1] = 1
      BY <3>1, One
    <3>. QED  BY <1>2, <3>2 DEF ToSet
  <2>3. CASE ~(n > 1) /\ n # 0
    <3>1. down = <<>>
      BY <2>3
    <3>. HIDE DEF down
    <3>. QED  BY <3>1, Nothing DEF ToSet
  <2>. QED  BY <2>1, <2>2, <2>3
<1>. HIDE DEF down
<1>4. IsList(rest) /\ ToSet(rest) \subseteq 0..MaxNumber
  <2>1. 5 \in Nat /\ (1..5 \ have) \in SUBSET (1..5)
    OBVIOUS
  <2>2. \A i \in 1..5 \ have : five[i] \in 0..MaxNumber
    <3>1. \A i \in 1..5 : five[i] = i
      OBVIOUS
    <3>. HIDE DEF five
    <3>. QED  BY <1>2, <3>1
  <2>. HIDE DEF have, five
  <2>3. IsList(rest) /\ \A k \in DOMAIN rest : \E i \in 1..5 \ have : rest[k] = five[i]
    BY <2>1, PickedFacts
  <2>. HIDE DEF rest
  <2>. QED  BY <2>2, <2>3 DEF ToSet
<1>5. IsList(self) /\ ToSet(self) \subseteq 0..MaxNumber
  <2>. HIDE DEF self
  <2>1. IsList(self) /\ DOMAIN self = 1..1 /\ self[1] = n
    BY One DEF self
  <2>. QED  BY <2>1 DEF ToSet
<1>. HIDE DEF rest, self
<1>. DEFINE first == self \o down
<1>6. IsList(first) /\ ToSet(first) \subseteq 0..MaxNumber
  BY <1>3, <1>5, ConcatElements
<1>7. s = first \o rest
  BY <1>1
<1>. HIDE DEF first
<1>. QED  BY <1>4, <1>6, <1>7, ConcatElements

(* A list of attempts that are each of the series, one for each of a list.  *)
EachKinAttempt(tries, n, S) ==
    DOMAIN tries = 1..n /\ tries = [i \in 1..n |-> tries[i]] /\ \A i \in 1..n : KinAttempt(tries[i], S)
LEMMA KinMapped ==
    ASSUME NEW S, NEW n \in Nat, NEW tries, EachKinAttempt(tries, n, S)
    PROVE  KinAttempts(tries, S)
BY ListOf DEF KinAttempts, EachKinAttempt, ToSet

LEMMA KinFour ==
    ASSUME NEW S, NEW a, NEW b, NEW c, NEW d, IsKin(a, S), IsKin(b, S), IsKin(c, S), IsKin(d, S)
    PROVE  AllKin(<<a, b, c, d>>, S)
<1>. DEFINE s == <<a, b, c, d>>
<1>1. DOMAIN s = 1..4 /\ s = [i \in 1..4 |-> s[i]] /\ s[1] = a /\ s[2] = b /\ s[3] = c /\ s[4] = d
  OBVIOUS
<1>2. \A i \in 1..4 : i \in {1, 2, 3, 4}
  OBVIOUS
<1>. HIDE DEF s
<1>3. \A i \in 1..4 : IsKin(s[i], S)
  BY <1>1, <1>2
<1>4. KinEach(s, 4, S) /\ 4 \in Nat
  BY <1>1, <1>3 DEF KinEach
<1>5. AllKin(s, S)
  BY <1>4, KinTuple
<1>. QED  BY <1>5 DEF s

LEMMA KinOwn ==
    ASSUME NEW S, NEW name, IsKin(name, S), NEW ext, IsTail(Lower(ext))
    PROVE  KinAttempts(OwnAttempts(name, ext), S)
<1>. PICK stem, low : stem = Stem(name) /\ low = stem \o Lower(ext)
  OBVIOUS
<1>. DEFINE four == << name \o SM, name, low \o SM, low >>
            two  == << stem \o SM, stem >>
            a    == Attempt(1, 100, four)
            b    == Attempt(2, 100, two)
<1>1. IsKin(stem, S) /\ IsKin(low, S) /\ IsTail(SM)
  BY KinStem, KinTail, TailParts
<1>2. IsKin(name \o SM, S) /\ IsKin(low \o SM, S) /\ IsKin(stem \o SM, S)
  BY <1>1, KinTail
<1>3. AllKin(four, S)
  BY <1>1, <1>2, KinFour
<1>4. AllKin(two, S)
  <2>1. DOMAIN two = 1..2 /\ two = [i \in 1..2 |-> two[i]] /\ two[1] = stem \o SM /\ two[2] = stem
    OBVIOUS
  <2>2. \A i \in 1..2 : i \in {1, 2}
    OBVIOUS
  <2>. HIDE DEF two
  <2>3. \A i \in 1..2 : IsKin(two[i], S)
    BY <1>1, <1>2, <2>1, <2>2
  <2>4. KinEach(two, 2, S) /\ 2 \in Nat
    BY <2>1, <2>3 DEF KinEach
  <2>. QED  BY <2>4, KinTuple
<1>. HIDE DEF four, two
<1>5. KinAttempt(a, S) /\ KinAttempt(b, S)
  BY <1>3, <1>4, KinSingle
<1>6. OwnAttempts(name, ext) = <<a, b>>
  BY DEF OwnAttempts, four, two
<1>. HIDE DEF a, b
<1>7. PICK own : own = <<a, b>>
  OBVIOUS
<1>8. IsList(own) /\ DOMAIN own = 1..2 /\ own[1] = a /\ own[2] = b
  BY <1>7, Two
<1>9. \A i \in 1..2 : i = 1 \/ i = 2
  OBVIOUS
<1>. QED  BY <1>5, <1>6, <1>7, <1>8, <1>9 DEF KinAttempts, ToSet

LEMMA KinNumberAttempts ==
    ASSUME NEW S, NEW stem, IsKin(stem, S), NEW ext, IsTail(ext), IsTail(Lower(ext))
    PROVE  KinAttempts(NumberAttempts(stem, ext), S)
<1>1. CASE ~IsNumbered(stem)
  BY <1>1, KinNothing DEF NumberAttempts
<1>2. CASE IsNumbered(stem)
  <2>. PICK root, order : root = Root(stem) /\ order = SearchOrder(ValueOf(Last(stem)))
    OBVIOUS
  <2>. DEFINE plain == << Attempt(3, 100, Plain(Front(stem), ext)) >>
              inner == IF Front(stem) # root THEN plain ELSE <<>>
              outer == << Attempt(3, 95, Plain(root, ext)) >>
              each  == [i \in DOMAIN order |-> Attempt(3, 100, Numbered(root, ext, order[i]))]
  <2>1. NumberAttempts(stem, ext) = (inner \o each) \o outer
    BY <1>2 DEF NumberAttempts
  <2>2. IsKin(root, S) /\ IsKin(Front(stem), S)
    BY <1>2, KinRoot, KinUnnumbered
  <2>3. KinAttempts(plain, S)
    BY <2>2, KinPlain, KinSingle
  <2>4. KinAttempts(inner, S)
    <3>. HIDE DEF plain
    <3>. QED  BY <2>3, KinNothing
  <2>5. KinAttempts(outer, S)
    <3>. PICK a : a = Attempt(3, 95, Plain(root, ext))
      OBVIOUS
    <3>1. a.confidence = 95
      BY DEF Attempt
    <3>2. KinAttempt(a, S)
      BY <3>1 DEF KinAttempt
    <3>3. IsList(<<a>>) /\ ToSet(<<a>>) = {a}
      BY One DEF ToSet
    <3>. QED  BY <3>2, <3>3 DEF KinAttempts
  <2>6. IsList(order) /\ ToSet(order) \subseteq 0..MaxNumber
    <3>1. PICK n \in 0..MaxNumber : Last(stem) = Number(n)
      BY <1>2 DEF IsNumbered, Numbers
    <3>2. ValueOf(Last(stem)) \in 0..MaxNumber
      BY <3>1 DEF ValueOf
    <3>. QED  BY <3>2, SearchOrderNumbers
  <2>7. KinAttempts(each, S)
    <3>1. Len(order) \in Nat /\ DOMAIN order = 1..Len(order)
      BY <2>6, ListFacts
    <3>2. ASSUME NEW i \in DOMAIN order
          PROVE  KinAttempt(Attempt(3, 100, Numbered(root, ext, order[i])), S)
      <4>1. order[i] \in 0..MaxNumber
        BY <2>6 DEF ToSet
      <4>2. AllKin(Numbered(root, ext, order[i]), S)
        BY <2>2, <4>1, KinNumbered
      <4>. QED  BY <4>2, KinSingle
    <3>3. EachKinAttempt(each, Len(order), S)
      BY <3>1, <3>2 DEF EachKinAttempt
    <3>. HIDE DEF each
    <3>. QED  BY <3>1, <3>3, KinMapped
  <2>. HIDE DEF inner, outer, each
  <2>8. KinAttempts(inner \o each, S)
    BY <2>4, <2>7, KinConcat
  <2>. QED  BY <2>1, <2>5, <2>8, KinConcat
<1>. QED  BY <1>1, <1>2

LEMMA KinEdited ==
    ASSUME NEW S, NEW name, IsKin(name, S), NEW stem, IsKin(stem, S), NEW ext, IsTail(ext), IsTail(Lower(ext))
    PROVE  KinAttempts(EditedAttempts(name, stem, ext), S)
<1>. PICK base, n, low : base = Front(Unnumbered(stem)) /\ n = <<Last(stem)>> /\ low = Lower(ext)
  OBVIOUS
<1>. DEFINE six == << base \o ext \o SM \o n, base \o low \o SM \o n, base \o SM \o n,
                      base \o ext \o n, base \o low \o n, base \o n >>
            dup == IF ~IsNumbered(stem) THEN <<>> ELSE six
            own == << name \o SM, name, stem \o SM, stem >>
            edited == (own \o dup) \o Plain(base, ext)
            marked(mark) == << stem \o mark \o ext, stem \o mark \o low, stem \o mark >>
            both   == marked(<<"-edited">>) \o marked(<<"-EDITED">>)
            before == IF IsEdited(stem) THEN << Attempt(4, 100, edited) >> ELSE <<>>
            after  == << Attempt(4, 100, both) >>
<1>1. EditedAttempts(name, stem, ext) = before \o after
  BY DEF EditedAttempts
<1>2. IsTail(SM) /\ IsTail(<<"-edited">>) /\ IsTail(<<"-EDITED">>) /\ IsTail(low) /\ IsTail(ext)
  BY TailParts
<1>3. AllKin(own, S)
  <2>1. IsKin(name \o SM, S) /\ IsKin(stem \o SM, S)
    BY <1>2, KinTail
  <2>. QED  BY <2>1, KinFour
<1>4. ASSUME NEW mark, IsTail(mark) PROVE AllKin(marked(mark), S)
  <2>. DEFINE s == marked(mark)
  <2>0. IsKin(stem \o mark, S) /\ IsKin(stem \o mark \o ext, S) /\ IsKin(stem \o mark \o low, S)
    BY <1>2, <1>4, KinTail
  <2>1. /\ DOMAIN s = 1..3 /\ s = [i \in 1..3 |-> s[i]]
        /\ s[1] = stem \o mark \o ext /\ s[2] = stem \o mark \o low /\ s[3] = stem \o mark
    OBVIOUS
  <2>2. \A i \in 1..3 : i \in {1, 2, 3}
    OBVIOUS
  <2>. HIDE DEF s
  <2>3. \A i \in 1..3 : IsKin(s[i], S)
    BY <2>0, <2>1, <2>2
  <2>4. KinEach(s, 3, S) /\ 3 \in Nat
    BY <2>1, <2>3 DEF KinEach
  <2>5. AllKin(s, S)
    BY <2>4, KinTuple
  <2>. QED  BY <2>5 DEF s
<1>5. KinAttempts(after, S)
  <2>1. AllKin(marked(<<"-edited">>), S) /\ AllKin(marked(<<"-EDITED">>), S)
    BY <1>2, <1>4
  <2>. HIDE DEF marked
  <2>2. AllKin(both, S)
    BY <2>1, KinConcat
  <2>. HIDE DEF both
  <2>. QED  BY <2>2, KinSingle
<1>6. ASSUME IsEdited(stem) PROVE AllKin(edited, S)
  <2>1. IsKin(base, S)
    BY <1>6, KinUnnumbered
  <2>2. AllKin(dup, S)
    <3>1. CASE ~IsNumbered(stem)
      <4>1. dup = <<>>
        BY <3>1
      <4>. QED  BY <4>1, KinNothing
    <3>2. CASE IsNumbered(stem)
      <4>0. IsTail(n)
        BY <3>2, TailParts DEF IsNumbered
      <4>1. /\ IsKin(base \o ext, S) /\ IsKin(base \o low, S) /\ IsKin(base \o SM, S) /\ IsKin(base \o n, S)
            /\ IsKin(base \o ext \o SM, S) /\ IsKin(base \o low \o SM, S)
        BY <1>2, <2>1, <4>0, KinTail
      <4>. PICK n1, n2, n3, n4, n5, n6 :
              /\ n1 = base \o ext \o SM \o n /\ n2 = base \o low \o SM \o n /\ n3 = base \o SM \o n
              /\ n4 = base \o ext \o n /\ n5 = base \o low \o n /\ n6 = base \o n
        OBVIOUS
      <4>2. IsKin(n1, S) /\ IsKin(n2, S) /\ IsKin(n3, S) /\ IsKin(n4, S) /\ IsKin(n5, S) /\ IsKin(n6, S)
        BY <4>0, <4>1, KinTail
      <4>4. dup = six /\ six = <<n1, n2, n3, n4, n5, n6>>
        BY <3>2
      <4>. HIDE DEF six, dup
      <4>3. DOMAIN six = 1..6 /\ six = [i \in 1..6 |-> six[i]]
        BY <4>4
      <4>8. six[1] = n1 /\ six[2] = n2 /\ six[3] = n3 /\ six[4] = n4 /\ six[5] = n5 /\ six[6] = n6
        BY <4>4
      <4>5. \A i \in 1..6 : i \in {1, 2, 3, 4, 5, 6}
        OBVIOUS
      <4>6. \A i \in 1..6 : IsKin(six[i], S)
        BY <4>2, <4>5, <4>8
      <4>7. KinEach(six, 6, S) /\ 6 \in Nat
        BY <4>3, <4>6 DEF KinEach
      <4>. QED  BY <4>4, <4>7, KinTuple
    <3>. QED  BY <3>1, <3>2
  <2>3. AllKin(Plain(base, ext), S)
    BY <2>1, KinPlain
  <2>. HIDE DEF own, dup
  <2>4. AllKin(own \o dup, S)
    BY <1>3, <2>2, KinConcat
  <2>. QED  BY <2>3, <2>4, KinConcat
<1>7. KinAttempts(before, S)
  <2>. HIDE DEF edited
  <2>. QED  BY <1>6, KinSingle, KinNothing
<1>. HIDE DEF before, after
<1>. QED  BY <1>1, <1>5, <1>7, KinConcat

(* Lists of names of the series, one after the other. *)
EachAllKin(seqs, S) == IsList(seqs) /\ \A i \in 1..Len(seqs) : AllKin(seqs[i], S)

LEMMA KinFlatten ==
    ASSUME NEW S, NEW seqs, EachAllKin(seqs, S)
    PROVE  AllKin(FlattenSeq(seqs), S)
<1>. DEFINE n == Len(seqs)
            U == UNION {ToSet(seqs[i]) : i \in 1..n}
            V == Seq(U)
            step == [q \in V \X (1..n) |-> IF q[2] = 1 THEN seqs[1] ELSE q[1] \o seqs[q[2]]]
            Def(f) == f = [i \in 1..n |-> IF i = 1 THEN seqs[i] ELSE f[i - 1] \o seqs[i]]
            flat == CHOOSE f : Def(f)
<1>1. n \in Nat /\ DOMAIN seqs = 1..n
  BY ListFacts DEF EachAllKin
<1>2. \A i \in 1..n : seqs[i] \in V
  <2>. SUFFICES ASSUME NEW i \in 1..n PROVE seqs[i] \in Seq(U)
    OBVIOUS
  <2>1. seqs[i] \in Seq(ToSet(seqs[i]))
    BY DEF EachAllKin, AllKin, IsList
  <2>2. ToSet(seqs[i]) \subseteq U
    OBVIOUS
  <2>. HIDE DEF U
  <2>. QED  BY <2>1, <2>2, SeqMonotonic
<1>3. \A x \in U : IsKin(x, S)
  BY DEF EachAllKin, AllKin
<1>. HIDE DEF U
<1>4. ASSUME NEW r \in V PROVE AllKin(r, S)
  <2>1. Len(r) \in Nat /\ r \in [1..Len(r) -> U]
    BY <1>4, LenProperties
  <2>2. DOMAIN r = 1..Len(r) /\ r = [i \in 1..Len(r) |-> r[i]]
    BY <2>1
  <2>3. IsList(r)
    BY <2>1, <2>2, ListOf
  <2>4. ToSet(r) \subseteq U
    BY <2>1 DEF ToSet
  <2>. QED  BY <1>3, <2>3, <2>4 DEF AllKin
<1>5. CASE n = 0
  <2>1. FlattenSeq(seqs) = seqs /\ ToSet(seqs) = {}
    BY <1>1, <1>5 DEF FlattenSeq, ToSet
  <2>. QED  BY <2>1 DEF AllKin, EachAllKin
<1>6. CASE n # 0
  <2>1. FlattenSeq(seqs) = flat[n]
    BY <1>6 DEF FlattenSeq
  <2>2. <<>> \in V
    OBVIOUS
  <2>3. \A v \in V, i \in 1..n : step[<<v, i>>] = IF i = 1 THEN seqs[1] ELSE v \o seqs[i]
    OBVIOUS
  <2>4. IsStep(V, n, step)
    <3>. SUFFICES ASSUME NEW v \in V, NEW i \in 1..n PROVE step[<<v, i>>] \in V
      BY DEF IsStep
    <3>1. 1 \in 1..n
      BY <1>1, <1>6
    <3>2. v \o seqs[i] \in V
      BY <1>2, ConcatProperties
    <3>. QED  BY <1>2, <2>3, <3>1, <3>2
  <2>. HIDE DEF step, V
  <2>5. PICK f : IsRun(f, n, V, <<>>, step)
    BY <1>1, <2>2, <2>4, Loop
  <2>6. f \in [0..n -> V] /\ \A i \in 1..n : f[i] = step[<<f[i - 1], i>>]
    BY <2>5 DEF IsRun
  <2>7. ASSUME NEW i \in 1..n
        PROVE  f[i] = IF i = 1 THEN seqs[i] ELSE f[i - 1] \o seqs[i]
    <3>1. i - 1 \in 0..n
      BY <1>1
    <3>2. f[i - 1] \in V /\ f[i] = step[<<f[i - 1], i>>]
      BY <2>6, <3>1
    <3>3. step[<<f[i - 1], i>>] = IF i = 1 THEN seqs[1] ELSE f[i - 1] \o seqs[i]
      BY <2>3, <3>2, Zenon
    <3>4. (IF i = 1 THEN seqs[1] ELSE f[i - 1] \o seqs[i]) = IF i = 1 THEN seqs[i] ELSE f[i - 1] \o seqs[i]
      OBVIOUS
    <3>. QED  BY <3>2, <3>3, <3>4, Zenon
  <2>8. Def([i \in 1..n |-> f[i]])
    <3>1. ASSUME NEW i \in 1..n, i # 1 PROVE i - 1 \in 1..n
      BY <1>1, <3>1
    <3>. QED  BY <2>7, <3>1
  <2>9. Def(flat)
    <3>. HIDE DEF Def
    <3>. QED  BY <2>8
  <2>. HIDE DEF flat
  <2>10. \A i \in 1..n : flat[i] = IF i = 1 THEN seqs[i] ELSE flat[i - 1] \o seqs[i]
    BY <2>9
  <2>. HIDE DEF Def
  <2>. DEFINE P == {i \in Nat : i + 1 \in 1..n => flat[i + 1] \in V}
  <2>11. 0 \in P
    <3>1. 1 \in 1..n /\ 0 + 1 = 1
      BY <1>1, <1>6
    <3>. QED  BY <1>2, <2>10, <3>1
  <2>12. ASSUME NEW i \in Nat, i \in P PROVE i + 1 \in P
    <3>. SUFFICES ASSUME (i + 1) + 1 \in 1..n PROVE flat[(i + 1) + 1] \in V
      OBVIOUS
    <3>1. i + 1 \in 1..n /\ (i + 1) + 1 # 1 /\ ((i + 1) + 1) - 1 = i + 1
      BY <1>1
    <3>2. flat[i + 1] \in V /\ flat[(i + 1) + 1] = flat[i + 1] \o seqs[(i + 1) + 1]
      BY <2>10, <2>12, <3>1
    <3>. QED  BY <1>2, <3>2, ConcatProperties DEF V
  <2>13. n - 1 \in P
    <3>1. n - 1 \in Nat
      BY <1>1, <1>6
    <3>. HIDE DEF P
    <3>. QED  BY <2>11, <2>12, <3>1, Induction
  <2>14. flat[n] \in V
    <3>1. (n - 1) + 1 = n /\ n \in 1..n
      BY <1>1, <1>6
    <3>. QED  BY <2>13, <3>1
  <2>. QED  BY <1>4, <2>1, <2>14
<1>. QED  BY <1>5, <1>6

LEMMA KinLiveNames ==
    ASSUME NEW S, NEW stem, IsKin(stem, S), NEW image, IsTail(image)
    PROVE  AllKin(LiveNames(stem, image), S)
<1>. PICK root, order : root = Root(stem) /\ order = SearchOrder(ValueOf(Last(stem)))
  OBVIOUS
<1>. DEFINE pair(base) == << base \o image \o SM, base \o image >>
            at(k) == LET n == <<Number(k)>> IN
                     << root \o image \o SM \o n, root \o image \o n,
                        root \o n \o image \o SM, root \o n \o image >>
            inner == IF Front(stem) # root THEN pair(Front(stem)) ELSE <<>>
            each  == [i \in DOMAIN order |-> at(order[i])]
            more  == IF ~IsNumbered(stem) THEN <<>> ELSE (inner \o FlattenSeq(each)) \o pair(root)
<1>1. LiveNames(stem, image) = pair(stem) \o more
  BY DEF LiveNames
<1>2. IsTail(SM) /\ \A k \in 0..MaxNumber : IsTail(<<Number(k)>>)
  BY TailParts
<1>3. ASSUME NEW base, IsKin(base, S) PROVE AllKin(pair(base), S)
  <2>. PICK x, y : x = base \o image \o SM /\ y = base \o image
    OBVIOUS
  <2>1. IsKin(y, S) /\ IsKin(x, S)
    BY <1>2, <1>3, KinTail
  <2>2. PICK s : s = <<x, y>>
    OBVIOUS
  <2>3. IsList(s) /\ DOMAIN s = 1..2 /\ s[1] = x /\ s[2] = y
    BY <2>2, Two
  <2>4. \A i \in 1..2 : i = 1 \/ i = 2
    OBVIOUS
  <2>5. AllKin(s, S)
    BY <2>1, <2>3, <2>4 DEF AllKin, ToSet
  <2>. QED  BY <2>2, <2>5
<1>4. ASSUME IsNumbered(stem) PROVE AllKin(more, S)
  <2>1. IsKin(root, S) /\ IsKin(Front(stem), S)
    BY <1>4, KinRoot, KinUnnumbered
  <2>2. AllKin(inner, S)
    <3>1. AllKin(pair(Front(stem)), S)
      BY <1>3, <2>1
    <3>. HIDE DEF pair
    <3>. QED  BY <3>1, KinNothing
  <2>3. IsList(order) /\ ToSet(order) \subseteq 0..MaxNumber
    <3>1. PICK n \in 0..MaxNumber : Last(stem) = Number(n)
      BY <1>4 DEF IsNumbered, Numbers
    <3>2. ValueOf(Last(stem)) \in 0..MaxNumber
      BY <3>1 DEF ValueOf
    <3>. QED  BY <3>2, SearchOrderNumbers
  <2>4. ASSUME NEW k \in 0..MaxNumber PROVE AllKin(at(k), S)
    <3>. PICK n : n = <<Number(k)>>
      OBVIOUS
    <3>. PICK n1, n2, n3, n4 :
            /\ n1 = root \o image \o SM \o n /\ n2 = root \o image \o n
            /\ n3 = root \o n \o image \o SM /\ n4 = root \o n \o image
      OBVIOUS
    <3>1. IsTail(n)
      BY <1>2
    <3>2. IsKin(root \o image, S) /\ IsKin(root \o n, S) /\ IsKin(root \o image \o SM, S)
      BY <1>2, <2>1, <3>1, KinTail
    <3>3. IsKin(n1, S) /\ IsKin(n2, S) /\ IsKin(n4, S)
      BY <3>1, <3>2, KinTail
    <3>4. IsKin(n3, S)
      BY <1>2, <3>3, KinTail
    <3>5. AllKin(<<n1, n2, n3, n4>>, S)
      BY <3>3, <3>4, KinFour
    <3>. QED  BY <3>5
  <2>5. AllKin(FlattenSeq(each), S)
    <3>1. Len(order) \in Nat /\ DOMAIN order = 1..Len(order)
      BY <2>3, ListFacts
    <3>2. \A i \in DOMAIN order : order[i] \in 0..MaxNumber
      BY <2>3 DEF ToSet
    <3>. HIDE DEF at
    <3>3. /\ DOMAIN each = 1..Len(order) /\ each = [i \in 1..Len(order) |-> each[i]]
          /\ \A i \in 1..Len(order) : AllKin(each[i], S)
      BY <2>4, <3>1, <3>2
    <3>. HIDE DEF each
    <3>4. IsList(each) /\ Len(each) = Len(order)
      BY <3>1, <3>3, ListOf
    <3>5. EachAllKin(each, S)
      BY <3>3, <3>4 DEF EachAllKin
    <3>. QED  BY <3>5, KinFlatten
  <2>6. AllKin(pair(root), S)
    BY <1>3, <2>1
  <2>. HIDE DEF inner, each, pair
  <2>7. AllKin(inner \o FlattenSeq(each), S)
    BY <2>2, <2>5, KinConcat
  <2>8. more = (inner \o FlattenSeq(each)) \o pair(root)
    BY <1>4
  <2>. HIDE DEF more
  <2>. QED  BY <2>6, <2>7, <2>8, KinConcat
<1>5. AllKin(pair(stem), S)
  BY <1>3
<1>6. AllKin(more, S)
  <2>1. CASE IsNumbered(stem)
    BY <1>4, <2>1
  <2>2. CASE ~IsNumbered(stem)
    <3>1. more = <<>>
      BY <2>2
    <3>. HIDE DEF more
    <3>. QED  BY <3>1, KinNothing
  <2>. QED  BY <2>1, <2>2
<1>. HIDE DEF pair, more
<1>. QED  BY <1>1, <1>5, <1>6, KinConcat

LEMMA KinLive ==
    ASSUME NEW S, NEW stem, IsKin(stem, S), NEW ext
    PROVE  KinAttempts(LiveAttempts(stem, ext), S)
<1>. DEFINE pictures == [i \in DOMAIN ImageExts |-> Attempt(5, 100, LiveNames(stem, <<ImageExts[i]>>))]
            mp       == << stem \o <<".mp">> >>
            motion   == << Attempt(5, 100, mp) >>
            rest     == IF Lower(ext) = <<".mp4">> THEN motion ELSE <<>>
<1>1. KinAttempts(pictures, S)
  <2>1. DOMAIN ImageExts = 1..8 /\ 8 \in Nat /\ \A i \in DOMAIN ImageExts : ImageExts[i] \in Extensions
    <3>1. DOMAIN ImageExts = 1..8
      BY DEF ImageExts
    <3>2. ToSet(ImageExts) \subseteq Extensions
      BY DEF Extensions
    <3>. QED  BY <3>1, <3>2 DEF ToSet
  <2>2. ASSUME NEW i \in 1..8 PROVE KinAttempt(Attempt(5, 100, LiveNames(stem, <<ImageExts[i]>>)), S)
    <3>1. IsTail(<<ImageExts[i]>>)
      BY <2>1, TailParts
    <3>. QED  BY <3>1, KinLiveNames, KinSingle
  <2>3. EachKinAttempt(pictures, 8, S)
    BY <2>1, <2>2 DEF EachKinAttempt
  <2>. HIDE DEF pictures
  <2>. QED  BY <2>1, <2>3, KinMapped
<1>2. KinAttempts(rest, S)
  <2>1. AllKin(mp, S)
    <3>1. PICK x : x = stem \o <<".mp">>
      OBVIOUS
    <3>2. IsKin(x, S)
      BY <3>1, TailParts, KinTail
    <3>3. IsList(<<x>>) /\ ToSet(<<x>>) = {x}
      BY One DEF ToSet
    <3>. QED  BY <3>1, <3>2, <3>3 DEF AllKin
  <2>. HIDE DEF mp
  <2>2. KinAttempts(motion, S)
    BY <2>1, KinSingle
  <2>. HIDE DEF motion
  <2>. QED  BY <2>2, KinNothing
<1>3. KinAttempts(pictures \o rest, S)
  <2>. HIDE DEF pictures, rest
  <2>. QED  BY <1>1, <1>2, KinConcat
<1>4. LiveAttempts(stem, ext) = <<>> \/ LiveAttempts(stem, ext) = pictures \o rest
  BY DEF LiveAttempts
<1>. HIDE DEF pictures, rest
<1>. QED  BY <1>3, <1>4, KinNothing

(* What is looked up for a file, and is sure, is of its series. *)
LEMMA KinAllAttempts ==
    ASSUME NEW name, IsList(name), NEW ext, IsTail(ext), IsTail(Lower(ext))
    PROVE  KinAttempts(Attempts(name, ext), Series(name))
<1>. PICK S, stem : S = Series(name) /\ stem = Stem(name)
  OBVIOUS
<1>1. IsKin(name, S)
  BY DEF IsKin
<1>2. IsKin(stem, S)
  BY <1>1, KinStem
<1>. PICK s1, s2, s3, s4 :
       /\ s1 = OwnAttempts(name, ext) /\ s2 = NumberAttempts(stem, ext)
       /\ s3 = EditedAttempts(name, stem, ext) /\ s4 = LiveAttempts(stem, ext)
  OBVIOUS
<1>3. KinAttempts(s1, S) /\ KinAttempts(s2, S) /\ KinAttempts(s3, S) /\ KinAttempts(s4, S)
  BY <1>1, <1>2, KinOwn, KinNumberAttempts, KinEdited, KinLive
<1>4. Attempts(name, ext) = ((s1 \o s2) \o s3) \o s4
  BY DEF Attempts
<1>5. KinAttempts(s1 \o s2, S)
  BY <1>3, KinConcat
<1>6. KinAttempts((s1 \o s2) \o s3, S)
  BY <1>3, <1>5, KinConcat
<1>7. KinAttempts(((s1 \o s2) \o s3) \o s4, S)
  BY <1>3, <1>6, KinConcat
<1>. QED  BY <1>4, <1>7

-----------------------------------------------------------------------------
(* The match.                                                               *)

(* What a file is matched against: the index and the list of the sidecars.  *)
Searched(ix, ord, names) ==
    /\ IsIndex(ix, names) /\ IsList(ord) /\ Distinct(ord) /\ ToSet(ord) = names
    /\ \A n \in names : IsSidecar(n)
IsFile(name, ext) == IsList(name) /\ IsTail(ext) /\ IsTail(Lower(ext))

LEMMA StemIsList ==
    ASSUME NEW name, IsList(name)
    PROVE  IsList(Stem(name))
<1>1. IsKin(name, Series(name))
  BY DEF IsKin
<1>. QED  BY <1>1, KinStem DEF IsKin

(* Which tier found it, and what that says of the match.                    *)
LEMMA NamedTier ==
    ASSUME NEW ix, NEW name, NEW ext, NEW m, m = Named(ix, name, ext), m # NoMatch
    PROVE  m.tier \in 1..5 /\ m.confidence \in {95, 100}
<1>. PICK tries : tries = Attempts(name, ext)
  OBVIOUS
<1>1. OfTiers(tries, 1..5)
  BY AttemptsFacts
<1>2. PICK q \in DOMAIN tries : m.tier = tries[q].tier /\ m.confidence = tries[q].confidence
  BY NamedFacts
<1>. QED  BY <1>1, <1>2 DEF OfTiers, IsOfTiers

LEMMA FindCases ==
    ASSUME NEW ix, NEW ord, NEW name, NEW ext, NEW m, m = FindBestMatch(ix, ord, name, ext),
           NEW named, named = Named(ix, name, ext)
    PROVE  /\ \/ m = NoMatch
              \/ m = named /\ named # NoMatch
              \/ named = NoMatch /\ m = Truncated(ix, name, ext)
              \/ named = NoMatch /\ m = Fuzzy(ord, name)
           /\ ix.names # {} /\ named # NoMatch => m = named
<1>1. m = IF ix.names = {} THEN NoMatch
          ELSE IF named # NoMatch THEN named
          ELSE IF Truncated(ix, name, ext) # NoMatch THEN Truncated(ix, name, ext)
          ELSE Fuzzy(ord, name)
  BY DEF FindBestMatch
<1>. QED  BY <1>1

(* A match by likeness is the nearest sidecar. *)
LikeNearest(names, stem, m) ==
    \E json : /\ IsNearest(names, stem, json)
              /\ m = Candidate(json, 7, (100 - Far(stem, json) * 10) % 256)

LEMMA FuzzyMatch ==
    ASSUME NEW ix, NEW ord, NEW names, Searched(ix, ord, names), NEW name, IsList(name),
           NEW m, m = Fuzzy(ord, name)
    PROVE  /\ NearestFound(names, Len(ord), name, m)
           /\ m = NoMatch \/ LikeNearest(names, Stem(name), m)
<1>1. IsList(ord) /\ Distinct(ord) /\ ToSet(ord) = names /\ DOMAIN ord = 1..Len(ord)
  BY ListFacts DEF Searched
<1>2. \A i \in 1..Len(ord) : IsSidecar(ord[i])
  BY <1>1 DEF Searched, ToSet
<1>3. Measured(Stem(name), ord)
  BY <1>2, StemIsList, MeasuredFacts
<1>4. NearestFound(names, Len(ord), name, m)
  BY <1>1, <1>3, FuzzyFacts
<1>. QED  BY <1>4 DEF NearestFound, LikeNearest

LEMMA MatchFacts ==
    ASSUME NEW ix, NEW ord, NEW names, Searched(ix, ord, names), NEW name, NEW ext, IsFile(name, ext),
           NEW m, m = FindBestMatch(ix, ord, name, ext)
    PROVE  /\ m.tier \in 0..7
           /\ m.tier = 0 => m = NoMatch
           /\ m.tier \in 1..5 => m = Named(ix, name, ext) /\ m.confidence \in {95, 100}
           /\ m.tier = 6 => m.confidence = 90 /\ OnlyBeginning(ix, Stem(name), ext, m)
           /\ m.tier = 7 => Named(ix, name, ext) = NoMatch /\ LikeNearest(names, Stem(name), m)
<1>0. NoMatch.tier = 0
  BY DEF NoMatch
<1>1. PICK named, cut, like :
        named = Named(ix, name, ext) /\ cut = Truncated(ix, name, ext) /\ like = Fuzzy(ord, name)
  OBVIOUS
<1>2. IsList(name) /\ IsList(Stem(name))
  BY StemIsList DEF IsFile
<1>3. named = NoMatch \/ (named.tier \in 1..5 /\ named.confidence \in {95, 100})
  BY <1>1, NamedTier
<1>4. cut = NoMatch \/ (cut.tier = 6 /\ cut.confidence = 90 /\ OnlyBeginning(ix, Stem(name), ext, cut))
  BY <1>1, <1>2, TruncatedFacts
<1>5. like = NoMatch \/ (like.tier = 7 /\ LikeNearest(names, Stem(name), like))
  <2>1. like = NoMatch \/ LikeNearest(names, Stem(name), like)
    BY <1>1, <1>2, FuzzyMatch
  <2>. QED  BY <2>1 DEF LikeNearest, Candidate
<1>6. \/ m = NoMatch
      \/ m = named /\ named # NoMatch
      \/ named = NoMatch /\ m = cut
      \/ named = NoMatch /\ m = like
  BY <1>1, FindCases
<1>7. CASE m = NoMatch
  BY <1>0, <1>7
<1>8. CASE m = named /\ named # NoMatch
  <2>1. m.tier # 0 /\ m.tier # 6 /\ m.tier # 7 /\ m.tier \in 0..7
    BY <1>3, <1>8
  <2>. QED  BY <1>1, <1>3, <1>8, <2>1
<1>9. CASE m # NoMatch /\ named = NoMatch /\ m = cut
  BY <1>4, <1>9
<1>10. CASE m # NoMatch /\ named = NoMatch /\ m = like
  BY <1>1, <1>5, <1>10
<1>. QED  BY <1>6, <1>7, <1>8, <1>9, <1>10

(* The confidence, if the threshold leaves no room for less than none.      *)
LEMMA LikeConfidence ==
    ASSUME NEW ix, NEW ord, NEW names, Searched(ix, ord, names),
           NEW name, IsList(name), NEW m, LikeNearest(names, Stem(name), m)
    PROVE  /\ m.tier = 7 /\ m.json \in names /\ IsNearest(names, Stem(name), m.json)
           /\ Threshold <= 10 => m.confidence \in 0..100
           /\ Threshold < 128 /\ m.confidence = 100 => Far(Stem(name), m.json) = 0
<1>. PICK stem : stem = Stem(name)
  OBVIOUS
<1>1. PICK json : IsNearest(names, stem, json) /\ m = Candidate(json, 7, (100 - Far(stem, json) * 10) % 256)
  BY DEF LikeNearest
<1>2. PICK d : d = Far(stem, json)
  OBVIOUS
<1>3. m.json = json /\ m.tier = 7 /\ m.confidence = (100 - d * 10) % 256
  BY <1>1, <1>2 DEF Candidate
<1>4. IsList(stem) /\ json \in names /\ d <= DynamicThreshold(stem)
  BY <1>1, <1>2, StemIsList DEF IsNearest
<1>5. IsSidecar(json)
  BY <1>4 DEF Searched
<1>6. d \in Nat
  <2>1. IsList(Lower(stem)) /\ IsList(JsonStem(json))
    BY <1>4, <1>5, LowerFacts, JsonStemFacts
  <2>. QED  BY <1>2, <2>1, DistanceFacts DEF Far
<1>7. d <= Threshold /\ Threshold \in Nat
  <2>1. DynamicThreshold(stem) \in Nat /\ DynamicThreshold(stem) <= Threshold /\ Threshold \in Nat
    BY <1>4, ThresholdFacts, MatcherAssumption
  <2>. QED  BY <1>4, <1>6, <2>1
<1>8. Threshold <= 10 => m.confidence \in 0..100
  <2>. SUFFICES ASSUME Threshold <= 10 PROVE m.confidence \in 0..100
    OBVIOUS
  <2>1. 100 - d * 10 \in 0..100
    BY <1>6, <1>7
  <2>2. \A c \in 0..100 : c % 256 = c
    OBVIOUS
  <2>3. m.confidence = 100 - d * 10
    BY <1>3, <2>1, <2>2
  <2>. QED  BY <2>1, <2>3
<1>9. Threshold < 128 /\ m.confidence = 100 => d = 0
  <2>1. \A c \in 0..127 : (100 - c * 10) % 256 = 100 => c = 0
    OBVIOUS
  <2>. QED  BY <1>3, <1>6, <1>7, <2>1
<1>. QED  BY <1>1, <1>2, <1>3, <1>4, <1>8, <1>9

(* Lower case, of names that are put together. *)
LEMMA LowerConcat ==
    ASSUME NEW s, NEW t, IsList(s), IsList(t)
    PROVE  Lower(s \o t) = Lower(s) \o Lower(t)
<1>. PICK c, low, ls, lt, both :
        c = s \o t /\ low = Lower(c) /\ ls = Lower(s) /\ lt = Lower(t) /\ both = ls \o lt
  OBVIOUS
<1>1. Joined(c, s, t)
  BY ListConcat
<1>2. IsList(c) /\ Len(c) = Len(s) + Len(t) /\ Len(s) \in Nat /\ Len(t) \in Nat
      /\ DOMAIN s = 1..Len(s) /\ DOMAIN t = 1..Len(t) /\ DOMAIN c = 1..Len(c)
      /\ (\A i \in 1..Len(s) : c[i] = s[i]) /\ (\A i \in 1..Len(t) : c[Len(s) + i] = t[i])
  BY <1>1, ListFacts DEF Joined
<1>3. IsList(low) /\ Len(low) = Len(c) /\ \A i \in DOMAIN c : low[i] = LowerPart(c[i])
  BY <1>2, LowerFacts
<1>4. /\ IsList(ls) /\ Len(ls) = Len(s) /\ \A i \in DOMAIN s : ls[i] = LowerPart(s[i])
      /\ IsList(lt) /\ Len(lt) = Len(t) /\ \A i \in DOMAIN t : lt[i] = LowerPart(t[i])
  BY LowerFacts
<1>5. Joined(both, ls, lt)
  BY <1>4, ListConcat
<1>6. IsList(both) /\ Len(both) = Len(s) + Len(t)
      /\ (\A i \in 1..Len(s) : both[i] = ls[i]) /\ (\A i \in 1..Len(t) : both[Len(s) + i] = lt[i])
  BY <1>4, <1>5 DEF Joined
<1>7. ASSUME NEW i \in 1..Len(low) PROVE low[i] = both[i]
  <2>1. i \in 1..Len(s) \/ \E j \in 1..Len(t) : i = Len(s) + j
    <3>1. PICK n, k : n = Len(s) /\ k = Len(t)
      OBVIOUS
    <3>2. i \in 1..(n + k) /\ n \in Nat /\ k \in Nat
      BY <1>2, <1>3, <3>1
    <3>3. i \in 1..n \/ (i - n \in 1..k /\ i = n + (i - n))
      BY <3>2
    <3>. QED  BY <3>1, <3>3
  <2>2. i \in DOMAIN c /\ low[i] = LowerPart(c[i])
    BY <1>2, <1>3
  <2>3. CASE i \in 1..Len(s)
    BY <1>2, <1>4, <1>6, <2>2, <2>3
  <2>4. ASSUME NEW j \in 1..Len(t), i = Len(s) + j PROVE low[i] = both[i]
    <3>1. c[i] = t[j] /\ both[i] = lt[j] /\ j \in DOMAIN t
      BY <1>2, <1>6, <2>4
    <3>. QED  BY <1>4, <2>2, <3>1
  <2>. QED  BY <2>1, <2>3, <2>4
<1>8. IsList(low) /\ IsList(both) /\ Len(low) = Len(both)
  BY <1>2, <1>3, <1>6
<1>9. low = both
  BY <1>7, <1>8, ListEqual
<1>. QED  BY <1>9

LEMMA LowerEndings == Lower(JSON) = JSON /\ Lower(SM) = SM
<1>1. ASSUME NEW p, p \notin DOMAIN Lowered, NEW s, s = <<p>> PROVE Lower(s) = s
  <2>1. IsList(s) /\ DOMAIN s = 1..1 /\ s[1] = p /\ Len(s) = 1
    BY <1>1, One
  <2>2. PICK low : low = Lower(s)
    OBVIOUS
  <2>3. IsList(low) /\ Len(low) = 1 /\ low[1] = LowerPart(p)
    BY <2>1, <2>2, LowerFacts
  <2>4. LowerPart(p) = p
    BY <1>1 DEF LowerPart
  <2>5. low = s
    BY <2>1, <2>3, <2>4, ListEqual
  <2>. QED  BY <2>2, <2>5
<1>2. ".json" \notin DOMAIN Lowered /\ ".supplemental-metadata" \notin DOMAIN Lowered
  <2>. DEFINE upper == <<".HEIC", ".JPG", ".JPEG", ".PNG", ".MOV", "-EDITED", "A", "B", "C">>
  <2>1. DOMAIN Lowered = ToSet(upper)
    BY DEF Lowered
  <2>2. DOMAIN upper = 1..9 /\ \A i \in 1..9 : upper[i] # ".json" /\ upper[i] # ".supplemental-metadata"
    OBVIOUS
  <2>. HIDE DEF upper
  <2>. QED  BY <2>1, <2>2 DEF ToSet
<1>. QED  BY <1>1, <1>2 DEF JSON, SM

(* A sidecar at no distance from a stem is one that its name finds.         *)
LEMMA NoDistance ==
    ASSUME NEW stem, IsList(stem), NEW json, IsSidecar(json), Far(stem, json) = 0
    PROVE  Lower(json) = Lower(stem \o JSON) \/ Lower(json) = Lower(stem \o SM \o JSON)
<1>. PICK low, base : low = Lower(stem) /\ base = JsonStem(json)
  OBVIOUS
<1>1. IsList(low) /\ IsList(base)
  BY LowerFacts, JsonStemFacts
<1>2. low = base
  BY <1>1, DistanceFacts DEF Far
<1>3. Lower(json) = base \o JSON \/ Lower(json) = base \o SM \o JSON
  BY JsonStemFacts
<1>4. IsList(SM) /\ IsList(JSON)
  BY TailParts DEF IsTail
<1>5. IsList(stem \o SM)
  BY <1>4, ConcatElements
<1>6. Lower(stem \o JSON) = low \o JSON /\ Lower(stem \o SM) = low \o SM
  BY <1>4, LowerConcat, LowerEndings
<1>7. Lower(stem \o SM \o JSON) = low \o SM \o JSON
  BY <1>4, <1>5, <1>6, LowerConcat, LowerEndings
<1>8. CASE Lower(json) = base \o JSON
  BY <1>2, <1>6, <1>8, Zenon
<1>9. CASE Lower(json) = base \o SM \o JSON
  BY <1>2, <1>7, <1>9, Zenon
<1>. QED  BY <1>3, <1>8, <1>9, Zenon

(* Then the second attempt hits. *)
LEMMA StemIsNamed ==
    ASSUME NEW ix, NEW names, IsIndex(ix, names), NEW name, NEW ext, NEW json \in names,
           Lower(json) = Lower(Stem(name) \o JSON) \/ Lower(json) = Lower(Stem(name) \o SM \o JSON)
    PROVE  Named(ix, name, ext) # NoMatch
<1>. PICK tries, own, number : /\ tries = Attempts(name, ext) /\ own = OwnAttempts(name, ext)
                               /\ number = NumberAttempts(Stem(name), ext)
  OBVIOUS
<1>1. 2 \in DOMAIN tries /\ tries[2] = own[2]
  BY AttemptsFacts
<1>2. StartOwn(own, name)
  BY OwnAttemptsFacts
<1>3. PICK i \in 1..2 : Lower(json) = Lower(own[2].names[i])
  <2>1. own[2].names[1] = Stem(name) \o SM \o JSON /\ own[2].names[2] = Stem(name) \o JSON
    BY <1>2 DEF StartOwn
  <2>2. 1 \in 1..2 /\ 2 \in 1..2
    OBVIOUS
  <2>3. Lower(json) = Lower(own[2].names[1]) \/ Lower(json) = Lower(own[2].names[2])
    <3>1. \/ Lower(json) = Lower(Stem(name) \o JSON)
          \/ Lower(json) = Lower(Stem(name) \o SM \o JSON)
      OBVIOUS
    <3>. QED  BY <2>1, <3>1, Zenon
  <2>. QED  BY <2>2, <2>3
<1>4. PICK a : a = own[2]
  OBVIOUS
<1>5. a.tier \in 1..5 /\ i \in DOMAIN a.names
  BY <1>2, <1>4 DEF StartOwn
<1>6. Lower(a.names[i]) \in {Lower(n) : n \in names}
  BY <1>3, <1>4
<1>7. Lookup(ix, a.names[i]) # {}
  <2>. PICK t : t = a.names[i]
    OBVIOUS
  <2>. QED  BY <1>6, LookupFacts
<1>8. Hit(ix, a) # NoMatch
  BY <1>5, <1>7, HitTier
<1>. QED  BY <1>1, <1>4, <1>8, NamedFacts

(* What one of the tiers 1 to 5 finds surely is of the file's series.       *)
LEMMA NamedSeries ==
    ASSUME NEW ix, NEW names, IsIndex(ix, names), \A n \in names : IsSidecar(n),
           NEW name, NEW ext, IsFile(name, ext),
           NEW m, m = Named(ix, name, ext), m # NoMatch, m.confidence = 100
    PROVE  Series(m.json) = Series(name)
<1>. PICK tries : tries = Attempts(name, ext)
  OBVIOUS
<1>1. PICK q \in DOMAIN tries : /\ m = Hit(ix, tries[q]) /\ m # NoMatch
                                /\ m.confidence = tries[q].confidence
  BY NamedFacts
<1>. PICK a : a = tries[q]
  OBVIOUS
<1>2. KinAttempts(tries, Series(name))
  BY KinAllAttempts DEF IsFile
<1>3. AllKin(a.names, Series(name))
  BY <1>1, <1>2 DEF KinAttempts, KinAttempt, ToSet
<1>4. PICK i \in DOMAIN a.names : /\ Lookup(ix, a.names[i]) # {}
                                  /\ m.json = CHOOSE c \in Lookup(ix, a.names[i]) : TRUE
  <2>1. IsList(a.names) /\ Hit(ix, a) # NoMatch
    BY <1>1, <1>3 DEF AllKin
  <2>. QED  BY <1>1, <2>1, HitFacts
<1>. PICK t : t = a.names[i]
  OBVIOUS
<1>5. m.json \in Lookup(ix, t)
  BY <1>4
<1>6. m.json \in names /\ Lower(m.json) = Lower(t)
  BY <1>5, LookupFacts
<1>7. IsKin(t, Series(name))
  BY <1>3 DEF AllKin, ToSet
<1>8. IsList(m.json) /\ IsList(t) /\ Series(t) = Series(name)
  BY <1>6, <1>7 DEF IsSidecar, IsKin
<1>. QED  BY <1>6, <1>8, SeriesInLowerCase

(* A sure match has a name that was looked up, and is of the file's series. *)
LEMMA SureFacts ==
    ASSUME NEW ix, NEW ord, NEW names, Searched(ix, ord, names),
           NEW name, NEW ext, IsFile(name, ext), NEW m, m = FindBestMatch(ix, ord, name, ext)
    PROVE  /\ m.tier \in 0..7
           /\ Threshold <= 10 => m.confidence \in 0..100
           /\ Threshold < 128 /\ m.confidence = 100 => m.tier \in 1..5 /\ Series(m.json) = Series(name)
<1>1. /\ m.tier \in 0..7
      /\ m.tier = 0 => m = NoMatch
      /\ m.tier \in 1..5 => m = Named(ix, name, ext) /\ m.confidence \in {95, 100}
      /\ m.tier = 6 => m.confidence = 90
      /\ m.tier = 7 => Named(ix, name, ext) = NoMatch /\ LikeNearest(names, Stem(name), m)
  BY MatchFacts
<1>2. IsIndex(ix, names) /\ (\A n \in names : IsSidecar(n)) /\ IsList(name)
  BY DEF Searched, IsFile
<1>3. CASE m.tier = 0
  BY <1>1, <1>3 DEF NoMatch
<1>4. CASE m.tier = 6
  BY <1>1, <1>4
<1>5. CASE m.tier = 7
  <2>1. /\ m.json \in names
        /\ Threshold <= 10 => m.confidence \in 0..100
        /\ Threshold < 128 /\ m.confidence = 100 => Far(Stem(name), m.json) = 0
    BY <1>1, <1>2, <1>5, LikeConfidence
  <2>2. ASSUME Threshold < 128, m.confidence = 100 PROVE FALSE
    <3>1. IsSidecar(m.json) /\ IsList(Stem(name))
      BY <1>2, <2>1, StemIsList
    <3>2. \/ Lower(m.json) = Lower(Stem(name) \o JSON)
          \/ Lower(m.json) = Lower(Stem(name) \o SM \o JSON)
      BY <2>1, <2>2, <3>1, NoDistance
    <3>3. Named(ix, name, ext) # NoMatch
      BY <1>2, <2>1, <3>2, StemIsNamed
    <3>. QED  BY <1>1, <1>5, <3>3
  <2>. QED  BY <1>1, <2>1, <2>2
<1>6. CASE m.tier \in 1..5
  <2>1. m = Named(ix, name, ext) /\ m # NoMatch /\ m.confidence \in {95, 100}
    <3>1. NoMatch.tier = 0
      BY DEF NoMatch
    <3>. QED  BY <1>1, <1>6, <3>1
  <2>2. m.confidence = 100 => Series(m.json) = Series(name)
    BY <1>2, <2>1, NamedSeries
  <2>. QED  BY <1>1, <1>6, <2>1, <2>2
<1>7. \A t \in 0..7 : t = 0 \/ t = 6 \/ t = 7 \/ t \in 1..5
  OBVIOUS
<1>. QED  BY <1>1, <1>3, <1>4, <1>5, <1>6, <1>7

(* A list without repetitions is as long as it has elements. *)
LEMMA DistinctLength ==
    ASSUME NEW s, IsList(s), Distinct(s)
    PROVE  Cardinality(ToSet(s)) = Len(s)
<1>. PICK n, T : n = Len(s) /\ T = ToSet(s)
  OBVIOUS
<1>1. n \in Nat /\ DOMAIN s = 1..n /\ s \in Seq(T) /\ s \in [1..n -> T]
  <2>1. s \in Seq(T)
    BY DEF IsList
  <2>. QED  BY <2>1, ListFacts, LenProperties
<1>2. IsFiniteSet(1..n) /\ Cardinality(1..n) = n
  <2>1. n \in Int /\ 1 \in Int /\ n \in Nat
    BY <1>1
  <2>2. IsFiniteSet(1..n) /\ Cardinality(1..n) = IF 1 > n THEN 0 ELSE n - 1 + 1
    BY <2>1, FS_Interval, Zenon
  <2>3. (IF 1 > n THEN 0 ELSE n - 1 + 1) = n
    BY <2>1
  <2>. QED  BY <2>2, <2>3
<1>3. s \in Bijection(1..n, T)
  <2>1. \A x, y \in 1..n : s[x] = s[y] => x = y
    BY <1>1 DEF Distinct
  <2>2. \A t \in T : \E x \in 1..n : s[x] = t
    BY <1>1 DEF ToSet
  <2>. QED  BY <1>1, <2>1, <2>2 DEF Bijection, Injection, Surjection, IsInjective
<1>4. ExistsBijection(1..n, T)
  BY <1>3 DEF ExistsBijection
<1>. QED  BY <1>2, <1>4, FS_Bijection

(* Without sidecars that differ in case only, a file's match depends on the *)
(* names of the sidecars only.                                              *)
OneCase(names) == \A n, k \in names : Lower(n) = Lower(k) => n = k

LEMMA OneMatch ==
    ASSUME NEW names, OneCase(names), NEW name, NEW ext, IsFile(name, ext),
           NEW ix, NEW ord, Searched(ix, ord, names), NEW iy, NEW ord2, Searched(iy, ord2, names)
    PROVE  FindBestMatch(ix, ord, name, ext) = FindBestMatch(iy, ord2, name, ext)
<1>1. ix = iy
  BY IndexIsUnique DEF OneCase, Searched
<1>2. PICK m, k : m = Fuzzy(ord, name) /\ k = Fuzzy(ord2, name)
  OBVIOUS
<1>3. IsList(name)
  BY DEF IsFile
<1>4. NearestFound(names, Len(ord), name, m) /\ NearestFound(names, Len(ord2), name, k)
  BY <1>2, <1>3, FuzzyMatch
<1>5. Len(ord) = Len(ord2)
  BY DistinctLength DEF Searched
<1>6. \A json \in names : Far(Stem(name), json) \in Nat
  <2>. SUFFICES ASSUME NEW json \in names PROVE Far(Stem(name), json) \in Nat
    OBVIOUS
  <2>1. IsSidecar(json) /\ IsList(Stem(name))
    BY <1>3, StemIsList DEF Searched
  <2>2. IsList(Lower(Stem(name))) /\ IsList(JsonStem(json))
    BY <2>1, LowerFacts, JsonStemFacts
  <2>. QED  BY <2>2, DistanceFacts DEF Far
<1>7. m = k
  BY <1>4, <1>5, <1>6, NearestFoundOnce
<1>. QED  BY <1>1, <1>2, <1>7 DEF FindBestMatch

(* A match by the beginning of the name: the name that found it, with no    *)
(* other sidecar under one of the six names.                                *)
LEMMA OnlyByBeginning ==
    ASSUME NEW ix, NEW names, IsIndex(ix, names), NEW stem, NEW ext, NEW m, OnlyBeginning(ix, stem, ext, m)
    PROVE  \E c \in 0..Len(stem) :
              /\ \E v \in ToSet(TruncatedNames(stem, ext, c)) : Lower(v \o JSON) = Lower(m.json)
              /\ \A v \in ToSet(TruncatedNames(stem, ext, c)) : v \o JSON \notin names \ {m.json}
<1>1. PICK c \in 0..Len(stem), i \in 1..6 :
        /\ m.json \in Lookup(ix, TruncatedNames(stem, ext, c)[i] \o JSON)
        /\ \A j \in 1..6 : Lookup(ix, TruncatedNames(stem, ext, c)[j] \o JSON) # {} => j = i
  BY DEF OnlyBeginning
<1>2. PICK six : six = TruncatedNames(stem, ext, c)
  OBVIOUS
<1>3. DOMAIN six = 1..6
  BY <1>2 DEF TruncatedNames
<1>4. PICK v : v = six[i]
  OBVIOUS
<1>5. v \in ToSet(six)
  BY <1>3, <1>4 DEF ToSet
<1>6. Lower(m.json) = Lower(v \o JSON)
  <2>. PICK t : t = v \o JSON
    OBVIOUS
  <2>1. m.json \in Lookup(ix, t)
    BY <1>1, <1>2, <1>4
  <2>. QED  BY <2>1, LookupFacts
<1>7. ASSUME NEW w \in ToSet(six), w \o JSON \in names PROVE w \o JSON = m.json
  <2>1. PICK j \in 1..6 : w = six[j]
    BY <1>3 DEF ToSet
  <2>. PICK t : t = w \o JSON
    OBVIOUS
  <2>2. Lookup(ix, t) = {t}
    BY <1>7, LookupFacts
  <2>3. j = i
    BY <1>1, <1>2, <2>1, <2>2
  <2>. QED  BY <1>1, <1>2, <2>1, <2>2, <2>3
<1>. QED  BY <1>2, <1>5, <1>6, <1>7

(* A guess is the only one of its kind. *)
LEMMA GuessFacts ==
    ASSUME NEW ix, NEW ord, NEW names, Searched(ix, ord, names), NEW name, NEW ext, IsFile(name, ext),
           NEW m, m = FindBestMatch(ix, ord, name, ext)
    PROVE  /\ m.tier = 7 => \A json \in names \ {m.json} : Far(Stem(name), json) > Far(Stem(name), m.json)
           /\ m.tier = 6 => OnlyBeginning(ix, Stem(name), ext, m)
<1>1. /\ m.tier = 6 => OnlyBeginning(ix, Stem(name), ext, m)
      /\ m.tier = 7 => LikeNearest(names, Stem(name), m)
  BY MatchFacts
<1>2. ASSUME m.tier = 7 PROVE \A json \in names \ {m.json} : Far(Stem(name), json) > Far(Stem(name), m.json)
  <2>1. PICK json : IsNearest(names, Stem(name), json)
                    /\ m = Candidate(json, 7, (100 - Far(Stem(name), json) * 10) % 256)
    BY <1>1, <1>2 DEF LikeNearest
  <2>2. m.json = json
    BY <2>1 DEF Candidate
  <2>. QED  BY <2>1, <2>2 DEF IsNearest
<1>. QED  BY <1>1, <1>2
=============================================================================
