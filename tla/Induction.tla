------------------------------ MODULE Induction ------------------------------
(***************************************************************************)
(* Induction over the naturals, stated over sets so that it can be         *)
(* instantiated; what it gives for functions defined by recursion and for  *)
(* the least and greatest elements of sets of naturals.                    *)
(***************************************************************************)
EXTENDS Sums, FiniteSetsExt, SequenceTheorems, WellFoundedInduction, TLAPS

(* Induction: a set of naturals closed under successor holds them all. *)
LEMMA Induction ==
    ASSUME NEW S \in SUBSET Nat, 0 \in S, \A n \in S : n + 1 \in S
    PROVE  S = Nat
<1> DEFINE T == Nat \ S
           R == OpToRel(<, Nat)
<1>1. IsWellFoundedOn(R, Nat)
    BY NatLessThanWellFounded
<1>2. \A x, y \in Nat : <<y, x>> \in R <=> y < x
    BY DEF OpToRel
<1> HIDE DEF R
<1> SUFFICES ASSUME T # {} PROVE FALSE
    OBVIOUS
<1>3. PICK x \in T : \A y \in T : ~(<<y, x>> \in R)
  <2>1. T \subseteq Nat
    OBVIOUS
  <2> HIDE DEF T
  <2>2. QED
    BY <1>1, <2>1, WFMin
<1>4. x \in Nat /\ x \notin S /\ x # 0
    BY <1>3
<1>5. x - 1 \in Nat /\ x - 1 < x /\ (x - 1) + 1 = x
    BY <1>4
<1>6. x - 1 \in S
    BY <1>2, <1>3, <1>4, <1>5
<1>7. QED
    BY <1>4, <1>5, <1>6

(* f starts at base and takes n steps of step. *)
Recurses(f, base, n, step) == f[0] = base /\ \A i \in 1..n : f[i] = step[<<f[i - 1], i>>]

(* A function on 0..n given by its first value and its steps exists. *)
LEMMA Recursion ==
    ASSUME NEW S, NEW base \in S, NEW n \in Nat, NEW step \in [S \X (1..n) -> S]
    PROVE  \E f \in [0..n -> S] : Recurses(f, base, n, step)
<1> DEFINE Good(g, m) == g[0] = base /\ \A i \in 1..m : g[i] = step[<<g[i - 1], i>>]
           T == {m \in Nat : m <= n => \E g \in [0..m -> S] : Good(g, m)}
<1>1. 0 \in T
  <2> DEFINE g == [i \in 0..0 |-> base]
  <2>1. g \in [0..0 -> S] /\ Good(g, 0)
    OBVIOUS
  <2>2. QED
    BY <2>1
<1>2. ASSUME NEW m \in T PROVE m + 1 \in T
  <2> SUFFICES ASSUME m + 1 <= n PROVE \E g \in [0..(m + 1) -> S] : Good(g, m + 1)
    OBVIOUS
  <2>1. PICK g \in [0..m -> S] : Good(g, m)
    OBVIOUS
  <2>2. step[<<g[m], m + 1>>] \in S
    BY <2>1
  <2> DEFINE h == [i \in 0..(m + 1) |-> IF i = m + 1 THEN step[<<g[m], m + 1>>] ELSE g[i]]
  <2>3. h \in [0..(m + 1) -> S] /\ h[m + 1] = step[<<g[m], m + 1>>] /\ \A i \in 0..m : h[i] = g[i]
    BY <2>1, <2>2
  <2> HIDE DEF h
  <2>4. Good(h, m + 1)
    <3>1. h[0] = base
        BY <2>1, <2>3
    <3>2. ASSUME NEW i \in 1..(m + 1) PROVE h[i] = step[<<h[i - 1], i>>]
      <4>1. i - 1 \in 0..m /\ h[i - 1] = g[i - 1]
          BY <2>3
      <4>2. CASE i = m + 1
          BY <2>3, <4>1, <4>2
      <4>3. CASE i \in 1..m
          BY <2>1, <2>3, <4>1, <4>3
      <4>4. QED
          BY <4>2, <4>3
    <3>3. QED
        BY <3>1, <3>2
  <2>5. QED
    BY <2>3, <2>4
<1>3. T = Nat
  <2>1. T \in SUBSET Nat
    OBVIOUS
  <2> HIDE DEF T
  <2>2. QED
    BY <1>1, <1>2, <2>1, Induction
<1>4. n \in T
    BY <1>3
<1>5. QED
    BY <1>4 DEF Recurses

(* Least and greatest elements.                                            *)
LEMMA LeastElement ==
    ASSUME NEW I \in SUBSET Nat, I # {}
    PROVE  Min(I) \in I /\ \A y \in I : Min(I) <= y
<1> DEFINE R == OpToRel(<, Nat)
<1>1. IsWellFoundedOn(R, Nat)
    BY NatLessThanWellFounded
<1>2. \A x, y \in Nat : <<y, x>> \in R <=> y < x
    BY DEF OpToRel
<1> HIDE DEF R
<1>3. PICK x \in I : \A y \in I : ~(<<y, x>> \in R)
    BY <1>1, WFMin
<1>4. ASSUME NEW y \in I PROVE x <= y
  <2>1. x \in Nat /\ y \in Nat
    OBVIOUS
  <2>2. ~(y < x)
    BY <1>2, <1>3, <2>1
  <2>3. QED
    BY <2>1, <2>2
<1>5. QED
    BY <1>4 DEF Min

LEMMA GreatestElement ==
    ASSUME NEW n \in Nat, NEW I \in SUBSET (0..n), I # {}
    PROVE  Max(I) \in I /\ \A y \in I : Max(I) >= y
<1> DEFINE D == {n - x : x \in I}
<1>1. D \in SUBSET Nat /\ D # {}
  <2>1. \A x \in I : n - x \in Nat
    OBVIOUS
  <2>2. QED
    BY <2>1
<1>2. Min(D) \in D /\ \A y \in D : Min(D) <= y
    BY <1>1, LeastElement
<1>3. PICK x \in I : Min(D) = n - x
    BY <1>2
<1>4. \A y \in I : x >= y
  <2>1. ASSUME NEW y \in I PROVE x >= y
    <3>1. n - x <= n - y
        BY <1>2, <1>3
    <3>2. QED
        BY <3>1
  <2>2. QED
    BY <2>1
<1>5. QED
    BY <1>4 DEF Max
-----------------------------------------------------------------------------
(* Sums.                                                                   *)
LEMMA SumRecursion ==
    ASSUME NEW s \in Seq(Int)
    PROVE  \E f \in [0..Len(s) -> Int] :
              /\ f[0] = 0 /\ Sum(s) = f[Len(s)]
              /\ \A i \in 1..Len(s) : f[i] = f[i - 1] + s[i]
<1> DEFINE n == Len(s)
           Z == Int
           zero == 0
           upTo == CHOOSE g : g = [i \in 0..n |-> IF i = 0 THEN 0 ELSE g[i - 1] + s[i]]
           step == [p \in Z \X (1..n) |-> p[1] + s[p[2]]]
<1>1. n \in Nat /\ \A i \in 1..n : s[i] \in Int
    BY LenProperties, ElementOfSeq
<1>2. step \in [Z \X (1..n) -> Z] /\ \A x \in Z, i \in 1..n : step[<<x, i>>] = x + s[i]
    BY <1>1, SMTT(30)
<1>3. Sum(s) = upTo[n]
    BY DEF Sum
<1>4. zero \in Z
    OBVIOUS
<1>5. PICK f \in [0..n -> Z] : f[0] = zero /\ \A i \in 1..n : f[i] = step[<<f[i - 1], i>>]
  <2> HIDE DEF n, step, Z, zero, upTo
  <2>1. PICK g \in [0..n -> Z] : Recurses(g, zero, n, step)
    BY <1>1, <1>2, <1>4, Recursion
  <2>2. QED
    BY <2>1 DEF Recurses
<1> HIDE DEF n, step, upTo
<1>6. ASSUME NEW i \in 1..n PROVE i - 1 \in 0..n /\ f[i - 1] \in Int /\ f[i] = f[i - 1] + s[i]
  <2>1. i - 1 \in 0..n
    BY <1>1
  <2>2. f[i - 1] \in Z
    BY <1>5, <2>1
  <2>3. QED
    BY <1>2, <1>5, <2>1, <2>2
<1>7. f = [i \in 0..n |-> IF i = 0 THEN 0 ELSE f[i - 1] + s[i]]
  <2>1. ASSUME NEW i \in 0..n PROVE f[i] = IF i = 0 THEN 0 ELSE f[i - 1] + s[i]
    <3>1. CASE i = 0
        BY <1>5, <3>1
    <3>2. CASE i # 0
      <4>1. i \in 1..n
          BY <1>1, <3>2
      <4>2. QED
          BY <1>6, <3>2, <4>1
    <3>3. QED
        BY <3>1, <3>2
  <2>2. QED
    BY <1>5, <2>1
<1>8. upTo = [i \in 0..n |-> IF i = 0 THEN 0 ELSE upTo[i - 1] + s[i]]
    BY <1>7 DEF upTo
<1>9. \A i \in 0..n : upTo[i] = f[i]
  <2> DEFINE T == {i \in Nat : i <= n => upTo[i] = f[i]}
  <2>1. 0 \in T
    BY <1>1, <1>5, <1>8
  <2>2. ASSUME NEW i \in T PROVE i + 1 \in T
    <3> SUFFICES ASSUME i + 1 <= n PROVE upTo[i + 1] = f[i + 1]
        OBVIOUS
    <3>1. i + 1 \in 0..n /\ i + 1 \in 1..n /\ i + 1 # 0 /\ (i + 1) - 1 = i /\ upTo[i] = f[i]
        BY <1>1
    <3>2. upTo[i + 1] = upTo[i] + s[i + 1]
        BY <1>8, <3>1
    <3>3. f[i + 1] = f[i] + s[i + 1]
        BY <1>6, <3>1
    <3>4. QED
        BY <3>1, <3>2, <3>3
  <2>3. T = Nat
    <3>1. T \in SUBSET Nat
        OBVIOUS
    <3> HIDE DEF T
    <3>2. QED
        BY <2>1, <2>2, <3>1, Induction
  <2>4. \A i \in Nat : i <= n => upTo[i] = f[i]
    BY <2>3
  <2>5. QED
    BY <1>1, <2>4
<1>10. Sum(s) = f[n]
    BY <1>1, <1>3, <1>9
<1>11. \A i \in 1..n : f[i] = f[i - 1] + s[i]
    BY <1>6
<1>12. QED
    BY <1>5, <1>10, <1>11 DEF n

(* The sum of no numbers, and of one number more.                          *)
LEMMA SumEmpty == Sum(<<>>) = 0
<1>1. <<>> \in Seq(Int) /\ Len(<<>>) = 0
    BY EmptySeq
<1>2. QED
    BY <1>1, SumRecursion

LEMMA SumOneMore ==
    ASSUME NEW s \in Seq(Int), NEW t \in Seq(Int), Len(t) = Len(s) + 1,
           \A i \in 1..Len(s) : t[i] = s[i]
    PROVE  Sum(t) = Sum(s) + t[Len(t)]
<1> DEFINE n == Len(s)
<1>1. n \in Nat /\ Len(t) = n + 1 /\ \A i \in 1..n : t[i] = s[i]
    BY LenProperties
<1>2. PICK f \in [0..n -> Int] :
          f[0] = 0 /\ Sum(s) = f[n] /\ \A i \in 1..n : f[i] = f[i - 1] + s[i]
    BY SumRecursion
<1>3. PICK g \in [0..(n + 1) -> Int] :
          g[0] = 0 /\ Sum(t) = g[n + 1] /\ \A i \in 1..(n + 1) : g[i] = g[i - 1] + t[i]
  <2>1. \E g \in [0..Len(t) -> Int] :
            g[0] = 0 /\ Sum(t) = g[Len(t)] /\ \A i \in 1..Len(t) : g[i] = g[i - 1] + t[i]
    BY SumRecursion
  <2>2. QED
    BY <1>1, <2>1
<1> HIDE DEF n
<1> DEFINE T == {i \in Nat : i <= n => g[i] = f[i]}
<1>4. 0 \in T
    BY <1>2, <1>3
<1>5. ASSUME NEW i \in T PROVE i + 1 \in T
  <2> SUFFICES ASSUME i + 1 <= n PROVE g[i + 1] = f[i + 1]
    OBVIOUS
  <2>1. /\ i + 1 \in 1..n /\ i + 1 \in 1..(n + 1) /\ (i + 1) - 1 = i
        /\ g[i] = f[i] /\ t[i + 1] = s[i + 1]
    BY <1>1
  <2>2. g[i + 1] = g[i] + t[i + 1] /\ f[i + 1] = f[i] + s[i + 1]
    BY <1>2, <1>3, <2>1
  <2>3. QED
    BY <2>1, <2>2
<1>6. T = Nat
  <2>1. T \in SUBSET Nat
    OBVIOUS
  <2> HIDE DEF T
  <2>2. QED
    BY <1>4, <1>5, <2>1, Induction
<1>7. n \in T
    BY <1>1, <1>6
<1>8. g[n] = f[n] /\ n + 1 \in 1..(n + 1) /\ (n + 1) - 1 = n
    BY <1>1, <1>7
<1>9. g[n + 1] = g[n] + t[n + 1]
    BY <1>3, <1>8
<1>10. QED
    BY <1>1, <1>2, <1>3, <1>8, <1>9

(* The sum of zeros, and of two lists that differ at one place.            *)
LEMMA SumZeros ==
    ASSUME NEW s \in Seq(Int), \A i \in 1..Len(s) : s[i] = 0
    PROVE  Sum(s) = 0
<1>1. PICK f \in [0..Len(s) -> Int] :
          f[0] = 0 /\ Sum(s) = f[Len(s)] /\ \A i \in 1..Len(s) : f[i] = f[i - 1] + s[i]
    BY SumRecursion
<1> DEFINE T == {i \in Nat : i <= Len(s) => f[i] = 0}
<1>2. Len(s) \in Nat
    BY LenProperties
<1>3. 0 \in T
    BY <1>1
<1>4. ASSUME NEW i \in T PROVE i + 1 \in T
  <2> SUFFICES ASSUME i + 1 <= Len(s) PROVE f[i + 1] = 0
    OBVIOUS
  <2>1. i + 1 \in 1..Len(s) /\ (i + 1) - 1 = i /\ f[i] = 0
    BY <1>2
  <2>2. QED
    BY <1>1, <2>1
<1>5. T = Nat
  <2>1. T \in SUBSET Nat
    OBVIOUS
  <2> HIDE DEF T
  <2>2. QED
    BY <1>3, <1>4, <2>1, Induction
<1>6. QED
    BY <1>1, <1>2, <1>5

LEMMA SumOneChanged ==
    ASSUME NEW s \in Seq(Int), NEW t \in Seq(Int), Len(t) = Len(s), NEW k \in 1..Len(s),
           \A i \in 1..Len(s) : i # k => t[i] = s[i]
    PROVE  Sum(t) = Sum(s) + t[k] - s[k]
<1> DEFINE n == Len(s)
           d == t[k] - s[k]
<1>1. n \in Nat /\ k \in 1..n /\ \A i \in 1..n : s[i] \in Int /\ t[i] \in Int
    BY LenProperties, ElementOfSeq
<1>2. PICK f \in [0..n -> Int] :
          f[0] = 0 /\ Sum(s) = f[n] /\ \A i \in 1..n : f[i] = f[i - 1] + s[i]
    BY SumRecursion
<1>3. PICK g \in [0..n -> Int] :
          g[0] = 0 /\ Sum(t) = g[n] /\ \A i \in 1..n : g[i] = g[i - 1] + t[i]
  <2>1. \E g \in [0..Len(t) -> Int] :
            g[0] = 0 /\ Sum(t) = g[Len(t)] /\ \A i \in 1..Len(t) : g[i] = g[i - 1] + t[i]
    BY SumRecursion
  <2>2. QED
    BY <2>1
<1>4. \A i \in 1..n : i # k => t[i] = s[i]
    OBVIOUS
<1>5. d \in Int /\ t[k] = s[k] + d
    BY <1>1
<1> HIDE DEF n, d
<1> DEFINE T == {i \in Nat : i <= n => g[i] = f[i] + (IF i < k THEN 0 ELSE d)}
<1>6. 0 \in T
    BY <1>1, <1>2, <1>3
<1>7. ASSUME NEW i \in T PROVE i + 1 \in T
  <2> SUFFICES ASSUME i + 1 <= n PROVE g[i + 1] = f[i + 1] + (IF i + 1 < k THEN 0 ELSE d)
    OBVIOUS
  <2>1. /\ i \in Nat /\ i \in 0..n /\ i + 1 \in 1..n /\ (i + 1) - 1 = i
        /\ g[i] = f[i] + (IF i < k THEN 0 ELSE d)
    BY <1>1
  <2>2. f[i] \in Int /\ s[i + 1] \in Int /\ t[i + 1] \in Int
    BY <1>1, <1>2, <2>1
  <2>3. g[i + 1] = g[i] + t[i + 1] /\ f[i + 1] = f[i] + s[i + 1]
    BY <1>2, <1>3, <2>1
  <2>4. CASE i + 1 = k
    <3>1. i < k /\ ~(i + 1 < k)
        BY <2>1, <2>4
    <3>2. t[i + 1] = s[i + 1] + d
        BY <1>5, <2>4
    <3>3. g[i] = f[i]
        BY <2>1, <2>2, <3>1
    <3>4. g[i + 1] = f[i + 1] + d
      <4>1. \A a, b \in Int : a + (b + d) = (a + b) + d
          BY <1>5
      <4>2. g[i + 1] = f[i] + (s[i + 1] + d)
          BY <2>3, <3>2, <3>3
      <4>3. QED
          BY <2>2, <2>3, <4>1, <4>2
    <3>5. QED
        BY <3>1, <3>4
  <2>5. CASE i + 1 # k
    <3>1. t[i + 1] = s[i + 1]
        BY <1>4, <2>1, <2>5
    <3>2. k \in Nat /\ (i < k <=> i + 1 < k)
        BY <1>1, <2>1, <2>5
    <3> DEFINE e == IF i < k THEN 0 ELSE d
    <3>3. e \in Int /\ e = (IF i + 1 < k THEN 0 ELSE d) /\ g[i] = f[i] + e
        BY <1>5, <2>1, <3>2
    <3> HIDE DEF e
    <3>4. g[i + 1] = f[i + 1] + e
      <4>1. \A a, b \in Int : (a + e) + b = (a + b) + e
          BY <3>3
      <4>2. g[i + 1] = (f[i] + e) + s[i + 1]
          BY <2>3, <3>1, <3>3
      <4>3. QED
          BY <2>2, <2>3, <4>1, <4>2
    <3>5. QED
        BY <3>3, <3>4
  <2>6. QED
    BY <2>4, <2>5
<1>8. T = Nat
  <2>1. T \in SUBSET Nat
    OBVIOUS
  <2> HIDE DEF T
  <2>2. QED
    BY <1>6, <1>7, <2>1, Induction
<1>9. n \in T
    BY <1>1, <1>8
<1>10. g[n] = f[n] + d /\ f[n] \in Int
    BY <1>1, <1>2, <1>9
<1>11. s[k] \in Int /\ t[k] \in Int
    BY <1>1
<1>12. QED
    BY <1>2, <1>3, <1>10, <1>11 DEF d
=============================================================================
