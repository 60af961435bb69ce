---------------------- MODULE SemanticCheckpointsProofs ----------------------
(***************************************************************************)
(* What a slot with semantic checkpoints guarantees for every window,      *)
(* batch size, budget and client.  The model's data are sums and filters   *)
(* over sequences, defined by recursive functions; the first part proves,  *)
(* by induction stated over sets of naturals, what they return.            *)
(***************************************************************************)
EXTENDS SemanticCheckpoints, SequenceTheorems, Induction

-----------------------------------------------------------------------------
(* Subsequences.                                                           *)

(* The elements of s stand in t, in order and at least as large, at the    *)
(* places that e gives.                                                    *)
Embeds(e, s, t) ==
    /\ e \in [1..Len(s) -> 1..Len(t)]
    /\ \A i, j \in 1..Len(s) : i < j => e[i] < e[j]

(* A sum of naturals is at least that of any of its subsequences.          *)
LEMMA SumEmbedded ==
    ASSUME NEW s \in Seq(Nat), NEW t \in Seq(Nat), NEW e, Embeds(e, s, t),
           \A i \in 1..Len(s) : s[i] <= t[e[i]]
    PROVE  Sum(s) \in Nat /\ Sum(t) \in Nat /\ Sum(s) <= Sum(t)
<1> DEFINE n == Len(s)
           m == Len(t)
<1>1. /\ n \in Nat /\ m \in Nat
      /\ \A i \in 1..n : s[i] \in Nat
      /\ \A i \in 1..m : t[i] \in Nat
      /\ e \in [1..n -> 1..m]
      /\ \A i, j \in 1..n : i < j => e[i] < e[j]
      /\ \A i \in 1..n : s[i] <= t[e[i]]
    BY LenProperties, ElementOfSeq DEF Embeds
<1>2. s \in Seq(Int) /\ t \in Seq(Int)
    BY SeqMonotonic
<1>3. PICK f \in [0..n -> Int] :
          f[0] = 0 /\ Sum(s) = f[n] /\ \A i \in 1..n : f[i] = f[i - 1] + s[i]
    BY <1>2, SumRecursion
<1>4. PICK g \in [0..m -> Int] :
          g[0] = 0 /\ Sum(t) = g[m] /\ \A i \in 1..m : g[i] = g[i - 1] + t[i]
    BY <1>2, SumRecursion
<1> HIDE DEF n, m
<1>5. \A j \in 0..m : g[j] \in Nat /\ \A k \in 0..j : g[k] <= g[j]
  <2> DEFINE T == {j \in Nat : j <= m => g[j] \in Nat /\ \A k \in 0..j : g[k] <= g[j]}
  <2>1. 0 \in T
    BY <1>1, <1>4
  <2>2. ASSUME NEW j \in T PROVE j + 1 \in T
    <3> SUFFICES ASSUME j + 1 <= m
                 PROVE g[j + 1] \in Nat /\ \A k \in 0..(j + 1) : g[k] <= g[j + 1]
        OBVIOUS
    <3>1. j + 1 \in 1..m /\ (j + 1) - 1 = j /\ g[j] \in Nat /\ \A k \in 0..j : g[k] <= g[j]
        BY <1>1
    <3>2. g[j + 1] = g[j] + t[j + 1] /\ t[j + 1] \in Nat
        BY <1>1, <1>4, <3>1
    <3>3. g[j + 1] \in Nat /\ g[j] <= g[j + 1]
        BY <3>1, <3>2
    <3>4. ASSUME NEW k \in 0..(j + 1) PROVE g[k] <= g[j + 1]
      <4>1. CASE k = j + 1
          BY <3>3, <4>1
      <4>2. CASE k \in 0..j
        <5>1. k \in 0..m /\ g[k] \in Int /\ g[k] <= g[j]
            BY <1>1, <1>4, <3>1, <4>2
        <5>2. QED
            BY <3>1, <3>3, <5>1
      <4>3. QED
          BY <4>1, <4>2
    <3>5. QED
        BY <3>3, <3>4
  <2>3. T = Nat
    <3>1. T \in SUBSET Nat
        OBVIOUS
    <3> HIDE DEF T
    <3>2. QED
        BY <2>1, <2>2, <3>1, Induction
  <2>4. \A j \in Nat : j <= m => g[j] \in Nat /\ \A k \in 0..j : g[k] <= g[j]
    BY <2>3
  <2>5. QED
    BY <1>1, <2>4
<1>6. \A i \in 0..n : f[i] \in Nat /\ f[i] <= IF i = 0 THEN 0 ELSE g[e[i]]
  <2> DEFINE T == {i \in Nat : i <= n => f[i] \in Nat /\ f[i] <= IF i = 0 THEN 0 ELSE g[e[i]]}
  <2>1. 0 \in T
    BY <1>3
  <2>2. ASSUME NEW i \in T PROVE i + 1 \in T
    <3> SUFFICES ASSUME i + 1 <= n PROVE f[i + 1] \in Nat /\ f[i + 1] <= g[e[i + 1]]
        OBVIOUS
    <3>1. /\ i + 1 \in 1..n /\ (i + 1) - 1 = i
          /\ f[i] \in Nat /\ f[i] <= IF i = 0 THEN 0 ELSE g[e[i]]
        BY <1>1
    <3>2. f[i + 1] = f[i] + s[i + 1] /\ s[i + 1] \in Nat
        BY <1>1, <1>3, <3>1
    <3> DEFINE p == e[i + 1]
    <3>8. p \in 1..m /\ s[i + 1] <= t[p]
        BY <1>1, <3>1
    <3> HIDE DEF p
    <3>3. p \in 1..m /\ s[i + 1] <= t[p] /\ t[p] \in Nat /\ p - 1 \in 0..m /\ p \in 0..m
        BY <1>1, <3>8
    <3>4. g[p] = g[p - 1] + t[p]
        BY <1>4, <3>3
    <3>5. f[i] <= g[p - 1] /\ g[p - 1] \in Nat
      <4>1. g[p - 1] \in Nat
          BY <1>5, <3>3
      <4>2. CASE i = 0
          BY <3>1, <4>1, <4>2
      <4>3. CASE i # 0
        <5>1. i \in 1..n /\ e[i] < p /\ e[i] \in 1..m
            BY <1>1, <3>1, <4>3 DEF p
        <5>2. e[i] \in 0..(p - 1) /\ e[i] \in 0..m
            BY <3>3, <5>1, SMTT(40)
        <5>3. g[e[i]] <= g[p - 1] /\ g[e[i]] \in Nat
            BY <1>5, <3>3, <5>2
        <5>4. QED
            BY <3>1, <4>1, <4>3, <5>3
      <4>4. QED
          BY <4>2, <4>3
    <3>9. f[i] \in Nat /\ f[i] <= g[p - 1]
        BY <3>1, <3>5
    <3>10. g[p] \in Int /\ f[i + 1] \in Int
        BY <1>1, <1>3, <1>4, <3>1, <3>3
    <3>6. f[i + 1] \in Nat /\ f[i + 1] <= g[p]
      <4> DEFINE a == f[i]
                 b == s[i + 1]
                 c == g[p - 1]
                 d == t[p]
      <4>1. a \in Nat /\ b \in Nat /\ c \in Nat /\ d \in Nat /\ a <= c /\ b <= d
          BY <3>2, <3>3, <3>5, <3>9
      <4>2. f[i + 1] = a + b /\ g[p] = c + d
          BY <3>2, <3>4
      <4> HIDE DEF a, b, c, d, p, T
      <4>3. QED
          BY <4>1, <4>2
    <3>7. QED
        BY <3>6 DEF p
  <2>3. T = Nat
    <3>1. T \in SUBSET Nat
        OBVIOUS
    <3> HIDE DEF T
    <3>2. QED
        BY <2>1, <2>2, <3>1, Induction
  <2>4. \A i \in Nat : i <= n => f[i] \in Nat /\ f[i] <= IF i = 0 THEN 0 ELSE g[e[i]]
    BY <2>3
  <2>5. QED
    BY <1>1, <2>4
<1>7. f[n] \in Nat /\ g[m] \in Nat
    BY <1>1, <1>5, <1>6
<1>8. f[n] <= g[m]
  <2>1. CASE n = 0
    BY <1>3, <1>7, <2>1
  <2>2. CASE n # 0
    <3>1. n \in 1..n /\ e[n] \in 0..m
        BY <1>1, <2>2
    <3>2. f[n] <= g[e[n]] /\ g[e[n]] \in Nat /\ g[e[n]] <= g[m]
        BY <1>1, <1>5, <1>6, <2>2, <3>1
    <3>3. QED
        BY <1>7, <3>2
  <2>3. QED
    BY <2>1, <2>2
<1>9. QED
    BY <1>3, <1>4, <1>7, <1>8

-----------------------------------------------------------------------------
(* What an erase loop leaves.                                              *)
KeepsUpTo(f, c, which) ==
    /\ f[0] = <<>> /\ Kept(c, which) = f[Len(c)]
    /\ \A i \in 1..Len(c) : f[i] = IF i \in which THEN Append(f[i - 1], c[i]) ELSE f[i - 1]

LEMMA KeptRecursion ==
    ASSUME NEW S, NEW c \in Seq(S), NEW which
    PROVE  \E f \in [0..Len(c) -> Seq(S)] : KeepsUpTo(f, c, which)
<1> DEFINE n == Len(c)
           Z == Seq(S)
           none == <<>>
           upTo == CHOOSE g : g = [i \in 0..n |-> IF i = 0 THEN <<>>
                                       ELSE IF i \in which THEN Append(g[i - 1], c[i])
                                       ELSE g[i - 1]]
           step == [p \in Z \X (1..n) |-> IF p[2] \in which THEN Append(p[1], c[p[2]]) ELSE p[1]]
<1>1. n \in Nat /\ \A i \in 1..n : c[i] \in S
    BY LenProperties, ElementOfSeq
<1>2. /\ step \in [Z \X (1..n) -> Z]
      /\ \A x \in Z, i \in 1..n : step[<<x, i>>] = IF i \in which THEN Append(x, c[i]) ELSE x
    BY <1>1, AppendProperties
<1>3. Kept(c, which) = upTo[n]
    BY DEF Kept
<1>4. none \in Z
    BY EmptySeq
<1>5. PICK f \in [0..n -> Z] : f[0] = none /\ \A i \in 1..n : f[i] = step[<<f[i - 1], i>>]
  <2> HIDE DEF n, step, Z, none, upTo
  <2>1. PICK g \in [0..n -> Z] : Recurses(g, none, n, step)
    BY <1>1, <1>2, <1>4, Recursion
  <2>2. QED
    BY <2>1 DEF Recurses
<1> HIDE DEF n, step, upTo
<1>6. ASSUME NEW i \in 1..n
      PROVE  /\ i - 1 \in 0..n /\ f[i - 1] \in Z
             /\ f[i] = IF i \in which THEN Append(f[i - 1], c[i]) ELSE f[i - 1]
  <2>1. i - 1 \in 0..n
    BY <1>1
  <2>2. f[i - 1] \in Z
    BY <1>5, <2>1
  <2> HIDE DEF Z
  <2>3. step[<<f[i - 1], i>>] = IF i \in which THEN Append(f[i - 1], c[i]) ELSE f[i - 1]
    BY <1>2, <2>2
  <2>4. QED
    BY <1>5, <2>1, <2>2, <2>3
<1>7. f = [i \in 0..n |-> IF i = 0 THEN <<>>
                          ELSE IF i \in which THEN Append(f[i - 1], c[i]) ELSE f[i - 1]]
  <2>1. ASSUME NEW i \in 0..n
        PROVE f[i] = IF i = 0 THEN <<>>
                     ELSE IF i \in which THEN Append(f[i - 1], c[i]) ELSE f[i - 1]
    <3>1. CASE i = 0
        BY <1>5, <3>1
    <3>2. CASE i # 0
      <4>1. i \in 1..n
          BY <1>1, <3>2
      <4>2. QED
          BY <1>6, <3>2, <4>1
    <3>3. QED
        BY <3>1, <3>2
  <2> HIDE DEF Z
  <2>2. QED
    BY <1>5, <2>1
<1>8. upTo = [i \in 0..n |-> IF i = 0 THEN <<>>
                             ELSE IF i \in which THEN Append(upTo[i - 1], c[i]) ELSE upTo[i - 1]]
    BY <1>7 DEF upTo
<1>9. \A i \in 0..n : upTo[i] = f[i]
  <2> HIDE DEF Z
  <2> DEFINE T == {i \in Nat : i <= n => upTo[i] = f[i]}
  <2>1. 0 \in T
    BY <1>1, <1>5, <1>8
  <2>2. ASSUME NEW i \in T PROVE i + 1 \in T
    <3> SUFFICES ASSUME i + 1 <= n PROVE upTo[i + 1] = f[i + 1]
        OBVIOUS
    <3>1. i + 1 \in 0..n /\ i + 1 \in 1..n /\ i + 1 # 0 /\ (i + 1) - 1 = i /\ upTo[i] = f[i]
        BY <1>1
    <3>2. upTo[i + 1] = IF i + 1 \in which THEN Append(upTo[i], c[i + 1]) ELSE upTo[i]
        BY <1>8, <3>1
    <3>3. f[i + 1] = IF i + 1 \in which THEN Append(f[i], c[i + 1]) ELSE f[i]
        BY <1>6, <3>1
    <3>4. QED
        BY <3>1, <3>2, <3>3
  <2>3. T = Nat
    <3>1. T \in SUBSET Nat
        OBVIOUS
    <3> HIDE DEF T
    <3>2. QED
        BY <2>1, <2>2, <3>1, Induction
  <2>4. \A i \in Nat : i <= n => upTo[i] = f[i]
    BY <2>3
  <2>5. QED
    BY <1>1, <2>4
<1>10. Kept(c, which) = f[n]
    BY <1>1, <1>3, <1>9
<1>11. \A i \in 1..n : f[i] = IF i \in which THEN Append(f[i - 1], c[i]) ELSE f[i - 1]
    BY <1>6
<1>12. QED
    BY <1>5, <1>10, <1>11 DEF n, KeepsUpTo

(* An erase loop leaves some of the elements, in their order.              *)
LEMMA KeptEmbedded ==
    ASSUME NEW S, NEW c \in Seq(S), NEW which
    PROVE  /\ Kept(c, which) \in Seq(S)
           /\ \E e : /\ Embeds(e, Kept(c, which), c)
                     /\ \A i \in 1..Len(Kept(c, which)) :
                            e[i] \in which /\ Kept(c, which)[i] = c[e[i]]
<1> DEFINE n == Len(c)
<1>1. PICK f \in [0..n -> Seq(S)] :
          /\ f[0] = <<>> /\ Kept(c, which) = f[n]
          /\ \A i \in 1..n : f[i] = IF i \in which THEN Append(f[i - 1], c[i]) ELSE f[i - 1]
  <2>1. PICK g \in [0..Len(c) -> Seq(S)] : KeepsUpTo(g, c, which)
    BY KeptRecursion
  <2>2. QED
    BY <2>1 DEF KeepsUpTo
<1>2. n \in Nat /\ \A i \in 1..n : c[i] \in S
    BY LenProperties, ElementOfSeq
<1> DEFINE Places(e, k) ==
              /\ e \in [1..Len(f[k]) -> 1..k]
              /\ \A i, j \in 1..Len(f[k]) : i < j => e[i] < e[j]
              /\ \A i \in 1..Len(f[k]) : e[i] \in which /\ f[k][i] = c[e[i]]
           T == {k \in Nat : k <= n => \E e : Places(e, k)}
<1> HIDE DEF n
<1>3. 0 \in T
  <2>1. Len(f[0]) = 0
    BY <1>1, EmptySeq
  <2>2. Places([i \in 1..0 |-> 0], 0)
    BY <2>1
  <2>3. QED
    BY <2>2
<1>4. ASSUME NEW k \in T PROVE k + 1 \in T
  <2> SUFFICES ASSUME k + 1 <= n PROVE \E e : Places(e, k + 1)
    OBVIOUS
  <2>1. PICK e : Places(e, k)
    <3> HIDE DEF Places
    <3>1. k \in Nat /\ (k <= n => \E e : Places(e, k))
        OBVIOUS
    <3>2. QED
        BY <1>2, <3>1
  <2> HIDE DEF T
  <2>2. k \in Nat /\ k + 1 \in 1..n /\ (k + 1) - 1 = k /\ k \in 0..n
    BY <1>2 DEF T
  <2>3. f[k + 1] = IF k + 1 \in which THEN Append(f[k], c[k + 1]) ELSE f[k]
    BY <1>1, <2>2
  <2>4. f[k] \in Seq(S) /\ Len(f[k]) \in Nat /\ c[k + 1] \in S
    BY <1>1, <1>2, <2>2, LenProperties
  <2>5. CASE k + 1 \notin which
    <3>1. f[k + 1] = f[k]
        BY <2>3, <2>5
    <3>2. Places(e, k + 1)
        BY <2>1, <2>2, <3>1
    <3>3. QED
        BY <3>2
  <2>6. CASE k + 1 \in which
    <3> DEFINE l == Len(f[k])
               d == [i \in 1..(l + 1) |-> IF i = l + 1 THEN k + 1 ELSE e[i]]
    <3>1. /\ f[k + 1] = Append(f[k], c[k + 1])
          /\ Len(f[k + 1]) = l + 1
          /\ \A i \in 1..l : f[k + 1][i] = f[k][i]
          /\ f[k + 1][l + 1] = c[k + 1]
        BY <2>3, <2>4, <2>6, AppendProperties
    <3>2. l \in Nat
        BY <2>4
    <3>3. /\ e \in [1..l -> 1..k]
          /\ \A i, j \in 1..l : i < j => e[i] < e[j]
          /\ \A i \in 1..l : e[i] \in which /\ f[k][i] = c[e[i]]
        BY <2>1
    <3> HIDE DEF l, Places
    <3>4. d[l + 1] = k + 1 /\ \A i \in 1..l : d[i] = e[i] /\ e[i] \in 1..k
        BY <3>2, <3>3
    <3>5. d \in [1..(l + 1) -> 1..(k + 1)]
        BY <2>2, <3>2, <3>3
    <3> HIDE DEF d
    <3>6. ASSUME NEW i \in 1..(l + 1), NEW j \in 1..(l + 1), i < j PROVE d[i] < d[j]
      <4>1. i \in 1..l
          BY <3>2, <3>6
      <4>2. CASE j = l + 1
          BY <2>2, <3>4, <4>1, <4>2
      <4>3. CASE j \in 1..l
          BY <3>3, <3>4, <3>6, <4>1, <4>3
      <4>4. QED
          BY <3>2, <4>2, <4>3
    <3>7. ASSUME NEW i \in 1..(l + 1) PROVE d[i] \in which /\ f[k + 1][i] = c[d[i]]
      <4>1. CASE i = l + 1
          BY <2>6, <3>1, <3>4, <4>1
      <4>2. CASE i \in 1..l
          BY <3>1, <3>3, <3>4, <4>2
      <4>3. QED
          BY <3>2, <4>1, <4>2
    <3>8. Places(d, k + 1)
        BY <3>1, <3>5, <3>6, <3>7 DEF Places
    <3>9. QED
        BY <3>8
  <2>7. QED
    BY <2>5, <2>6
<1>5. T = Nat
  <2>1. T \in SUBSET Nat
    OBVIOUS
  <2> HIDE DEF T
  <2>2. QED
    BY <1>3, <1>4, <2>1, Induction
<1>6. \A k \in Nat : k <= n => \E e : Places(e, k)
  <2> HIDE DEF Places
  <2>1. QED
    BY <1>5
<1>7. PICK e : Places(e, n)
  <2> HIDE DEF Places
  <2>1. QED
    BY <1>2, <1>6
<1>8. n \in 0..n
    BY <1>2
<1>9. Kept(c, which) \in Seq(S)
    BY <1>1, <1>8
<1>10. Embeds(e, Kept(c, which), c)
    BY <1>1, <1>7 DEF Embeds, n
<1>11. QED
    BY <1>1, <1>7, <1>9, <1>10

-----------------------------------------------------------------------------
(* What two sequences have in common.                                      *)
LEMMA CommonPrefix ==
    ASSUME NEW S, NEW s \in Seq(S), NEW t \in Seq(S)
    PROVE  /\ Common(s, t) \in Nat /\ Common(s, t) <= Len(s) /\ Common(s, t) <= Len(t)
           /\ \A i \in 1..Common(s, t) : s[i] = t[i]
<1> DEFINE k == Smaller(Len(s), Len(t))
           I == {n \in 0..k : SubSeq(s, 1, n) = SubSeq(t, 1, n)}
<1>1. Len(s) \in Nat /\ Len(t) \in Nat
    BY LenProperties
<1>2. k \in Nat /\ k <= Len(s) /\ k <= Len(t)
    BY <1>1 DEF Smaller
<1>3. 0 \in I
  <2>1. SubSeq(s, 1, 0) = <<>> /\ SubSeq(t, 1, 0) = <<>>
    BY SubSeqEmpty
  <2>2. QED
    BY <1>2, <2>1
<1>4. Common(s, t) = Max(I)
    BY DEF Common
<1>5. Max(I) \in I
  <2>1. I \in SUBSET (0..k)
    OBVIOUS
  <2> HIDE DEF I, k
  <2>2. QED
    BY <1>2, <1>3, <2>1, GreatestElement
<1> DEFINE n == Max(I)
<1>6. n \in 0..k /\ SubSeq(s, 1, n) = SubSeq(t, 1, n)
    BY <1>5
<1> HIDE DEF n, I, k
<1>7. n \in Nat /\ n <= Len(s) /\ n <= Len(t)
    BY <1>1, <1>2, <1>6
<1>8. ASSUME NEW i \in 1..n PROVE s[i] = t[i]
  <2>1. /\ \A j \in 1..n : s[j] \in S /\ t[j] \in S
        /\ 1 \in Int /\ n \in Int /\ n - 1 + 1 = n /\ 1 + i - 1 = i
    BY <1>1, <1>7, ElementOfSeq
  <2>2. SubSeq(s, 1, n)[i] = s[i] /\ SubSeq(t, 1, n)[i] = t[i]
    BY <1>7, <2>1, SubSeqProperties
  <2>3. QED
    BY <1>6, <2>2
<1>9. QED
    BY <1>4, <1>7, <1>8 DEF n

-----------------------------------------------------------------------------
(* The inductive invariant.                                                *)

Token == Word \cup {Header}

(* A state from which evaluation may go on: its window is complete.        *)
Memory == {m \in State : m.lo <= Bigger(0, Len(m.toks) - NSwa)}

(* A checkpoint holds such a state of exactly the tokens before it.        *)
Anchor == {c \in Checkpoint :
              c.state \in Memory /\ Len(c.state.toks) = c.n /\ c.posMax = c.n - 1}

(* Checkpoints within their limits.                                        *)
Within(c) == TotalOf(c) <= CheckpointBytes /\ Len(c) <= MaxCheckpoints

(* An entry of the prompt cache: a prompt and a state as long as it.       *)
Entry == {e \in [tokens : Seq(Token), ckpts : Seq(Anchor), state : Memory] :
              Len(e.state.toks) = Len(e.tokens) /\ Within(e.ckpts)}

(* The checkpoints that agree with t in all but their last token.          *)
Agreeing(t) == {c \in Anchor : /\ c.n - 1 <= Len(t)
                               /\ \A j \in 1..(c.n - 1) : c.state.toks[j] = t[j]}

(* The entries whose state is that of their prompt.                        *)
ExactEntry == {e \in Entry : /\ \A j \in 1..Len(e.tokens) : e.state.toks[j] = e.tokens[j]
                             /\ e.ckpts \in Seq(Agreeing(e.tokens))}

(* The slot: a task while it is not idle, a batch only while it evaluates. *)
SlotOK ==
    /\ slot \in {"idle", "started", "prompt", "done", "generating"}
    /\ slot # "idle" => task \in Tasks
    /\ batch \in 0..NBatch
    /\ batch > 0 => slot \in {"prompt", "done", "generating"}
    /\ requests \in 0..MaxRequests
    /\ staleTail \in BOOLEAN

(* The memory lags behind the prompt by the batch.                         *)
MemoryOK ==
    /\ prompt \in Seq(Token)
    /\ mem \in Memory
    /\ Len(mem.toks) + batch = Len(prompt)

CkptsOK == ckpts \in Seq(Anchor) /\ Within(ckpts)
CachedOK == cached \in Seq(Entry) /\ CacheSize(cached) <= CacheBytes

(* Until a checkpoint with a stale tail is restored, memory, checkpoints   *)
(* and prompt cache hold what the server takes them to hold.               *)
Exact ==
    ~staleTail => /\ \A j \in 1..Len(mem.toks) : mem.toks[j] = prompt[j]
                  /\ ckpts \in Seq(Agreeing(prompt))
                  /\ cached \in Seq(ExactEntry)

CkptsInv == SlotOK /\ MemoryOK /\ CkptsOK /\ CachedOK /\ Exact

-----------------------------------------------------------------------------
(* What states and checkpoints weigh.                                      *)
LEMMA Parameters ==
    /\ NSwa \in Nat /\ NSwa >= 1
    /\ NBatch \in Nat /\ NBatch >= 1
    /\ NUbatch \in Nat /\ NUbatch >= 1
    /\ MaxCheckpoints \in Nat /\ MaxCheckpoints >= 1
    /\ CheckpointBytes \in Nat /\ CacheBytes \in Nat /\ MaxRequests \in Nat
    /\ \A t \in Tasks : /\ t.tokens \in Seq(Token) /\ Len(t.tokens) >= 1
                       /\ t.cache_prompt \in BOOLEAN
<1>1. /\ NSwa \in Nat \ {0} /\ NBatch \in Nat \ {0} /\ NUbatch \in Nat \ {0}
      /\ MaxCheckpoints \in Nat \ {0}
    BY CheckpointsAssumption
<1>2. CheckpointBytes \in Nat /\ CacheBytes \in Nat /\ MaxRequests \in Nat
    BY CheckpointsAssumption
<1>3. \A t \in Tasks : /\ t.tokens \in Seq(Token) /\ Len(t.tokens) \in 1..(NCtx - 1)
                       /\ t.cache_prompt \in BOOLEAN
    BY CheckpointsAssumption DEF Token
<1>4. \A t \in Tasks : Len(t.tokens) >= 1
    BY <1>3
<1>5. QED
    BY <1>1, <1>2, <1>3, <1>4

(* Saving a state changes neither its tokens nor its size.                 *)
LEMMA SavedState ==
    ASSUME NEW m \in Memory
    PROVE  /\ Len(m.toks) \in Nat /\ m.lo \in Nat /\ m.lo <= Len(m.toks)
           /\ Saved(m) \in Memory /\ Saved(m).toks = m.toks
           /\ Bytes(m) \in Nat /\ Bytes(Saved(m)) = Bytes(m)
<1> DEFINE n == Len(m.toks)
           s == Saved(m)
<1>1. m.toks \in Seq(Token) /\ m.lo \in Nat /\ m.lo <= Bigger(0, n - NSwa) /\ m = [toks |-> m.toks, lo |-> m.lo]
    BY DEF Memory, State, Token
<1>2. n \in Nat
    BY <1>1, LenProperties
<1>3. s = [toks |-> m.toks, lo |-> Bigger(m.lo, n - NSwa)]
    BY <1>1 DEF Saved
<1>4. s.toks = m.toks /\ s.lo = Bigger(m.lo, n - NSwa)
    BY <1>3
<1> HIDE DEF n, s
<1>5. Bigger(m.lo, n - NSwa) \in Nat /\ Bigger(m.lo, n - NSwa) <= Bigger(0, n - NSwa)
      /\ Bigger(m.lo, n - NSwa) <= n /\ m.lo <= n
      /\ Bigger(Bigger(m.lo, n - NSwa), n - NSwa) = Bigger(m.lo, n - NSwa)
    BY <1>1, <1>2, Parameters DEF Bigger
<1>6. s \in State
    BY <1>1, <1>3, <1>5 DEF State, Token
<1>7. s \in Memory
    BY <1>4, <1>5, <1>6 DEF Memory, n
<1>8. Bytes(m) = n + (n - s.lo)
    BY DEF Bytes, n, s
<1>9. Saved(s).lo = Bigger(s.lo, n - NSwa)
    BY <1>3, <1>4 DEF Saved, n
<1>10. Bytes(s) = n + (n - Saved(s).lo)
    BY <1>4 DEF Bytes, n
<1>11. Bytes(s) = Bytes(m) /\ Bytes(m) \in Nat
    BY <1>2, <1>4, <1>5, <1>8, <1>9, <1>10
<1>12. QED
    BY <1>1, <1>2, <1>4, <1>5, <1>7, <1>11 DEF n, s

(* The sizes of the checkpoints, and of the entries, are naturals.         *)
LEMMA CheckpointSizes ==
    ASSUME NEW c \in Seq(Anchor)
    PROVE  /\ [i \in DOMAIN c |-> Bytes(c[i].state)] \in Seq(Nat)
           /\ Len([i \in DOMAIN c |-> Bytes(c[i].state)]) = Len(c)
           /\ Len(c) \in Nat /\ DOMAIN c = 1..Len(c)
<1> DEFINE n == Len(c)
           s == [i \in DOMAIN c |-> Bytes(c[i].state)]
<1>1. n \in Nat /\ DOMAIN c = 1..n /\ \A i \in 1..n : c[i] \in Anchor
    BY LenProperties, ElementOfSeq
<1>2. \A i \in 1..n : Bytes(c[i].state) \in Nat
    BY <1>1, SavedState DEF Anchor
<1> HIDE DEF n
<1>3. s \in [1..n -> Nat]
    BY <1>1, <1>2
<1> HIDE DEF s
<1>4. s \in Seq(Nat) /\ Len(s) = n
    BY <1>1, <1>3, SeqDef
<1>5. QED
    BY <1>1, <1>4 DEF s, n

(* Nothing weighs nothing, fewer checkpoints weigh less, one more weighs   *)
(* its size more.                                                          *)
LEMMA TotalEmpty == TotalOf(<<>>) = 0
<1>1. [i \in DOMAIN <<>> |-> Bytes(<<>>[i].state)] = <<>>
    OBVIOUS
<1>2. QED
    BY <1>1, SumEmpty DEF TotalOf

LEMMA TotalEmbedded ==
    ASSUME NEW c \in Seq(Anchor), NEW d \in Seq(Anchor), NEW e, Embeds(e, c, d),
           \A i \in 1..Len(c) : c[i] = d[e[i]]
    PROVE  TotalOf(c) \in Nat /\ TotalOf(d) \in Nat /\ TotalOf(c) <= TotalOf(d)
<1> DEFINE s == [i \in DOMAIN c |-> Bytes(c[i].state)]
           t == [i \in DOMAIN d |-> Bytes(d[i].state)]
<1>1. /\ s \in Seq(Nat) /\ Len(s) = Len(c) /\ Len(c) \in Nat /\ DOMAIN c = 1..Len(c)
      /\ t \in Seq(Nat) /\ Len(t) = Len(d) /\ Len(d) \in Nat /\ DOMAIN d = 1..Len(d)
    BY CheckpointSizes
<1>2. Embeds(e, s, t)
    BY <1>1 DEF Embeds
<1>3. ASSUME NEW i \in 1..Len(s) PROVE s[i] <= t[e[i]]
  <2>1. i \in 1..Len(c) /\ e[i] \in 1..Len(d) /\ c[i] = d[e[i]]
    BY <1>1 DEF Embeds
  <2>2. s[i] = t[e[i]] /\ s[i] = s[i]
    BY <1>1, <2>1
  <2> HIDE DEF s
  <2>3. s[i] \in Nat
    BY <1>1, ElementOfSeq
  <2>4. QED
    BY <2>2, <2>3
<1> HIDE DEF s, t
<1>4. Sum(s) \in Nat /\ Sum(t) \in Nat /\ Sum(s) <= Sum(t)
    BY <1>1, <1>2, <1>3, SumEmbedded
<1>5. TotalOf(c) = Sum(s) /\ TotalOf(d) = Sum(t)
    BY DEF TotalOf, s, t
<1>6. QED
    BY <1>4, <1>5

LEMMA TotalOneMore ==
    ASSUME NEW c \in Seq(Anchor), NEW x \in Anchor
    PROVE  TotalOf(Append(c, x)) = TotalOf(c) + Bytes(x.state) /\ TotalOf(c) \in Nat
<1> DEFINE d == Append(c, x)
           s == [i \in DOMAIN c |-> Bytes(c[i].state)]
           t == [i \in DOMAIN d |-> Bytes(d[i].state)]
<1>1. /\ d \in Seq(Anchor) /\ Len(d) = Len(c) + 1
      /\ \A i \in 1..Len(c) : d[i] = c[i]
      /\ d[Len(c) + 1] = x
    BY AppendProperties
<1> HIDE DEF d
<1>2. /\ s \in Seq(Nat) /\ Len(s) = Len(c) /\ Len(c) \in Nat /\ DOMAIN c = 1..Len(c)
      /\ t \in Seq(Nat) /\ Len(t) = Len(d) /\ Len(d) \in Nat /\ DOMAIN d = 1..Len(d)
    BY <1>1, CheckpointSizes
<1>3. Len(c) + 1 \in DOMAIN d /\ \A i \in 1..Len(c) : i \in DOMAIN d
    BY <1>1, <1>2
<1>4. /\ Len(t) = Len(s) + 1 /\ t[Len(t)] = Bytes(x.state)
      /\ \A i \in 1..Len(s) : t[i] = s[i]
    BY <1>1, <1>2, <1>3
<1>5. TotalOf(c) = Sum(s) /\ TotalOf(d) = Sum(t)
    BY DEF TotalOf
<1> HIDE DEF s, t
<1>6. s \in Seq(Int) /\ t \in Seq(Int)
    BY <1>2, SeqMonotonic
<1>7. Sum(t) = Sum(s) + t[Len(t)]
    BY <1>4, <1>6, SumOneMore
<1>8. Sum(s) \in Nat
  <2> DEFINE e == [i \in 1..Len(s) |-> i]
  <2>1. Embeds(e, s, s) /\ \A i \in 1..Len(s) : s[i] <= s[e[i]]
    <3>1. \A i \in 1..Len(s) : s[i] \in Nat
        BY <1>2, ElementOfSeq
    <3>2. QED
        BY <3>1 DEF Embeds
  <2> HIDE DEF e
  <2>2. QED
    BY <1>2, <2>1, SumEmbedded
<1>9. QED
    BY <1>4, <1>5, <1>7, <1>8 DEF d

(* The sizes of the entries of the prompt cache, in the same way.          *)
LEMMA EntrySizes ==
    ASSUME NEW c \in Seq(Entry)
    PROVE  /\ [i \in DOMAIN c |-> EntryBytes(c[i])] \in Seq(Nat)
           /\ Len([i \in DOMAIN c |-> EntryBytes(c[i])]) = Len(c)
           /\ Len(c) \in Nat /\ DOMAIN c = 1..Len(c)
<1> DEFINE n == Len(c)
           s == [i \in DOMAIN c |-> EntryBytes(c[i])]
<1>1. n \in Nat /\ DOMAIN c = 1..n /\ \A i \in 1..n : c[i] \in Entry
    BY LenProperties, ElementOfSeq
<1>2. ASSUME NEW x \in Entry PROVE EntryBytes(x) \in Nat
  <2>1. x.ckpts \in Seq(Anchor) /\ x.state \in Memory
    BY DEF Entry
  <2>2. TotalOf(x.ckpts) \in Nat
    <3> DEFINE k == x.ckpts
               e == [i \in 1..Len(k) |-> i]
    <3>1. Embeds(e, k, k) /\ \A i \in 1..Len(k) : k[i] = k[e[i]]
        BY <2>1, LenProperties DEF Embeds
    <3> HIDE DEF e
    <3>2. QED
        BY <2>1, <3>1, TotalEmbedded
  <2>3. QED
    BY <2>1, <2>2, SavedState DEF EntryBytes
<1> HIDE DEF n
<1>3. s \in [1..n -> Nat]
    BY <1>1, <1>2
<1> HIDE DEF s
<1>4. s \in Seq(Nat) /\ Len(s) = n
    BY <1>1, <1>3, SeqDef
<1>5. QED
    BY <1>1, <1>4 DEF s, n

LEMMA CacheEmpty == CacheSize(<<>>) = 0
<1>1. [i \in DOMAIN <<>> |-> EntryBytes(<<>>[i])] = <<>>
    OBVIOUS
<1>2. QED
    BY <1>1, SumEmpty DEF CacheSize

LEMMA CacheEmbedded ==
    ASSUME NEW c \in Seq(Entry), NEW d \in Seq(Entry), NEW e, Embeds(e, c, d),
           \A i \in 1..Len(c) : c[i] = d[e[i]]
    PROVE  CacheSize(c) \in Nat /\ CacheSize(d) \in Nat /\ CacheSize(c) <= CacheSize(d)
<1> DEFINE s == [i \in DOMAIN c |-> EntryBytes(c[i])]
           t == [i \in DOMAIN d |-> EntryBytes(d[i])]
<1>1. /\ s \in Seq(Nat) /\ Len(s) = Len(c) /\ Len(c) \in Nat /\ DOMAIN c = 1..Len(c)
      /\ t \in Seq(Nat) /\ Len(t) = Len(d) /\ Len(d) \in Nat /\ DOMAIN d = 1..Len(d)
    BY EntrySizes
<1>2. Embeds(e, s, t)
    BY <1>1 DEF Embeds
<1>3. ASSUME NEW i \in 1..Len(s) PROVE s[i] <= t[e[i]]
  <2>1. i \in 1..Len(c) /\ e[i] \in 1..Len(d) /\ c[i] = d[e[i]]
    BY <1>1 DEF Embeds
  <2>2. s[i] = t[e[i]] /\ s[i] = s[i]
    BY <1>1, <2>1
  <2> HIDE DEF s
  <2>3. s[i] \in Nat
    BY <1>1, ElementOfSeq
  <2>4. QED
    BY <2>2, <2>3
<1> HIDE DEF s, t
<1>4. Sum(s) \in Nat /\ Sum(t) \in Nat /\ Sum(s) <= Sum(t)
    BY <1>1, <1>2, <1>3, SumEmbedded
<1>5. CacheSize(c) = Sum(s) /\ CacheSize(d) = Sum(t)
    BY DEF CacheSize, s, t
<1>6. QED
    BY <1>4, <1>5

LEMMA CacheOneMore ==
    ASSUME NEW c \in Seq(Entry), NEW x \in Entry
    PROVE  CacheSize(Append(c, x)) = CacheSize(c) + EntryBytes(x) /\ CacheSize(c) \in Nat
<1> DEFINE d == Append(c, x)
           s == [i \in DOMAIN c |-> EntryBytes(c[i])]
           t == [i \in DOMAIN d |-> EntryBytes(d[i])]
<1>1. /\ d \in Seq(Entry) /\ Len(d) = Len(c) + 1
      /\ \A i \in 1..Len(c) : d[i] = c[i]
      /\ d[Len(c) + 1] = x
    BY AppendProperties
<1> HIDE DEF d
<1>2. /\ s \in Seq(Nat) /\ Len(s) = Len(c) /\ Len(c) \in Nat /\ DOMAIN c = 1..Len(c)
      /\ t \in Seq(Nat) /\ Len(t) = Len(d) /\ Len(d) \in Nat /\ DOMAIN d = 1..Len(d)
    BY <1>1, EntrySizes
<1>3. Len(c) + 1 \in DOMAIN d /\ \A i \in 1..Len(c) : i \in DOMAIN d
    BY <1>1, <1>2
<1>4. /\ Len(t) = Len(s) + 1 /\ t[Len(t)] = EntryBytes(x)
      /\ \A i \in 1..Len(s) : t[i] = s[i]
    BY <1>1, <1>2, <1>3
<1>5. CacheSize(c) = Sum(s) /\ CacheSize(d) = Sum(t)
    BY DEF CacheSize
<1> HIDE DEF s, t
<1>6. s \in Seq(Int) /\ t \in Seq(Int)
    BY <1>2, SeqMonotonic
<1>7. Sum(t) = Sum(s) + t[Len(t)]
    BY <1>4, <1>6, SumOneMore
<1>8. Sum(s) \in Nat
  <2> DEFINE e == [i \in 1..Len(s) |-> i]
  <2>1. Embeds(e, s, s) /\ \A i \in 1..Len(s) : s[i] <= s[e[i]]
    <3>1. \A i \in 1..Len(s) : s[i] \in Nat
        BY <1>2, ElementOfSeq
    <3>2. QED
        BY <3>1 DEF Embeds
  <2> HIDE DEF e
  <2>2. QED
    BY <1>2, <2>1, SumEmbedded
<1>9. QED
    BY <1>4, <1>5, <1>7, <1>8 DEF d

(* A sequence is no shorter than one that is embedded in it.               *)
LEMMA EmbedsShorter ==
    ASSUME NEW S, NEW c \in Seq(S), NEW d \in Seq(S), NEW e, Embeds(e, c, d)
    PROVE  Len(c) <= Len(d)
<1> DEFINE n == Len(c)
           m == Len(d)
<1>1. /\ n \in Nat /\ m \in Nat
      /\ e \in [1..n -> 1..m] /\ \A i, j \in 1..n : i < j => e[i] < e[j]
    BY LenProperties DEF Embeds
<1> HIDE DEF n, m
<1> DEFINE T == {i \in Nat : i <= n /\ i >= 1 => e[i] >= i}
<1>2. 0 \in T
    OBVIOUS
<1>3. ASSUME NEW i \in T PROVE i + 1 \in T
  <2>1. CASE i = 0
    <3>1. 1 <= n => e[1] >= 1
        BY <1>1
    <3>2. QED
        BY <2>1, <3>1
  <2>2. CASE i # 0 /\ i + 1 <= n
    <3>1. i \in 1..n /\ i + 1 \in 1..n /\ i < i + 1
        BY <1>1, <2>2
    <3>2. e[i] >= i /\ e[i] \in 1..m /\ e[i + 1] \in 1..m /\ e[i] < e[i + 1]
        BY <1>1, <3>1
    <3>3. e[i + 1] >= i + 1
        BY <1>1, <3>1, <3>2
    <3>4. QED
        BY <3>3
  <2>3. QED
    BY <1>1, <2>1, <2>2
<1>4. T = Nat
  <2>1. T \in SUBSET Nat
    OBVIOUS
  <2> HIDE DEF T
  <2>2. QED
    BY <1>2, <1>3, <2>1, Induction
<1>5. n >= 1 => e[n] >= n
  <2>1. \A i \in Nat : i <= n /\ i >= 1 => e[i] >= i
    BY <1>4
  <2>2. QED
    BY <1>1, <2>1
<1>6. n <= m
  <2>1. CASE n >= 1
    <3>1. n \in 1..n /\ e[n] \in 1..m
        BY <1>1, <2>1
    <3>2. QED
        BY <1>1, <1>5, <2>1, <3>1
  <2>2. CASE ~(n >= 1)
    BY <1>1, <2>2
  <2>3. QED
    BY <2>1, <2>2
<1>7. QED
    BY <1>6 DEF n, m

-----------------------------------------------------------------------------
(* The operations on checkpoints.                                          *)

(* What is left when the oldest go.                                        *)
LEMMA Suffix ==
    ASSUME NEW S, NEW c \in Seq(S), NEW I \in SUBSET (0..Len(c)), Len(c) \in I
    PROVE  /\ Min(I) \in I
           /\ SubSeq(c, Min(I) + 1, Len(c)) \in Seq(S)
           /\ Min(I) = Len(c) => SubSeq(c, Min(I) + 1, Len(c)) = <<>>
<1>1. Len(c) \in Nat
    BY LenProperties
<1>2. I \in SUBSET Nat
    BY <1>1
<1>3. Min(I) \in I
    BY <1>2, LeastElement
<1> DEFINE k == Min(I)
<1> HIDE DEF k
<1>4. k \in 0..Len(c)
    BY <1>3 DEF k
<1>5. \A i \in (k + 1)..Len(c) : c[i] \in S
    BY <1>1, <1>4, ElementOfSeq
<1>6. k + 1 \in Int /\ Len(c) \in Int
    BY <1>1, <1>4
<1>7. SubSeq(c, k + 1, Len(c)) \in Seq(S)
    BY <1>5, <1>6, SubSeqProperties
<1>8. k = Len(c) => SubSeq(c, k + 1, Len(c)) = <<>>
    BY <1>1, <1>6, SubSeqEmpty
<1>9. QED
    BY <1>3, <1>7, <1>8 DEF k

(* A new checkpoint holds exactly the tokens before its position.          *)
LEMMA NewAnchor ==
    ASSUME NEW m \in Memory, NEW n \in Nat, n > 0, PosMax(m) = n - 1
    PROVE  /\ [n |-> n, posMax |-> PosMax(m), state |-> Saved(m)] \in Anchor
           /\ Len(m.toks) = n
<1>1. /\ Len(m.toks) \in Nat /\ m.lo \in Nat /\ m.lo <= Len(m.toks)
      /\ Saved(m) \in Memory /\ Saved(m).toks = m.toks
    BY SavedState
<1>2. Len(m.toks) = n
    BY <1>1 DEF PosMax
<1>3. n - 1 \in Nat /\ n \in Nat \ {0}
    OBVIOUS
<1>4. Saved(m) \in State
    BY <1>1 DEF Memory
<1>5. [n |-> n, posMax |-> PosMax(m), state |-> Saved(m)] \in Checkpoint
    BY <1>3, <1>4 DEF Checkpoint
<1>6. QED
    BY <1>1, <1>2, <1>5 DEF Anchor

(* create_checkpoint keeps the limits and adds nothing but the checkpoint. *)
LEMMA CreateKeeps ==
    ASSUME NEW S \in SUBSET Anchor, NEW c \in Seq(S), Within(c),
           NEW m \in Memory, NEW n \in Nat, NEW copied \in BOOLEAN,
           n > 0 /\ PosMax(m) = n - 1 =>
               [n |-> n, posMax |-> PosMax(m), state |-> Saved(m)] \in S
    PROVE  Create(c, m, n, copied) \in Seq(S) /\ Within(Create(c, m, n, copied))
<1> DEFINE new == [n |-> n, posMax |-> PosMax(m), state |-> Saved(m)]
           Fits(r) == TotalOf(r) <= CheckpointBytes - Bytes(m) /\ Len(r) < MaxCheckpoints
           I == {i \in 0..Len(c) : i = Len(c) \/ Fits(SubSeq(c, i + 1, Len(c)))}
           r == SubSeq(c, Min(I) + 1, Len(c))
<1>1. CASE n <= 0 \/ PosMax(m) # n - 1 \/ Bytes(m) > CheckpointBytes
    BY <1>1 DEF Create
<1>2. CASE ~(n <= 0 \/ PosMax(m) # n - 1 \/ Bytes(m) > CheckpointBytes)
  <2>1. Bytes(m) \in Nat /\ Bytes(Saved(m)) = Bytes(m)
    BY SavedState
  <2>2. Bytes(m) <= CheckpointBytes /\ new \in S
    BY <1>2, <2>1, Parameters
  <2>3. Create(c, m, n, copied) = r \o (IF copied THEN <<new>> ELSE <<>>)
    BY <1>2 DEF Create, WithoutOldest
  <2>4. I \in SUBSET (0..Len(c)) /\ Len(c) \in I /\ Len(c) \in Nat
    BY LenProperties
  <2>5. Min(I) \in I /\ r \in Seq(S) /\ (Min(I) = Len(c) => r = <<>>)
    <3> HIDE DEF I
    <3>1. QED
        BY <2>4, Suffix
  <2>6. r = <<>> \/ Fits(r)
    BY <2>5
  <2> HIDE DEF I, r
  <2>7. r \in Seq(Anchor) /\ new \in Anchor
    BY <2>2, <2>5, SeqMonotonic
  <2>8. TotalOf(r) <= CheckpointBytes - Bytes(m) /\ Len(r) < MaxCheckpoints
    <3>1. CASE r = <<>>
        BY <2>1, <2>2, <3>1, TotalEmpty, EmptySeq, Parameters
    <3>2. CASE Fits(r)
        BY <3>2
    <3>3. QED
        BY <2>6, <3>1, <3>2
  <2>9. /\ TotalOf(Append(r, new)) = TotalOf(r) + Bytes(new.state) /\ TotalOf(r) \in Nat
    BY <2>7, TotalOneMore
  <2>10. CASE copied
    <3>1. Create(c, m, n, copied) = Append(r, new)
        BY <2>2, <2>3, <2>5, <2>10, AppendIsConcat
    <3>2. Append(r, new) \in Seq(S) /\ Len(Append(r, new)) = Len(r) + 1
        BY <2>2, <2>5, AppendProperties
    <3>3. Bytes(new.state) = Bytes(m) /\ Len(r) \in Nat
        BY <2>1, <2>5, LenProperties
    <3>4. Within(Append(r, new))
        BY <2>1, <2>8, <2>9, <3>2, <3>3, Parameters DEF Within
    <3>5. QED
        BY <3>1, <3>2, <3>4
  <2>11. CASE ~copied
    <3>1. Create(c, m, n, copied) = r
        BY <2>3, <2>5, <2>11, ConcatEmptySeq
    <3>2. Within(r)
      <4>1. Len(r) \in Nat
          BY <2>5, LenProperties
      <4>2. QED
          BY <2>1, <2>8, <2>9, <4>1, Parameters DEF Within
    <3>3. QED
        BY <2>5, <3>1, <3>2
  <2>12. QED
    BY <2>10, <2>11
<1>3. QED
    BY <1>1, <1>2

(* Erasing checkpoints keeps the limits.                                   *)
LEMMA KeptWithin ==
    ASSUME NEW c \in Seq(Anchor), Within(c), NEW which
    PROVE  Kept(c, which) \in Seq(Anchor) /\ Within(Kept(c, which))
<1> DEFINE k == Kept(c, which)
<1>1. PICK e : Embeds(e, k, c) /\ \A i \in 1..Len(k) : e[i] \in which /\ k[i] = c[e[i]]
    BY KeptEmbedded
<1>2. k \in Seq(Anchor)
    BY KeptEmbedded
<1> HIDE DEF k
<1>3. TotalOf(k) \in Nat /\ TotalOf(c) \in Nat /\ TotalOf(k) <= TotalOf(c)
    BY <1>1, <1>2, TotalEmbedded
<1>4. Len(k) <= Len(c) /\ Len(k) \in Nat /\ Len(c) \in Nat
    BY <1>1, <1>2, EmbedsShorter, LenProperties
<1>5. QED
    BY <1>2, <1>3, <1>4, Parameters DEF Within, k

-----------------------------------------------------------------------------
(* The operations on the prompt cache.                                     *)

(* alloc keeps the limit and adds nothing but the prompt it saves.         *)
LEMMA CacheSaveKeeps ==
    ASSUME NEW S \in SUBSET Entry, NEW c \in Seq(S), CacheSize(c) <= CacheBytes,
           [tokens |-> prompt, ckpts |-> ckpts, state |-> Saved(mem)] \in S
    PROVE  CacheSave(c) \in Seq(S) /\ CacheSize(CacheSave(c)) <= CacheBytes
<1> DEFINE new == [tokens |-> prompt, ckpts |-> ckpts, state |-> Saved(mem)]
           Covers(s, t) == Common(s, t) = Len(t)
           rest == Kept(c, {i \in DOMAIN c : ~Covers(prompt, c[i].tokens)})
           Fits(r) == CacheSize(r) + EntryBytes(new) <= CacheBytes
           I == {i \in 0..Len(rest) : i = Len(rest) \/ Fits(SubSeq(rest, i + 1, Len(rest)))}
           r == SubSeq(rest, Min(I) + 1, Len(rest))
           Refused == \/ prompt = <<>>
                      \/ \E i \in DOMAIN c : Covers(c[i].tokens, prompt)
                      \/ EntryBytes(new) > CacheBytes
<1>1. CacheSave(c) = IF Refused THEN c ELSE Append(r, new)
    BY DEF CacheSave, WithoutOldest
<1>2. CASE Refused
  <2> HIDE DEF Refused, r, new
  <2>1. QED
    BY <1>1, <1>2
<1>3. CASE ~Refused
  <2>1. CacheSave(c) = Append(r, new)
    <3> HIDE DEF Refused, r, new
    <3>1. QED
        BY <1>1, <1>3
  <2>2. ~(EntryBytes(new) > CacheBytes)
    BY <1>3
  <2> HIDE DEF Refused
  <2>3. rest \in Seq(S)
    BY KeptEmbedded
  <2> HIDE DEF rest
  <2>4. I \in SUBSET (0..Len(rest)) /\ Len(rest) \in I /\ Len(rest) \in Nat
    BY <2>3, LenProperties
  <2>5. Min(I) \in I /\ r \in Seq(S) /\ (Min(I) = Len(rest) => r = <<>>)
    <3> HIDE DEF I
    <3>1. QED
        BY <2>3, <2>4, Suffix
  <2>6. r = <<>> \/ Fits(r)
    BY <2>5
  <2> HIDE DEF I, r
  <2>7. r \in Seq(Entry) /\ new \in Entry
    BY <2>5, SeqMonotonic
  <2> HIDE DEF new
  <2>8. CacheSize(Append(r, new)) = CacheSize(r) + EntryBytes(new) /\ CacheSize(r) \in Nat
    BY <2>7, CacheOneMore
  <2>9. EntryBytes(new) \in Nat
    <3>1. <<new>> \in Seq(Entry) /\ <<>> \in Seq(Entry) /\ 1 \in DOMAIN <<new>> /\ <<new>>[1] = new
        BY <2>7
    <3>2. [i \in DOMAIN <<new>> |-> EntryBytes(<<new>>[i])] \in Seq(Nat)
        BY <3>1, EntrySizes
    <3>3. Len([i \in DOMAIN <<new>> |-> EntryBytes(<<new>>[i])]) = 1
        BY <3>1, EntrySizes
    <3>4. [i \in DOMAIN <<new>> |-> EntryBytes(<<new>>[i])][1] \in Nat
        BY <3>2, <3>3, ElementOfSeq
    <3>5. QED
        BY <3>1, <3>4
  <2>10. CacheSize(r) + EntryBytes(new) <= CacheBytes
    <3>1. CASE r = <<>>
        BY <2>2, <2>9, <3>1, CacheEmpty, Parameters
    <3>2. QED
        BY <2>6, <3>1
  <2>11. Append(r, new) \in Seq(S)
    BY <2>5, AppendProperties DEF new
  <2>12. QED
    BY <2>1, <2>8, <2>10, <2>11
<1>4. QED
    BY <1>2, <1>3

(* load picks one of the entries, or none.                                 *)
LEMMA BestEntryPlace ==
    ASSUME NEW c \in Seq(Entry), NEW t \in Seq(Token), prompt \in Seq(Token)
    PROVE  BestEntry(c, t) \in 0..Len(c)
<1> DEFINE n == Len(c)
           Z == [lcp : Nat, of : Nat, at : 0..n]
           start == [lcp |-> Common(prompt, t), of |-> Len(prompt), at |-> 0]
           Best(best, i) ==
                IF /\ 4 * Common(c[i].tokens, t) >= Len(c[i].tokens)
                   /\ \/ Common(c[i].tokens, t) * best.of > best.lcp * Len(c[i].tokens)
                      \/ best.of = 0
                   /\ Common(c[i].tokens, t) > best.lcp
                THEN [lcp |-> Common(c[i].tokens, t), of |-> Len(c[i].tokens), at |-> i]
                ELSE best
           upTo == CHOOSE g : g = [i \in 0..n |-> IF i = 0 THEN start ELSE Best(g[i - 1], i)]
           step == [p \in Z \X (1..n) |-> Best(p[1], p[2])]
<1>1. n \in Nat /\ \A i \in 1..n : c[i] \in Entry
    BY LenProperties, ElementOfSeq
<1>2. \A i \in 1..n : c[i].tokens \in Seq(Token)
    BY <1>1 DEF Entry
<1>3. \A i \in 1..n : Common(c[i].tokens, t) \in Nat /\ Len(c[i].tokens) \in Nat
    BY <1>2, CommonPrefix, LenProperties
<1>4. BestEntry(c, t) = upTo[n].at
    BY DEF BestEntry
<1>5. start \in Z
    BY <1>1, CommonPrefix, LenProperties
<1> HIDE DEF n, start
<1>6. ASSUME NEW x \in Z, NEW i \in 1..n PROVE Best(x, i) \in Z
  <2>1. [lcp |-> Common(c[i].tokens, t), of |-> Len(c[i].tokens), at |-> i] \in Z
    BY <1>1, <1>3
  <2>2. QED
    BY <2>1
<1> HIDE DEF Best
<1>7. step \in [Z \X (1..n) -> Z] /\ \A x \in Z, i \in 1..n : step[<<x, i>>] = Best(x, i)
    BY <1>6
<1>8. PICK f \in [0..n -> Z] : f[0] = start /\ \A i \in 1..n : f[i] = step[<<f[i - 1], i>>]
  <2> HIDE DEF step, Z, upTo
  <2>1. PICK g \in [0..n -> Z] : Recurses(g, start, n, step)
    BY <1>1, <1>5, <1>7, Recursion
  <2>2. QED
    BY <2>1 DEF Recurses
<1> HIDE DEF step, upTo, Z
<1>9. f = [i \in 0..n |-> IF i = 0 THEN start ELSE Best(f[i - 1], i)]
  <2>1. ASSUME NEW i \in 0..n PROVE f[i] = IF i = 0 THEN start ELSE Best(f[i - 1], i)
    <3>1. CASE i = 0
        BY <1>8, <3>1
    <3>2. CASE i # 0
      <4>1. i \in 1..n /\ i - 1 \in 0..n
          BY <1>1, <3>2
      <4>2. f[i - 1] \in Z
          BY <1>8, <4>1
      <4>3. QED
          BY <1>7, <1>8, <3>2, <4>1, <4>2
    <3>3. QED
        BY <3>1, <3>2
  <2>2. QED
    BY <1>8, <2>1
<1>10. upTo = [i \in 0..n |-> IF i = 0 THEN start ELSE Best(upTo[i - 1], i)]
    BY <1>9 DEF upTo
<1>11. \A i \in 0..n : upTo[i] \in Z
  <2> DEFINE T == {i \in Nat : i <= n => upTo[i] \in Z}
  <2>1. 0 \in T
    BY <1>1, <1>5, <1>10
  <2>2. ASSUME NEW i \in T PROVE i + 1 \in T
    <3> SUFFICES ASSUME i + 1 <= n PROVE upTo[i + 1] \in Z
        OBVIOUS
    <3>1. i + 1 \in 0..n /\ i + 1 \in 1..n /\ i + 1 # 0 /\ (i + 1) - 1 = i /\ upTo[i] \in Z
        BY <1>1
    <3>2. upTo[i + 1] = Best(upTo[i], i + 1)
        BY <1>10, <3>1
    <3>3. QED
        BY <1>6, <3>1, <3>2
  <2>3. T = Nat
    <3>1. T \in SUBSET Nat
        OBVIOUS
    <3> HIDE DEF T
    <3>2. QED
        BY <2>1, <2>2, <3>1, Induction
  <2>4. \A i \in Nat : i <= n => upTo[i] \in Z
    BY <2>3
  <2>5. QED
    BY <1>1, <2>4
<1>12. upTo[n] \in Z
    BY <1>1, <1>11
<1>13. QED
    BY <1>4, <1>12 DEF Z, n

(* A loaded entry leaves the cache, which holds no more for it.            *)
LEMMA RemovedAt ==
    ASSUME NEW S \in SUBSET Entry, NEW c \in Seq(S), NEW i \in 1..Len(c)
    PROVE  RemoveAt(c, i) \in Seq(S) /\ CacheSize(RemoveAt(c, i)) <= CacheSize(c)
           /\ CacheSize(RemoveAt(c, i)) \in Nat /\ CacheSize(c) \in Nat
<1> DEFINE n == Len(c)
           before == SubSeq(c, 1, i - 1)
           after == SubSeq(c, i + 1, n)
           r == before \o after
           e == [j \in 1..(n - 1) |-> IF j < i THEN j ELSE j + 1]
<1>1. n \in Nat /\ (\A j \in 1..n : c[j] \in S) /\ i \in 1..n
    BY LenProperties, ElementOfSeq
<1>2. RemoveAt(c, i) = r
    BY DEF RemoveAt
<1> HIDE DEF n
<1>3. /\ before \in Seq(S) /\ Len(before) = i - 1
      /\ \A j \in 1..(i - 1) : before[j] = c[j]
  <2>1. 1 \in Int /\ i - 1 \in Int /\ \A j \in 1..(i - 1) : c[j] \in S /\ 1 + j - 1 = j
    BY <1>1
  <2>2. /\ before \in Seq(S)
        /\ Len(before) = IF 1 <= i - 1 THEN i - 1 - 1 + 1 ELSE 0
        /\ \A j \in 1..(i - 1 - 1 + 1) : before[j] = c[1 + j - 1]
    BY <2>1, SubSeqProperties
  <2>3. QED
    BY <1>1, <2>1, <2>2
<1>4. /\ after \in Seq(S) /\ Len(after) = n - i
      /\ \A j \in 1..(n - i) : after[j] = c[i + j]
  <2>1. n \in Int /\ i + 1 \in Int /\ \A j \in (i + 1)..n : c[j] \in S
    BY <1>1
  <2>2. /\ after \in Seq(S)
        /\ Len(after) = IF i + 1 <= n THEN n - (i + 1) + 1 ELSE 0
        /\ \A j \in 1..(n - (i + 1) + 1) : after[j] = c[i + 1 + j - 1]
    BY <2>1, SubSeqProperties
  <2>3. n - (i + 1) + 1 = n - i /\ \A j \in 1..(n - i) : i + 1 + j - 1 = i + j
    BY <1>1
  <2>4. QED
    BY <1>1, <2>2, <2>3
<1> HIDE DEF before, after
<1>5. /\ r \in Seq(S) /\ Len(r) = Len(before) + Len(after)
      /\ \A j \in 1..(Len(before) + Len(after)) :
            r[j] = IF j <= Len(before) THEN before[j] ELSE after[j - Len(before)]
    BY <1>3, <1>4, ConcatProperties
<1> HIDE DEF r
<1>6. Len(r) = n - 1
    BY <1>1, <1>3, <1>4, <1>5
<1>7. ASSUME NEW j \in 1..(n - 1) PROVE r[j] = c[e[j]] /\ e[j] \in 1..n
  <2>1. j \in 1..(Len(before) + Len(after))
    BY <1>1, <1>3, <1>4
  <2>2. CASE j < i
    <3>1. j <= Len(before) /\ j \in 1..(i - 1) /\ e[j] = j
        BY <1>1, <1>3, <2>2
    <3>2. QED
        BY <1>1, <1>3, <1>5, <2>1, <3>1
  <2>3. CASE ~(j < i)
    <3>1. ~(j <= Len(before)) /\ j - (i - 1) \in 1..(n - i) /\ i + (j - (i - 1)) = j + 1 /\ e[j] = j + 1
        BY <1>1, <1>3, <2>3
    <3>2. r[j] = after[j - (i - 1)]
        BY <1>3, <1>5, <2>1, <3>1
    <3>3. after[j - (i - 1)] = c[i + (j - (i - 1))]
        BY <1>4, <3>1
    <3>4. QED
        BY <1>1, <3>1, <3>2, <3>3
  <2>4. QED
    BY <2>2, <2>3
<1>8. Embeds(e, r, c)
  <2>1. e \in [1..(n - 1) -> 1..n]
    BY <1>1
  <2>2. \A j, k \in 1..(n - 1) : j < k => e[j] < e[k]
    BY <1>1
  <2> HIDE DEF e
  <2>3. QED
    BY <1>6, <2>1, <2>2 DEF Embeds, n
<1> HIDE DEF e
<1>9. c \in Seq(Entry) /\ r \in Seq(Entry)
    BY <1>5, SeqMonotonic
<1>10. \A j \in 1..Len(r) : r[j] = c[e[j]]
    BY <1>6, <1>7
<1>11. CacheSize(r) \in Nat /\ CacheSize(c) \in Nat /\ CacheSize(r) <= CacheSize(c)
    BY <1>8, <1>9, <1>10, CacheEmbedded
<1>12. QED
    BY <1>2, <1>5, <1>11

-----------------------------------------------------------------------------
(* The steps of a prompt.                                                  *)

(* A batch of the prompt is not empty and not larger than n_batch.         *)
LEMMA BatchEndPlace ==
    ASSUME task \in Tasks, NEW n \in Nat, n < Len(Input)
    PROVE  BatchEnd(n) \in (n + 1)..Len(Input) /\ BatchEnd(n) <= n + NBatch
<1> DEFINE last == Smaller(Len(Input), n + NBatch)
           Breaks(x) == MessageStart(Input, x)
                        \/ \E offset \in {4 + NUbatch, 4} :
                               Len(Input) = x + Smaller(NBatch, offset)
           I == {x \in (n + 1)..last : x = last \/ Breaks(x)}
<1>1. Len(Input) \in Nat
    BY Parameters, LenProperties DEF Input
<1>2. last \in (n + 1)..Len(Input) /\ last <= n + NBatch
    BY <1>1, Parameters DEF Smaller
<1>3. BatchEnd(n) = Min(I)
    BY DEF BatchEnd
<1> HIDE DEF last, Breaks
<1>4. I \in SUBSET Nat /\ last \in I
    BY <1>2
<1>5. Min(I) \in I
  <2> HIDE DEF I
  <2>1. QED
    BY <1>4, LeastElement
<1>6. Min(I) \in (n + 1)..last
    BY <1>5
<1> HIDE DEF I
<1>7. QED
    BY <1>1, <1>2, <1>3, <1>6, Parameters

(* The checkpoint restored is one of the slot's, of at most n tokens.      *)
LEMMA LatestPlace ==
    ASSUME ckpts \in Seq(Anchor), NEW n, Latest(n) # 0
    PROVE  /\ Latest(n) \in 1..Len(ckpts)
           /\ ckpts[Latest(n)].n <= n /\ ckpts[Latest(n)].n < Len(Input)
<1> DEFINE Usable(c) == c.n > 0 /\ c.n <= n /\ c.n < Len(Input) /\ c.posMax = c.n - 1
           I == {i \in 1..Len(ckpts) : Usable(ckpts[i])}
<1>1. Latest(n) = IF I # {} THEN Max(I) ELSE 0
    BY DEF Latest, SelectLastInSeq
<1>2. Len(ckpts) \in Nat /\ I \in SUBSET (0..Len(ckpts))
    BY LenProperties
<1>3. I # {} /\ Latest(n) = Max(I)
    BY <1>1
<1>4. Max(I) \in I
  <2> HIDE DEF I
  <2>1. QED
    BY <1>2, <1>3, GreatestElement
<1>5. QED
    BY <1>3, <1>4

(* Trimming to n keeps the window when n is an end or far enough from it.  *)
LEMMA TrimKeeps ==
    ASSUME NEW m \in Memory, NEW n \in Nat, n <= Len(m.toks),
           n \in {0, Len(m.toks)} \/ m.lo <= Bigger(0, n - NSwa)
    PROVE  /\ Trim(m, n) \in Memory /\ Len(Trim(m, n).toks) = n
           /\ \A j \in 1..n : Trim(m, n).toks[j] = m.toks[j]
<1>1. /\ m.toks \in Seq(Token) /\ m.lo \in Nat /\ Len(m.toks) \in Nat
      /\ m.lo <= Bigger(0, Len(m.toks) - NSwa)
    BY SavedState DEF Memory, State, Token
<1>2. Trim(m, n) = [toks |-> SubSeq(m.toks, 1, n), lo |-> Smaller(m.lo, n)]
    BY <1>1 DEF Trim, Smaller
<1> DEFINE t == SubSeq(m.toks, 1, n)
<1>3. t \in Seq(Token) /\ Len(t) = n /\ \A j \in 1..n : t[j] = m.toks[j]
  <2>1. 1 \in Int /\ n \in Int /\ \A j \in 1..n : m.toks[j] \in Token /\ 1 + j - 1 = j
    BY <1>1, ElementOfSeq
  <2>2. /\ t \in Seq(Token) /\ Len(t) = IF 1 <= n THEN n - 1 + 1 ELSE 0
        /\ \A j \in 1..(n - 1 + 1) : t[j] = m.toks[1 + j - 1]
    BY <2>1, SubSeqProperties
  <2>3. QED
    BY <2>1, <2>2
<1> HIDE DEF t
<1>4. Smaller(m.lo, n) \in Nat /\ Smaller(m.lo, n) <= Bigger(0, n - NSwa)
    BY <1>1, Parameters DEF Smaller, Bigger
<1>5. Trim(m, n).toks = t /\ Trim(m, n).lo = Smaller(m.lo, n)
    BY <1>2 DEF t
<1>6. Trim(m, n) \in State
    BY <1>2, <1>3, <1>4 DEF State, Token, t
<1>7. QED
    BY <1>3, <1>4, <1>5, <1>6 DEF Memory

(* The next batch: what it leaves in the memory, the prompt and the        *)
(* checkpoints.                                                            *)
LEMMA FillKeeps ==
    ASSUME task \in Tasks, prompt \in Seq(Token),
           NEW n \in Nat, n <= Len(prompt),
           NEW m \in Memory, n <= Len(m.toks),
           n \in {0, Len(m.toks)} \/ m.lo <= Bigger(0, n - NSwa),
           NEW S \in SUBSET Anchor, NEW c \in Seq(S), Within(c), NEW copied \in BOOLEAN,
           n > 0 /\ PosMax(Trim(m, n)) = n - 1 =>
               [n |-> n, posMax |-> PosMax(Trim(m, n)), state |-> Saved(Trim(m, n))] \in S,
           Fill(n, m, c, copied)
    PROVE  /\ slot' \in {"done", "prompt"} /\ batch' \in 1..NBatch
           /\ prompt' \in Seq(Token) /\ mem' = Trim(m, n) /\ mem' \in Memory
           /\ Len(mem'.toks) = n /\ Len(prompt') = n + batch' /\ Len(prompt') <= Len(Input)
           /\ \A j \in 1..n : mem'.toks[j] = m.toks[j] /\ prompt'[j] = prompt[j]
           /\ \A j \in (n + 1)..Len(prompt') : prompt'[j] = Input[j]
           /\ ckpts' \in Seq(S) /\ Within(ckpts')
<1> DEFINE end == BatchEnd(n)
           kept == Trim(m, n)
           p == SubSeq(prompt, 1, n)
           q == SubSeq(Input, n + 1, end)
<1>1. /\ n < Len(Input) /\ prompt' = p \o q /\ mem' = kept
      /\ ckpts' = c \/ ckpts' = Create(c, kept, n, copied)
      /\ slot' \in {"done", "prompt"} /\ batch' = end - n
    BY DEF Fill
<1>2. Input \in Seq(Token) /\ Len(Input) \in Nat /\ Len(prompt) \in Nat
    BY Parameters, LenProperties DEF Input
<1>3. end \in (n + 1)..Len(Input) /\ end <= n + NBatch
    BY <1>1, BatchEndPlace
<1>4. /\ kept \in Memory /\ Len(kept.toks) = n
      /\ \A j \in 1..n : kept.toks[j] = m.toks[j]
    BY TrimKeeps
<1> HIDE DEF end
<1>5. p \in Seq(Token) /\ Len(p) = n /\ \A j \in 1..n : p[j] = prompt[j]
  <2>1. 1 \in Int /\ n \in Int /\ \A j \in 1..n : prompt[j] \in Token /\ 1 + j - 1 = j
    BY <1>2, ElementOfSeq
  <2>2. /\ p \in Seq(Token) /\ Len(p) = IF 1 <= n THEN n - 1 + 1 ELSE 0
        /\ \A j \in 1..(n - 1 + 1) : p[j] = prompt[1 + j - 1]
    BY <2>1, SubSeqProperties
  <2>3. QED
    BY <2>1, <2>2
<1>6. q \in Seq(Token) /\ Len(q) = end - n /\ \A j \in 1..(end - n) : q[j] = Input[n + j]
  <2>1. n + 1 \in Int /\ end \in Int /\ \A j \in (n + 1)..end : Input[j] \in Token
    BY <1>2, <1>3, ElementOfSeq
  <2>2. /\ q \in Seq(Token) /\ Len(q) = IF n + 1 <= end THEN end - (n + 1) + 1 ELSE 0
        /\ \A j \in 1..(end - (n + 1) + 1) : q[j] = Input[n + 1 + j - 1]
    BY <2>1, SubSeqProperties
  <2>3. end - (n + 1) + 1 = end - n /\ n + 1 <= end
    BY <1>3
  <2>4. ASSUME NEW j \in 1..(end - n) PROVE q[j] = Input[n + j]
    <3>1. n + 1 + j - 1 = n + j
        BY <1>3
    <3>2. QED
        BY <2>2, <2>3, <3>1
  <2>5. QED
    BY <2>2, <2>3, <2>4
<1> HIDE DEF p, q, kept
<1>7. /\ prompt' \in Seq(Token) /\ Len(prompt') = Len(p) + Len(q)
      /\ \A j \in 1..(Len(p) + Len(q)) :
            prompt'[j] = IF j <= Len(p) THEN p[j] ELSE q[j - Len(p)]
  <2>1. p \in Seq(Token) /\ q \in Seq(Token)
    BY <1>5, <1>6
  <2>2. /\ p \o q \in Seq(Token) /\ Len(p \o q) = Len(p) + Len(q)
        /\ \A j \in 1..(Len(p) + Len(q)) :
              (p \o q)[j] = IF j <= Len(p) THEN p[j] ELSE q[j - Len(p)]
    BY <2>1, ConcatProperties
  <2>3. prompt' = p \o q
    BY <1>1
  <2>4. QED
    BY <2>2, <2>3
<1>8. Len(prompt') = end /\ end \in Nat
    BY <1>3, <1>5, <1>6, <1>7
<1>9. ASSUME NEW j \in 1..n PROVE prompt'[j] = prompt[j]
    BY <1>3, <1>5, <1>6, <1>7
<1>10. ASSUME NEW j \in (n + 1)..Len(prompt') PROVE prompt'[j] = Input[j]
  <2>1. j \in 1..(Len(p) + Len(q)) /\ ~(j <= Len(p)) /\ j - n \in 1..(end - n) /\ n + (j - n) = j
    BY <1>3, <1>5, <1>6, <1>8
  <2>2. prompt'[j] = q[j - n]
    BY <1>5, <1>7, <2>1
  <2>3. q[j - n] = Input[n + (j - n)]
    BY <1>6, <2>1
  <2>4. QED
    BY <2>1, <2>2, <2>3
<1>11. batch' \in 1..NBatch /\ Len(prompt') = n + batch' /\ Len(prompt') <= Len(Input)
    BY <1>1, <1>2, <1>3, <1>8, Parameters
<1>12. ckpts' \in Seq(S) /\ Within(ckpts')
  <2>1. CASE ckpts' = c
    BY <2>1 DEF Within
  <2>2. CASE ckpts' = Create(c, kept, n, copied)
    <3>1. Create(c, kept, n, copied) \in Seq(S) /\ Within(Create(c, kept, n, copied))
        BY <1>4, CreateKeeps DEF kept
    <3>2. QED
        BY <2>2, <3>1 DEF Within
  <2>3. QED
    BY <1>1, <2>1, <2>2
<1>13. QED
    BY <1>1, <1>4, <1>7, <1>9, <1>10, <1>11, <1>12 DEF kept

(* What may be reused: tokens that the prompt and the task share, with a   *)
(* memory whose window is complete there.                                  *)
LEMMA ReuseFacts ==
    ASSUME CkptsInv, slot = "started", batch = 0, NEW r \in Reuse
    PROVE  /\ r.n \in Nat /\ LeaveOne(r.n) \in Nat
           /\ LeaveOne(r.n) <= r.n /\ r.n <= LeaveOne(r.n) + 1
           /\ r.n <= Len(prompt) /\ r.n <= Len(Input)
           /\ \A j \in 1..r.n : prompt[j] = Input[j]
           /\ r.mem \in Memory /\ LeaveOne(r.n) <= Len(r.mem.toks)
           /\ \/ LeaveOne(r.n) \in {0, Len(r.mem.toks)}
              \/ r.mem.lo <= Bigger(0, LeaveOne(r.n) - NSwa)
           /\ \/ r.from = 0 /\ (r.n = 0 \/ r.mem = mem)
              \/ /\ r.from \in 1..Len(ckpts) /\ r.n = ckpts[r.from].n
                 /\ r.mem = ckpts[r.from].state
<1> DEFINE n == IF task.cache_prompt THEN Common(prompt, Input) ELSE 0
           i == Latest(n)
<1>1. /\ task \in Tasks /\ prompt \in Seq(Token) /\ mem \in Memory
      /\ ckpts \in Seq(Anchor) /\ Len(mem.toks) = Len(prompt)
      /\ Len(prompt) \in Nat
    BY LenProperties, SavedState DEF CkptsInv, SlotOK, MemoryOK, CkptsOK
<1>2. Input \in Seq(Token) /\ Len(Input) \in Nat /\ Len(Input) >= 1
    BY <1>1, Parameters, LenProperties DEF Input
<1>3. /\ n \in Nat /\ n <= Len(prompt) /\ n <= Len(Input)
      /\ \A j \in 1..n : prompt[j] = Input[j]
    BY <1>1, <1>2, CommonPrefix
<1>4. \/ r = [n |-> n, mem |-> mem, from |-> 0] /\ ~NeedsCheckpoint(n)
      \/ r = Nothing
      \/ r = [n |-> ckpts[i].n, mem |-> ckpts[i].state, from |-> i] /\ i # 0
    BY DEF Reuse
<1> HIDE DEF n
<1>5. CASE r = [n |-> n, mem |-> mem, from |-> 0] /\ ~NeedsCheckpoint(n)
  <2>1. r.n = n /\ r.mem = mem /\ r.from = 0
    BY <1>5
  <2>2. /\ LeaveOne(n) \in Nat /\ LeaveOne(n) <= n /\ n <= LeaveOne(n) + 1
        /\ LeaveOne(n) = IF n = Len(Input) /\ n > 0 THEN n - 1 ELSE n
    BY <1>3 DEF LeaveOne
  <2>3. mem.lo \in Nat /\ mem.lo <= Len(mem.toks)
    BY <1>1, SavedState
  <2>4. LeaveOne(n) = 0 \/ mem.lo <= Bigger(0, LeaveOne(n) - NSwa)
    <3>1. CASE n = 0
        BY <2>2, <3>1
    <3>2. CASE n > 0
      <4>1. PosMin(mem) < Bigger(0, n - NSwa - (IF n < Len(Input) THEN 0 ELSE 1))
        <5>1. PosMin(mem) \in Int
            BY <2>3 DEF PosMin
        <5>2. Bigger(0, n - NSwa - (IF n < Len(Input) THEN 0 ELSE 1)) \in Int
            BY <1>2, <1>3, Parameters DEF Bigger
        <5>3. QED
            BY <1>5, <3>2, <5>1, <5>2 DEF NeedsCheckpoint
      <4>2. CASE mem.lo = Len(mem.toks)
        <5>1. Len(mem.toks) > 0 /\ mem.lo <= Bigger(0, Len(mem.toks) - NSwa)
            BY <1>1, <1>3, <3>2 DEF Memory
        <5>2. QED
            BY <1>1, <4>2, <5>1, Parameters DEF Bigger
      <4>3. CASE mem.lo # Len(mem.toks)
        <5>1. mem.lo < Bigger(0, n - NSwa - (IF n < Len(Input) THEN 0 ELSE 1))
            BY <4>1, <4>3 DEF PosMin
        <5>2. QED
            BY <1>2, <1>3, <2>2, <2>3, <5>1, Parameters DEF Bigger
      <4>4. QED
          BY <4>2, <4>3
    <3>3. QED
        BY <1>3, <3>1, <3>2
  <2>5. QED
    BY <1>1, <1>3, <2>1, <2>2, <2>4
<1>6. CASE r = Nothing
  <2>1. r.n = 0 /\ r.mem = Empty /\ r.from = 0 /\ LeaveOne(0) = 0
    BY <1>6 DEF Nothing, LeaveOne
  <2>2. Empty \in Memory /\ Len(Empty.toks) = 0
    <3>1. <<>> \in Seq(Token) /\ Len(<<>>) = 0
        BY EmptySeq
    <3>2. QED
        BY <3>1, Parameters DEF Memory, State, Empty, Bigger, Token
  <2>3. QED
    BY <1>1, <1>2, <2>1, <2>2
<1>7. CASE r = [n |-> ckpts[i].n, mem |-> ckpts[i].state, from |-> i] /\ i # 0
  <2>1. r.n = ckpts[i].n /\ r.mem = ckpts[i].state /\ r.from = i
    BY <1>7
  <2>2. i \in 1..Len(ckpts) /\ ckpts[i].n <= n /\ ckpts[i].n < Len(Input)
    BY <1>1, <1>7, LatestPlace
  <2>3. ckpts[i] \in Anchor
    BY <1>1, <2>2, ElementOfSeq
  <2>4. ckpts[i].n \in Nat /\ ckpts[i].state \in Memory /\ Len(ckpts[i].state.toks) = ckpts[i].n
    BY <2>3 DEF Anchor, Checkpoint
  <2>5. LeaveOne(ckpts[i].n) = ckpts[i].n
    BY <2>2 DEF LeaveOne
  <2> HIDE DEF i
  <2>6. QED
    BY <1>1, <1>2, <1>3, <2>1, <2>2, <2>4, <2>5
<1>8. QED
    BY <1>4, <1>5, <1>6, <1>7

(* A sequence whose elements lie in another set as well.                   *)
LEMMA Retyped ==
    ASSUME NEW S, NEW c \in Seq(S), NEW R, \A i \in 1..Len(c) : c[i] \in R
    PROVE  c \in Seq(R)
<1>1. Len(c) \in Nat /\ c \in [1..Len(c) -> S]
    BY LenProperties
<1>2. c \in [1..Len(c) -> R]
    BY <1>1
<1>3. QED
    BY <1>1, <1>2, SeqDef

(* The next batch, and that it keeps what is exact exact.                  *)
LEMMA FillStep ==
    ASSUME task \in Tasks, prompt \in Seq(Token),
           NEW n \in Nat, n <= Len(prompt),
           NEW m \in Memory, n <= Len(m.toks),
           n \in {0, Len(m.toks)} \/ m.lo <= Bigger(0, n - NSwa),
           NEW c \in Seq(Anchor), Within(c), NEW copied \in BOOLEAN,
           Fill(n, m, c, copied)
    PROVE  /\ slot' \in {"done", "prompt"} /\ batch' \in 1..NBatch
           /\ prompt' \in Seq(Token) /\ mem' \in Memory
           /\ Len(mem'.toks) = n /\ Len(prompt') = n + batch' /\ Len(prompt') <= Len(Input)
           /\ \A j \in 1..n : mem'.toks[j] = m.toks[j] /\ prompt'[j] = prompt[j]
           /\ \A j \in (n + 1)..Len(prompt') : prompt'[j] = Input[j]
           /\ ckpts' \in Seq(Anchor) /\ Within(ckpts')
           /\ (\A j \in 1..n : m.toks[j] = prompt[j]) /\ c \in Seq(Agreeing(prompt'))
                  => ckpts' \in Seq(Agreeing(prompt'))
<1> DEFINE kept == Trim(m, n)
           new == [n |-> n, posMax |-> PosMax(kept), state |-> Saved(kept)]
<1>1. kept \in Memory /\ Len(kept.toks) = n /\ \A j \in 1..n : kept.toks[j] = m.toks[j]
    BY TrimKeeps
<1>2. n > 0 /\ PosMax(kept) = n - 1 => new \in Anchor
    BY <1>1, NewAnchor
<1>3. /\ slot' \in {"done", "prompt"} /\ batch' \in 1..NBatch
      /\ prompt' \in Seq(Token) /\ mem' = kept /\ mem' \in Memory
      /\ Len(mem'.toks) = n /\ Len(prompt') = n + batch' /\ Len(prompt') <= Len(Input)
      /\ \A j \in 1..n : mem'.toks[j] = m.toks[j] /\ prompt'[j] = prompt[j]
      /\ \A j \in (n + 1)..Len(prompt') : prompt'[j] = Input[j]
      /\ ckpts' \in Seq(Anchor) /\ Within(ckpts')
  <2>1. Anchor \in SUBSET Anchor
    OBVIOUS
  <2>2. QED
    BY <1>2, <2>1, FillKeeps
<1>4. ASSUME \A j \in 1..n : m.toks[j] = prompt[j], c \in Seq(Agreeing(prompt'))
      PROVE  ckpts' \in Seq(Agreeing(prompt'))
  <2> DEFINE S == Agreeing(prompt')
  <2>1. S \in SUBSET Anchor
    BY DEF Agreeing
  <2>2. ASSUME n > 0, PosMax(kept) = n - 1 PROVE new \in S
    <3>1. new \in Anchor
        BY <1>2, <2>2
    <3>2. new.n = n /\ new.state.toks = kept.toks
        BY <1>1, SavedState
    <3>3. n - 1 <= Len(prompt')
      <4> DEFINE l == Len(prompt')
                 b == batch'
      <4>1. l = n + b /\ b \in Nat
          BY <1>3, Parameters
      <4> HIDE DEF l, b
      <4>2. n - 1 <= l
          BY <4>1
      <4>3. QED
          BY <4>2 DEF l
    <3>4. ASSUME NEW j \in 1..(n - 1) PROVE kept.toks[j] = prompt'[j]
      <4>1. j \in 1..n
          OBVIOUS
      <4>2. QED
          BY <1>1, <1>3, <1>4, <4>1
    <3> HIDE DEF new, kept
    <3>5. QED
        BY <3>1, <3>2, <3>3, <3>4 DEF Agreeing
  <2>3. c \in Seq(S)
    BY <1>4
  <2>4. n > 0 /\ PosMax(Trim(m, n)) = n - 1 =>
            [n |-> n, posMax |-> PosMax(Trim(m, n)), state |-> Saved(Trim(m, n))] \in S
    BY <2>2
  <2> HIDE DEF S, new, kept
  <2>5. ckpts' \in Seq(S)
    BY <2>1, <2>3, <2>4, FillKeeps
  <2>6. QED
    BY <2>5 DEF S
<1>5. QED
    BY <1>3, <1>4

(* pre_decode of a slot that just started.                                 *)
LEMMA StartKeeps ==
    ASSUME CkptsInv, NEW copied \in BOOLEAN, StartPrompt(copied)
    PROVE  CkptsInv'
<1>1. slot = "started" /\ batch = 0 /\ UNCHANGED <<task, cached, requests>>
    BY DEF StartPrompt
<1>2. PICK r \in Reuse :
          /\ Fill(LeaveOne(r.n), r.mem,
                  Kept(ckpts, {i \in DOMAIN ckpts : ~Invalidated(ckpts[i], r.n)}), copied)
          /\ staleTail' = \/ staleTail
                          \/ /\ r.from # 0
                             /\ r.mem.toks # SubSeq(Input, 1, r.n)
                             /\ IsPrefix(Front(r.mem.toks), Input)
    BY DEF StartPrompt
<1> DEFINE n == LeaveOne(r.n)
           which == {i \in DOMAIN ckpts : ~Invalidated(ckpts[i], r.n)}
           K == Kept(ckpts, which)
<1>3. /\ r.n \in Nat /\ n \in Nat /\ n <= r.n /\ r.n <= n + 1
      /\ r.n <= Len(prompt) /\ r.n <= Len(Input)
      /\ \A j \in 1..r.n : prompt[j] = Input[j]
      /\ r.mem \in Memory /\ n <= Len(r.mem.toks)
      /\ n \in {0, Len(r.mem.toks)} \/ r.mem.lo <= Bigger(0, n - NSwa)
      /\ \/ r.from = 0 /\ (r.n = 0 \/ r.mem = mem)
         \/ /\ r.from \in 1..Len(ckpts) /\ r.n = ckpts[r.from].n
            /\ r.mem = ckpts[r.from].state
    BY <1>1, ReuseFacts
<1>4. /\ task \in Tasks /\ prompt \in Seq(Token) /\ Len(prompt) \in Nat
      /\ ckpts \in Seq(Anchor) /\ Within(ckpts) /\ Len(mem.toks) = Len(prompt)
      /\ requests \in 0..MaxRequests /\ staleTail \in BOOLEAN
      /\ Input \in Seq(Token) /\ Len(Input) \in Nat
  <2>1. /\ task \in Tasks /\ prompt \in Seq(Token) /\ Len(prompt) \in Nat
        /\ ckpts \in Seq(Anchor) /\ Within(ckpts) /\ Len(mem.toks) = Len(prompt)
        /\ requests \in 0..MaxRequests /\ staleTail \in BOOLEAN
    BY <1>1, LenProperties, SavedState DEF CkptsInv, SlotOK, MemoryOK, CkptsOK
  <2>2. Input \in Seq(Token) /\ Len(Input) \in Nat
    BY <2>1, Parameters, LenProperties DEF Input
  <2>3. QED
    BY <2>1, <2>2
<1>5. K \in Seq(Anchor) /\ Within(K)
    BY <1>4, KeptWithin
<1>6. Fill(n, r.mem, K, copied)
    BY <1>2
<1> HIDE DEF n, which, K
<1>7. n <= Len(prompt)
    BY <1>3, <1>4
<1>8. /\ slot' \in {"done", "prompt"} /\ batch' \in 1..NBatch
      /\ prompt' \in Seq(Token) /\ mem' \in Memory
      /\ Len(mem'.toks) = n /\ Len(prompt') = n + batch' /\ Len(prompt') <= Len(Input)
      /\ \A j \in 1..n : mem'.toks[j] = r.mem.toks[j] /\ prompt'[j] = prompt[j]
      /\ \A j \in (n + 1)..Len(prompt') : prompt'[j] = Input[j]
      /\ ckpts' \in Seq(Anchor) /\ Within(ckpts')
      /\ (\A j \in 1..n : r.mem.toks[j] = prompt[j]) /\ K \in Seq(Agreeing(prompt'))
             => ckpts' \in Seq(Agreeing(prompt'))
  <2> DEFINE m == r.mem
  <2>1. /\ task \in Tasks /\ prompt \in Seq(Token) /\ n \in Nat /\ n <= Len(prompt)
        /\ m \in Memory /\ n <= Len(m.toks) /\ (n \in {0, Len(m.toks)} \/ m.lo <= Bigger(0, n - NSwa))
        /\ K \in Seq(Anchor) /\ Within(K) /\ copied \in BOOLEAN /\ Fill(n, m, K, copied)
    BY <1>3, <1>4, <1>5, <1>6, <1>7
  <2> HIDE DEF m
  <2>2. /\ slot' \in {"done", "prompt"} /\ batch' \in 1..NBatch
        /\ prompt' \in Seq(Token) /\ mem' \in Memory
        /\ Len(mem'.toks) = n /\ Len(prompt') = n + batch' /\ Len(prompt') <= Len(Input)
        /\ \A j \in 1..n : mem'.toks[j] = m.toks[j] /\ prompt'[j] = prompt[j]
        /\ \A j \in (n + 1)..Len(prompt') : prompt'[j] = Input[j]
        /\ ckpts' \in Seq(Anchor) /\ Within(ckpts')
        /\ (\A j \in 1..n : m.toks[j] = prompt[j]) /\ K \in Seq(Agreeing(prompt'))
               => ckpts' \in Seq(Agreeing(prompt'))
    BY <2>1, FillStep
  <2>3. QED
    BY <2>2 DEF m
<1>9. SlotOK'
  <2>1. staleTail' \in BOOLEAN
    BY <1>2, <1>4, Zenon
  <2>2. task' \in Tasks /\ requests' \in 0..MaxRequests
    BY <1>1, <1>4
  <2>3. QED
    BY <1>8, <2>1, <2>2, Parameters DEF SlotOK
<1>10. MemoryOK'
    BY <1>8 DEF MemoryOK
<1>11. CkptsOK'
    BY <1>8 DEF CkptsOK, Within
<1>12. CachedOK'
    BY <1>1 DEF CkptsInv, CachedOK
<1>13. Exact'
  <2> SUFFICES ASSUME ~staleTail'
               PROVE  /\ \A j \in 1..Len(mem'.toks) : mem'.toks[j] = prompt'[j]
                      /\ ckpts' \in Seq(Agreeing(prompt'))
                      /\ cached' \in Seq(ExactEntry)
    BY DEF Exact, Agreeing
  <2>1. /\ ~staleTail
        /\ ~(r.from # 0 /\ r.mem.toks # SubSeq(Input, 1, r.n) /\ IsPrefix(Front(r.mem.toks), Input))
    BY <1>2
  <2>2. /\ \A j \in 1..Len(mem.toks) : mem.toks[j] = prompt[j]
        /\ ckpts \in Seq(Agreeing(prompt))
        /\ cached \in Seq(ExactEntry)
    BY <2>1 DEF CkptsInv, Exact
  <2>3. \A j \in 1..n : r.mem.toks[j] = prompt[j]
    <3>1. CASE r.from = 0 /\ (r.n = 0 \/ r.mem = mem)
      <4>1. CASE r.n = 0
          BY <1>3, <4>1
      <4>2. CASE r.mem = mem
          BY <1>3, <1>4, <2>2, <4>2
      <4>3. QED
          BY <3>1, <4>1, <4>2
    <3>2. CASE /\ r.from \in 1..Len(ckpts) /\ r.n = ckpts[r.from].n
               /\ r.mem = ckpts[r.from].state
      <4> DEFINE toks == r.mem.toks
                 l == r.n - 1
      <4>1. ckpts[r.from] \in Agreeing(prompt)
          BY <2>2, <3>2, ElementOfSeq
      <4>2. /\ toks \in Seq(Token) /\ Len(toks) = r.n /\ r.n > 0
            /\ \A j \in 1..l : toks[j] = prompt[j]
          BY <3>2, <4>1, SMTT(40) DEF Agreeing, Anchor, Checkpoint, Memory, State, Token
      <4>3. r.from # 0 /\ Len(ckpts) \in Nat
          BY <1>4, <3>2, LenProperties
      <4> HIDE DEF toks
      <4>4. /\ l \in Nat /\ l \in Int /\ 1 \in Int /\ l <= Len(Input) /\ l - 1 + 1 = l
            /\ \A j \in 1..l : /\ toks[j] = Input[j] /\ toks[j] \in Token /\ Input[j] \in Token
                               /\ 1 + j - 1 = j
        <5>1. l \in Nat /\ l \in Int /\ 1 \in Int /\ l <= Len(Input) /\ l - 1 + 1 = l
            BY <1>3, <1>4, <4>2
        <5>2. ASSUME NEW j \in 1..l
              PROVE /\ toks[j] = Input[j] /\ toks[j] \in Token /\ Input[j] \in Token
                    /\ 1 + j - 1 = j
          <6>1. j \in 1..r.n /\ j \in 1..Len(toks) /\ j \in 1..Len(Input)
              BY <1>3, <1>4, <4>2
          <6>2. QED
              BY <1>3, <1>4, <4>2, <6>1, ElementOfSeq
        <5>3. QED
            BY <5>1, <5>2
      <4> DEFINE f == SubSeq(toks, 1, l)
                 g == SubSeq(Input, 1, l)
      <4>5. /\ f \in Seq(Token) /\ Len(f) = IF 1 <= l THEN l - 1 + 1 ELSE 0
            /\ \A j \in 1..(l - 1 + 1) : f[j] = toks[1 + j - 1]
        <5> HIDE DEF l
        <5>1. QED
            BY <4>4, SubSeqProperties
      <4>6. /\ g \in Seq(Token) /\ Len(g) = IF 1 <= l THEN l - 1 + 1 ELSE 0
            /\ \A j \in 1..(l - 1 + 1) : g[j] = Input[1 + j - 1]
        <5> HIDE DEF l
        <5>1. QED
            BY <4>4, SubSeqProperties
      <4> HIDE DEF f, g
      <4>7. Len(f) = l /\ Len(g) = l /\ \A j \in 1..l : f[j] = g[j]
        <5> HIDE DEF l
        <5>1. QED
            BY <4>4, <4>5, <4>6
      <4>8. f = g
        <5> HIDE DEF l
        <5>1. QED
            BY <4>5, <4>6, <4>7, SeqEqual
      <4>9. Front(toks) = f
          BY <4>2 DEF Front, f
      <4>10. SubSeq(f, 1, Len(f)) = f
          BY <4>5, SubSeqFull
      <4>11. IsPrefix(Front(toks), Input)
          BY <4>4, <4>7, <4>8, <4>9, <4>10 DEF IsPrefix, g
      <4>12. toks = SubSeq(Input, 1, r.n)
          BY <2>1, <4>3, <4>11 DEF toks
      <4>13. ASSUME NEW j \in 1..r.n PROVE toks[j] = Input[j]
        <5>1. /\ 1 \in Int /\ r.n \in Int /\ r.n - 1 + 1 = r.n /\ 1 + j - 1 = j
              /\ \A k \in 1..r.n : Input[k] \in Token
            BY <1>3, <1>4, ElementOfSeq
        <5>2. \A k \in 1..(r.n - 1 + 1) : SubSeq(Input, 1, r.n)[k] = Input[1 + k - 1]
            BY <5>1, SubSeqProperties
        <5>3. QED
            BY <4>12, <5>1, <5>2
      <4>14. QED
          BY <1>3, <4>13, SMTT(30) DEF toks
    <3>3. QED
        BY <1>3, <3>1, <3>2
  <2>4. K \in Seq(Agreeing(prompt'))
    <3>1. PICK e : Embeds(e, K, ckpts) /\ \A i \in 1..Len(K) : e[i] \in which /\ K[i] = ckpts[e[i]]
        BY <1>4, KeptEmbedded DEF K
    <3>2. ASSUME NEW i \in 1..Len(K) PROVE K[i] \in Agreeing(prompt')
      <4> DEFINE k == K[i]
      <4>1. e[i] \in 1..Len(ckpts) /\ k = ckpts[e[i]] /\ ~(k.posMax > r.n)
        <5>1. e[i] \in 1..Len(ckpts) /\ e[i] \in which /\ k = ckpts[e[i]]
            BY <3>1 DEF Embeds
        <5>2. QED
            BY <5>1 DEF which, Invalidated
      <4>2. k \in Agreeing(prompt)
          BY <2>2, <4>1, ElementOfSeq
      <4>3. /\ k \in Anchor /\ k.n \in Nat /\ k.posMax = k.n - 1 /\ k.n - 1 <= Len(prompt)
            /\ \A j \in 1..(k.n - 1) : k.state.toks[j] = prompt[j]
          BY <4>2 DEF Agreeing, Anchor, Checkpoint
      <4> HIDE DEF k
      <4>4. k.n - 1 <= r.n
          BY <1>3, <4>1, <4>3, SMTT(40)
      <4>5. n + 1 <= Len(prompt')
          BY <1>3, <1>8
      <4>6. k.n - 1 <= Len(prompt')
          BY <1>3, <1>8, <4>3, <4>4, SMTT(40)
      <4>7. ASSUME NEW j \in 1..(k.n - 1) PROVE k.state.toks[j] = prompt'[j]
        <5>1. j \in 1..r.n /\ j \in 1..Len(prompt')
          <6>1. /\ j \in Int /\ 1 <= j /\ j <= k.n - 1
                /\ k.n \in Int /\ r.n \in Int /\ Len(prompt') \in Int
              BY <1>3, <1>8, <4>3, SMTT(40)
          <6> DEFINE w == Len(prompt')
                     v == r.n
                     u == k.n
          <6> HIDE DEF u, v, w
          <6>2. u \in Int /\ v \in Int /\ w \in Int /\ j <= u - 1 /\ u - 1 <= v /\ u - 1 <= w
              BY <4>4, <4>6, <6>1 DEF u, v, w
          <6>3. j \in 1..v /\ j \in 1..w
              BY <6>1, <6>2
          <6>4. QED
              BY <6>3 DEF v, w
        <5>2. CASE j \in 1..n
            BY <1>8, <4>3, <5>2
        <5>3. CASE j \in (n + 1)..Len(prompt')
            BY <1>3, <1>8, <4>3, <5>1, <5>3
        <5>4. QED
            BY <1>3, <5>1, <5>2, <5>3
      <4>8. QED
          BY <4>3, <4>6, <4>7 DEF Agreeing, k
    <3>3. QED
        BY <1>5, <3>2, Retyped
  <2>5. ckpts' \in Seq(Agreeing(prompt'))
    BY <1>8, <2>3, <2>4
  <2>6. \A j \in 1..Len(mem'.toks) : mem'.toks[j] = prompt'[j]
    BY <1>8, <2>3
  <2>7. QED
    BY <1>1, <2>2, <2>5, <2>6
<1>14. QED
    BY <1>9, <1>10, <1>11, <1>12, <1>13 DEF CkptsInv

(* pre_decode of a slot whose prompt is not finished.                      *)
LEMMA ContinueKeeps ==
    ASSUME CkptsInv, NEW copied \in BOOLEAN, ContinuePrompt(copied)
    PROVE  CkptsInv'
<1>1. /\ slot = "prompt" /\ batch = 0 /\ Fill(Len(prompt), mem, ckpts, copied)
      /\ UNCHANGED <<task, cached, requests, staleTail>>
    BY DEF ContinuePrompt
<1> DEFINE n == Len(prompt)
<1>2. /\ task \in Tasks /\ prompt \in Seq(Token) /\ n \in Nat /\ mem \in Memory
      /\ ckpts \in Seq(Anchor) /\ Within(ckpts) /\ Len(mem.toks) = n
      /\ requests \in 0..MaxRequests /\ staleTail \in BOOLEAN
    BY <1>1, LenProperties, SavedState DEF CkptsInv, SlotOK, MemoryOK, CkptsOK
<1>3. /\ n <= Len(prompt) /\ n <= Len(mem.toks)
      /\ n \in {0, Len(mem.toks)} \/ mem.lo <= Bigger(0, n - NSwa)
    BY <1>2
<1>4. /\ slot' \in {"done", "prompt"} /\ batch' \in 1..NBatch
      /\ prompt' \in Seq(Token) /\ mem' \in Memory
      /\ Len(mem'.toks) = n /\ Len(prompt') = n + batch'
      /\ \A j \in 1..n : mem'.toks[j] = mem.toks[j] /\ prompt'[j] = prompt[j]
      /\ ckpts' \in Seq(Anchor) /\ Within(ckpts')
      /\ (\A j \in 1..n : mem.toks[j] = prompt[j]) /\ ckpts \in Seq(Agreeing(prompt'))
             => ckpts' \in Seq(Agreeing(prompt'))
  <2> HIDE DEF n
  <2>1. Fill(n, mem, ckpts, copied)
    BY <1>1 DEF n
  <2>2. QED
    BY <1>2, <1>3, <2>1, FillStep
<1> HIDE DEF n
<1>5. SlotOK'
  <2>1. task' \in Tasks /\ requests' \in 0..MaxRequests /\ staleTail' \in BOOLEAN
    BY <1>1, <1>2
  <2>2. QED
    BY <1>4, <2>1, Parameters DEF SlotOK
<1>6. MemoryOK'
    BY <1>4 DEF MemoryOK
<1>7. CkptsOK'
    BY <1>4 DEF CkptsOK, Within
<1>8. CachedOK'
    BY <1>1 DEF CkptsInv, CachedOK
<1>9. Exact'
  <2> SUFFICES ASSUME ~staleTail'
               PROVE  /\ \A j \in 1..Len(mem'.toks) : mem'.toks[j] = prompt'[j]
                      /\ ckpts' \in Seq(Agreeing(prompt'))
                      /\ cached' \in Seq(ExactEntry)
    BY DEF Exact, Agreeing
  <2>1. /\ \A j \in 1..n : mem.toks[j] = prompt[j]
        /\ ckpts \in Seq(Agreeing(prompt))
        /\ cached \in Seq(ExactEntry)
    BY <1>1, <1>2 DEF CkptsInv, Exact
  <2>2. ASSUME NEW i \in 1..Len(ckpts) PROVE ckpts[i] \in Agreeing(prompt')
    <3> DEFINE k == ckpts[i]
    <3>1. k \in Agreeing(prompt)
        BY <2>1, ElementOfSeq
    <3>2. /\ k \in Anchor /\ k.n \in Nat /\ k.n - 1 <= n
          /\ \A j \in 1..(k.n - 1) : k.state.toks[j] = prompt[j]
        BY <3>1 DEF Agreeing, Anchor, Checkpoint, n
    <3> HIDE DEF k
    <3>3. k.n - 1 <= Len(prompt') /\ \A j \in 1..(k.n - 1) : j \in 1..n
        BY <1>2, <1>4, <3>2, Parameters, SMTT(40)
    <3>4. \A j \in 1..(k.n - 1) : k.state.toks[j] = prompt'[j]
        BY <1>4, <3>2, <3>3
    <3>5. QED
        BY <3>2, <3>3, <3>4 DEF Agreeing, k
  <2>3. ckpts \in Seq(Agreeing(prompt'))
    BY <1>2, <2>2, Retyped
  <2>4. QED
    BY <1>1, <1>4, <2>1, <2>3
<1>10. QED
    BY <1>5, <1>6, <1>7, <1>8, <1>9 DEF CkptsInv

(* A slot whose prompt was cleared.                                        *)
LEMMA Cleared ==
    /\ Empty \in Memory /\ Len(Empty.toks) = 0 /\ Len(<<>>) = 0 /\ Within(<<>>)
    /\ \A S : <<>> \in Seq(S)
<1>1. Len(<<>>) = 0 /\ \A S : <<>> \in Seq(S)
    BY EmptySeq
<1>2. Empty \in Memory /\ Len(Empty.toks) = 0
    BY <1>1, Parameters DEF Memory, State, Empty, Bigger
<1>3. Within(<<>>)
    BY <1>1, TotalEmpty, Parameters DEF Within
<1>4. QED
    BY <1>1, <1>2, <1>3

LEMMA ClearKeeps ==
    ASSUME CkptsInv, PromptClear, slot' \in {"idle", "started"}, batch' = 0,
           slot' = "started" => task' \in Tasks,
           requests' \in 0..MaxRequests, staleTail' = staleTail,
           cached' \in Seq(Entry), CacheSize(cached') <= CacheBytes,
           ~staleTail => cached' \in Seq(ExactEntry)
    PROVE  CkptsInv'
<1>1. prompt' = <<>> /\ mem' = Empty /\ ckpts' = <<>>
    BY DEF PromptClear
<1>2. SlotOK'
  <2>1. staleTail' \in BOOLEAN
    BY DEF CkptsInv, SlotOK
  <2>2. QED
    BY <2>1, Parameters DEF SlotOK
<1>3. MemoryOK'
    BY <1>1, Cleared DEF MemoryOK
<1>4. CkptsOK'
    BY <1>1, Cleared DEF CkptsOK, Within
<1>5. CachedOK'
    BY DEF CachedOK
<1>6. Exact'
  <2>1. ckpts' \in Seq(Agreeing(prompt'))
    BY <1>1, Cleared
  <2>2. \A j \in 1..Len(mem'.toks) : mem'.toks[j] = prompt'[j]
    BY <1>1, Cleared
  <2>3. QED
    BY <2>1, <2>2 DEF Exact, Agreeing
<1>7. QED
    BY <1>2, <1>3, <1>4, <1>5, <1>6 DEF CkptsInv

(* get_available_slot and launch_slot_with_task.                           *)
LEMMA LaunchKeeps ==
    ASSUME CkptsInv, NEW t \in Tasks, NEW restored \in BOOLEAN, Launch(t, restored)
    PROVE  CkptsInv'
<1> DEFINE saved == CacheSave(cached)
           i == BestEntry(saved, t.tokens)
           new == [tokens |-> prompt, ckpts |-> ckpts, state |-> Saved(mem)]
<1>1. /\ slot = "idle" /\ requests < MaxRequests
      /\ slot' = "started" /\ task' = t /\ requests' = requests + 1
      /\ UNCHANGED <<batch, staleTail>>
      /\ \/ UNCHANGED <<prompt, mem, ckpts, cached>>
         \/ cached' = saved /\ UNCHANGED <<prompt, mem, ckpts>>
         \/ /\ i # 0
            /\ prompt' = saved[i].tokens /\ mem' = saved[i].state
            /\ ckpts' = saved[i].ckpts /\ cached' = RemoveAt(saved, i)
         \/ PromptClear /\ cached' = saved
    BY DEF Launch
<1>2. /\ batch = 0 /\ requests \in Nat /\ staleTail \in BOOLEAN
      /\ prompt \in Seq(Token) /\ mem \in Memory /\ Len(mem.toks) = Len(prompt)
      /\ ckpts \in Seq(Anchor) /\ Within(ckpts)
      /\ cached \in Seq(Entry) /\ CacheSize(cached) <= CacheBytes
    BY <1>1, SavedState, Parameters DEF CkptsInv, SlotOK, MemoryOK, CkptsOK, CachedOK
<1>3. /\ ~staleTail => /\ \A j \in 1..Len(mem.toks) : mem.toks[j] = prompt[j]
                       /\ ckpts \in Seq(Agreeing(prompt))
                       /\ cached \in Seq(ExactEntry)
    BY DEF CkptsInv, Exact
<1>4. new \in Entry
  <2>1. Saved(mem) \in Memory /\ Saved(mem).toks = mem.toks
    BY <1>2, SavedState
  <2>2. QED
    BY <1>2, <2>1 DEF Entry
<1>5. ~staleTail => new \in ExactEntry
  <2>1. Saved(mem).toks = mem.toks
    BY <1>2, SavedState
  <2>2. QED
    BY <1>2, <1>3, <1>4, <2>1 DEF ExactEntry
<1>6. saved \in Seq(Entry) /\ CacheSize(saved) <= CacheBytes
  <2>1. Entry \in SUBSET Entry
    OBVIOUS
  <2>2. QED
    BY <1>2, <1>4, <2>1, CacheSaveKeeps
<1>7. ExactEntry \in SUBSET Entry
    BY DEF ExactEntry
<1>8. ~staleTail => saved \in Seq(ExactEntry)
    BY <1>2, <1>3, <1>5, <1>7, CacheSaveKeeps
<1>9. requests' \in 0..MaxRequests /\ staleTail' = staleTail /\ batch' = 0 /\ slot' = "started"
      /\ task' \in Tasks
    BY <1>1, <1>2, Parameters
<1>10. t.tokens \in Seq(Token)
    BY Parameters
<1>11. i \in 0..Len(saved)
  <2> HIDE DEF saved
  <2>1. QED
    BY <1>2, <1>6, <1>10, BestEntryPlace
<1>12. SlotOK'
    BY <1>2, <1>9, Parameters DEF SlotOK
<1> HIDE DEF saved, i, new
<1>13. CASE UNCHANGED <<prompt, mem, ckpts>> /\ cached' \in {cached, saved}
  <2>1. cached' \in Seq(Entry) /\ CacheSize(cached') <= CacheBytes
    BY <1>2, <1>6, <1>13
  <2>2. ~staleTail => cached' \in Seq(ExactEntry)
    BY <1>3, <1>8, <1>13
  <2>3. MemoryOK' /\ CkptsOK'
    BY <1>2, <1>9, <1>13 DEF CkptsInv, MemoryOK, CkptsOK, Within
  <2>4. Exact'
    BY <1>3, <1>9, <1>13, <2>2 DEF Exact, Agreeing
  <2>5. QED
    BY <1>12, <2>1, <2>3, <2>4 DEF CkptsInv, CachedOK
<1>14. CASE PromptClear /\ cached' = saved
    BY <1>6, <1>8, <1>9, <1>14, ClearKeeps
<1>15. CASE /\ i # 0
            /\ prompt' = saved[i].tokens /\ mem' = saved[i].state
            /\ ckpts' = saved[i].ckpts /\ cached' = RemoveAt(saved, i)
  <2>1. i \in 1..Len(saved)
    BY <1>6, <1>11, <1>15, LenProperties
  <2>2. saved[i] \in Entry /\ (~staleTail => saved[i] \in ExactEntry)
    BY <1>6, <1>8, <2>1, ElementOfSeq
  <2>3. /\ prompt' \in Seq(Token) /\ mem' \in Memory /\ Len(mem'.toks) = Len(prompt')
        /\ ckpts' \in Seq(Anchor) /\ Within(ckpts')
    BY <1>15, <2>2 DEF Entry, Within
  <2>4. Len(prompt') + 0 = Len(prompt')
    BY <2>3, LenProperties
  <2>5. MemoryOK' /\ CkptsOK'
    BY <1>9, <2>3, <2>4 DEF MemoryOK, CkptsOK, Within
  <2>6. CachedOK'
    <3>1. Entry \in SUBSET Entry
        OBVIOUS
    <3>2. /\ RemoveAt(saved, i) \in Seq(Entry)
          /\ CacheSize(RemoveAt(saved, i)) \in Nat /\ CacheSize(saved) \in Nat
          /\ CacheSize(RemoveAt(saved, i)) <= CacheSize(saved)
        BY <1>6, <2>1, <3>1, RemovedAt
    <3>3. CacheSize(RemoveAt(saved, i)) <= CacheBytes
        BY <1>6, <3>2, Parameters
    <3>4. QED
        BY <1>15, <3>2, <3>3 DEF CachedOK
  <2>7. Exact'
    <3> SUFFICES ASSUME ~staleTail'
                 PROVE  /\ \A j \in 1..Len(mem'.toks) : mem'.toks[j] = prompt'[j]
                        /\ ckpts' \in Seq(Agreeing(prompt'))
                        /\ cached' \in Seq(ExactEntry)
        BY DEF Exact, Agreeing
    <3>1. saved[i] \in ExactEntry /\ saved \in Seq(ExactEntry)
        BY <1>8, <1>9, <2>2
    <3>2. cached' \in Seq(ExactEntry)
        BY <1>7, <1>15, <2>1, <3>1, RemovedAt
    <3>3. /\ \A j \in 1..Len(prompt') : mem'.toks[j] = prompt'[j]
          /\ ckpts' \in Seq(Agreeing(prompt'))
        BY <1>15, <3>1 DEF ExactEntry
    <3>4. QED
        BY <2>3, <3>2, <3>3
  <2>8. QED
    BY <1>12, <2>5, <2>6, <2>7 DEF CkptsInv
<1>16. QED
    BY <1>1, <1>13, <1>14, <1>15

(* pre_decode of a generating slot.                                        *)
LEMMA GenerateKeeps ==
    ASSUME CkptsInv, NEW w \in Sampled, Generate(w)
    PROVE  CkptsInv'
<1>1. /\ slot = "generating" /\ batch = 0 /\ prompt' = Append(prompt, w) /\ batch' = 1
      /\ UNCHANGED <<slot, task, mem, ckpts, cached, requests, staleTail>>
    BY DEF Generate
<1>2. prompt \in Seq(Token) /\ w \in Token /\ Len(prompt) \in Nat /\ Len(mem.toks) = Len(prompt)
  <2>1. prompt \in Seq(Token) /\ w \in Token /\ mem \in Memory /\ Len(mem.toks) + 0 = Len(prompt)
    BY <1>1, CheckpointsAssumption DEF CkptsInv, MemoryOK, Token
  <2>2. QED
    BY <2>1, SavedState, LenProperties
<1>3. /\ prompt' \in Seq(Token) /\ Len(prompt') = Len(prompt) + 1
      /\ \A j \in 1..Len(prompt) : prompt'[j] = prompt[j]
    BY <1>1, <1>2, AppendProperties
<1>4. SlotOK'
    BY <1>1, Parameters DEF CkptsInv, SlotOK
<1>5. MemoryOK'
    BY <1>1, <1>2, <1>3 DEF CkptsInv, MemoryOK
<1>6. CkptsOK' /\ CachedOK'
    BY <1>1 DEF CkptsInv, CkptsOK, CachedOK, Within
<1>7. Exact'
  <2> SUFFICES ASSUME ~staleTail'
               PROVE  /\ \A j \in 1..Len(mem'.toks) : mem'.toks[j] = prompt'[j]
                      /\ ckpts' \in Seq(Agreeing(prompt'))
                      /\ cached' \in Seq(ExactEntry)
    BY DEF Exact, Agreeing
  <2>1. /\ \A j \in 1..Len(mem.toks) : mem.toks[j] = prompt[j]
        /\ ckpts \in Seq(Agreeing(prompt)) /\ cached \in Seq(ExactEntry)
    BY <1>1 DEF CkptsInv, Exact
  <2>2. ASSUME NEW i \in 1..Len(ckpts) PROVE ckpts[i] \in Agreeing(prompt')
    <3> DEFINE k == ckpts[i]
    <3>1. k \in Agreeing(prompt)
        BY <2>1, ElementOfSeq
    <3>2. /\ k \in Anchor /\ k.n \in Nat /\ k.n - 1 <= Len(prompt)
          /\ \A j \in 1..(k.n - 1) : k.state.toks[j] = prompt[j]
        BY <3>1 DEF Agreeing, Anchor, Checkpoint
    <3> HIDE DEF k
    <3>3. k.n - 1 <= Len(prompt') /\ \A j \in 1..(k.n - 1) : j \in 1..Len(prompt)
        BY <1>2, <1>3, <3>2
    <3>4. \A j \in 1..(k.n - 1) : k.state.toks[j] = prompt'[j]
        BY <1>3, <3>2, <3>3
    <3>5. QED
        BY <3>2, <3>3, <3>4 DEF Agreeing, k
  <2>3. ckpts \in Seq(Agreeing(prompt'))
    BY <2>1, <2>2, Retyped
  <2>4. \A j \in 1..Len(mem.toks) : mem.toks[j] = prompt'[j]
    BY <1>2, <1>3, <2>1
  <2>5. QED
    BY <1>1, <2>1, <2>3, <2>4
<1>8. QED
    BY <1>4, <1>5, <1>6, <1>7 DEF CkptsInv

(* llama_decode and post_decode.                                           *)
LEMMA DecodeKeeps ==
    ASSUME CkptsInv, Decode
    PROVE  CkptsInv'
<1> DEFINE q == SubSeq(prompt, Len(prompt) - batch + 1, Len(prompt))
           toks == mem.toks \o q
           masked == Len(toks) - ((batch - 1) % NUbatch) - NSwa
           n == Len(prompt)
           l == Len(mem.toks)
<1>1. /\ batch > 0 /\ batch' = 0
      /\ slot' \in {"prompt", "generating", "idle"}
      /\ UNCHANGED <<task, prompt, ckpts, cached, requests, staleTail>>
    BY DEF Decode
<1>2. PICK lo \in mem.lo..Bigger(mem.lo, masked) : mem' = [toks |-> toks, lo |-> lo]
    BY DEF Decode
<1>3. /\ slot \in {"prompt", "done", "generating"} /\ task \in Tasks
      /\ batch \in Nat /\ batch \in 1..NBatch /\ prompt \in Seq(Token) /\ mem \in Memory
      /\ l + batch = n
    BY <1>1, Parameters DEF CkptsInv, SlotOK, MemoryOK
<1>4. /\ n \in Nat /\ l \in Nat /\ mem.toks \in Seq(Token) /\ mem.lo \in Nat
      /\ mem.lo <= Bigger(0, l - NSwa)
    BY <1>3, LenProperties DEF Memory, State, Token
<1>5. q \in Seq(Token) /\ Len(q) = batch /\ \A j \in 1..batch : q[j] = prompt[l + j]
  <2> HIDE DEF n, l
  <2>1. n - batch + 1 \in Int /\ n \in Int /\ \A j \in (n - batch + 1)..n : prompt[j] \in Token
    <3>1. \A j \in (n - batch + 1)..n : j \in 1..n
        BY <1>3, <1>4
    <3>2. \A j \in 1..n : prompt[j] \in Token
        BY <1>3, ElementOfSeq DEF n
    <3>3. QED
        BY <1>3, <1>4, <3>1, <3>2
  <2> DEFINE a == n - batch + 1
  <2>2. a \in Int /\ n \in Int /\ (\A j \in a..n : prompt[j] \in Token) /\ q = SubSeq(prompt, a, n)
    BY <2>1 DEF n
  <2> HIDE DEF a, q
  <2>3. /\ SubSeq(prompt, a, n) \in Seq(Token)
        /\ Len(SubSeq(prompt, a, n)) = IF a <= n THEN n - a + 1 ELSE 0
        /\ \A j \in 1..(n - a + 1) : SubSeq(prompt, a, n)[j] = prompt[a + j - 1]
    BY <2>2, SubSeqProperties
  <2>4. a <= n /\ n - a + 1 = batch /\ \A j \in 1..batch : a + j - 1 = l + j
    BY <1>3, <1>4 DEF a
  <2>5. QED
    BY <2>2, <2>3, <2>4
<1> HIDE DEF q, n, l
<1>6. /\ toks \in Seq(Token) /\ Len(toks) = l + Len(q)
      /\ \A j \in 1..(l + Len(q)) : toks[j] = IF j <= l THEN mem.toks[j] ELSE q[j - l]
    BY <1>4, <1>5, ConcatProperties DEF l
<1> HIDE DEF toks
<1>7. Len(toks) = n
    BY <1>3, <1>5, <1>6
<1>8. lo \in Nat /\ lo <= Bigger(0, n - NSwa)
  <2> DEFINE rest == (batch - 1) % NUbatch
  <2>1. rest \in Nat
    <3>1. batch - 1 \in Int /\ NUbatch \in Nat \ {0}
        BY <1>3, Parameters
    <3>2. QED
        BY <3>1
  <2> HIDE DEF rest
  <2>2. masked \in Int /\ masked <= n - NSwa
    <3>1. masked = n - rest - NSwa
        BY <1>7 DEF rest
    <3>2. QED
        BY <1>4, <2>1, <3>1, Parameters
  <2> HIDE DEF masked
  <2>3. lo \in Int /\ mem.lo <= lo /\ lo <= Bigger(mem.lo, masked)
    BY <1>2, <1>4, <2>2 DEF Bigger
  <2>4. Bigger(0, l - NSwa) <= Bigger(0, n - NSwa) /\ mem.lo <= Bigger(0, n - NSwa)
    BY <1>3, <1>4, Parameters DEF Bigger
  <2>5. masked <= Bigger(0, n - NSwa)
    BY <1>4, <2>2, Parameters DEF Bigger
  <2>6. lo <= mem.lo \/ lo <= masked
    BY <2>3 DEF Bigger
  <2>7. Bigger(0, n - NSwa) \in Int
    BY <1>4, Parameters DEF Bigger
  <2>8. QED
    BY <1>4, <2>2, <2>3, <2>4, <2>5, <2>6, <2>7
<1>9. mem'.toks = toks /\ mem'.lo = lo /\ mem' \in Memory
  <2>1. mem'.toks = toks /\ mem'.lo = lo
    BY <1>2
  <2>2. mem' \in State
    BY <1>2, <1>6, <1>8 DEF State, Token
  <2>3. QED
    BY <1>7, <1>8, <2>1, <2>2 DEF Memory
<1>10. SlotOK'
    BY <1>1, <1>3, Parameters DEF CkptsInv, SlotOK
<1>11. MemoryOK'
  <2>1. Len(mem'.toks) + 0 = Len(prompt)
    BY <1>4, <1>7, <1>9 DEF n
  <2>2. QED
    BY <1>1, <1>3, <1>9, <2>1 DEF MemoryOK
<1>12. CkptsOK' /\ CachedOK'
    BY <1>1 DEF CkptsInv, CkptsOK, CachedOK, Within
<1>13. Exact'
  <2> SUFFICES ASSUME ~staleTail'
               PROVE  /\ \A j \in 1..Len(mem'.toks) : mem'.toks[j] = prompt'[j]
                      /\ ckpts' \in Seq(Agreeing(prompt'))
                      /\ cached' \in Seq(ExactEntry)
    BY DEF Exact, Agreeing
  <2>1. /\ \A j \in 1..l : mem.toks[j] = prompt[j]
        /\ ckpts \in Seq(Agreeing(prompt)) /\ cached \in Seq(ExactEntry)
    BY <1>1 DEF CkptsInv, Exact, l
  <2>2. ASSUME NEW j \in 1..n PROVE toks[j] = prompt[j]
    <3>1. j \in 1..(l + Len(q))
        BY <1>3, <1>5
    <3>2. CASE j <= l
        BY <1>4, <1>6, <2>1, <3>1, <3>2
    <3>3. CASE ~(j <= l)
      <4>1. j - l \in 1..batch /\ l + (j - l) = j
          BY <1>3, <1>4, <3>3
      <4>2. toks[j] = q[j - l]
          BY <1>6, <3>1, <3>3
      <4>3. QED
          BY <1>5, <4>1, <4>2
    <3>4. QED
        BY <3>2, <3>3
  <2>3. QED
    BY <1>1, <1>7, <1>9, <2>1, <2>2
<1>14. QED
    BY <1>10, <1>11, <1>12, <1>13 DEF CkptsInv

-----------------------------------------------------------------------------
(* The invariant holds, and what follows from it.                          *)
LEMMA CkptsInitially == CkptsInit => CkptsInv
<1> SUFFICES ASSUME CkptsInit PROVE CkptsInv
    OBVIOUS
<1>1. SlotOK
  <2>1. slot = "idle" /\ batch = 0 /\ requests = 0
    BY DEF CkptsInit
  <2>2. staleTail \in BOOLEAN
    BY Zenon DEF CkptsInit
  <2>3. 0 \in 0..NBatch /\ 0 \in 0..MaxRequests
    BY Parameters
  <2>4. QED
    BY <2>1, <2>2, <2>3 DEF SlotOK
<1>2. MemoryOK
    BY Cleared DEF CkptsInit, MemoryOK
<1>3. CkptsOK
    BY Cleared DEF CkptsInit, CkptsOK
<1>4. CachedOK
    BY Cleared, CacheEmpty, Parameters DEF CkptsInit, CachedOK
<1>5. Exact
  <2>1. /\ ckpts = <<>> /\ cached = <<>> /\ mem = Empty
    BY DEF CkptsInit
  <2>2. ckpts \in Seq(Agreeing(prompt)) /\ cached \in Seq(ExactEntry) /\ Len(mem.toks) = 0
    BY <2>1, Cleared
  <2>3. QED
    BY <2>2 DEF Exact
<1>6. QED
    BY <1>1, <1>2, <1>3, <1>4, <1>5 DEF CkptsInv

LEMMA CkptsInductive == CkptsInv /\ [CkptsNext]_vars => CkptsInv'
<1> SUFFICES ASSUME CkptsInv, [CkptsNext]_vars PROVE CkptsInv'
    OBVIOUS
<1>1. ASSUME NEW t \in Tasks, NEW restored \in BOOLEAN, Launch(t, restored) PROVE CkptsInv'
    BY <1>1, LaunchKeeps
<1>2. ASSUME NEW copied \in BOOLEAN, StartPrompt(copied) PROVE CkptsInv'
    BY <1>2, StartKeeps
<1>3. ASSUME NEW copied \in BOOLEAN, ContinuePrompt(copied) PROVE CkptsInv'
    BY <1>3, ContinueKeeps
<1>4. ASSUME NEW w \in Sampled, Generate(w) PROVE CkptsInv'
    BY <1>4, GenerateKeeps
<1>5. CASE Decode
    BY <1>5, DecodeKeeps
<1>6. CASE DecodeFails \/ Erase
  <2>1. /\ PromptClear /\ slot' = "idle" /\ batch' = 0
        /\ UNCHANGED <<task, cached, requests, staleTail>>
    BY <1>6, Parameters DEF DecodeFails, Erase, CkptsInv, SlotOK
  <2>2. /\ requests' \in 0..MaxRequests /\ cached' \in Seq(Entry)
        /\ CacheSize(cached') <= CacheBytes /\ (~staleTail => cached' \in Seq(ExactEntry))
    BY <2>1 DEF CkptsInv, SlotOK, CachedOK, Exact
  <2>3. QED
    BY <2>1, <2>2, ClearKeeps
<1>7. CASE Cancel \/ UNCHANGED vars
  <2>1. UNCHANGED <<prompt, mem, ckpts, cached, staleTail>> /\ batch' = batch
    BY <1>7 DEF Cancel, vars
  <2>2. MemoryOK' /\ CkptsOK' /\ CachedOK' /\ Exact'
    BY <2>1 DEF CkptsInv, MemoryOK, CkptsOK, CachedOK, Exact, Within, Agreeing
  <2>3. SlotOK'
    BY <1>7 DEF CkptsInv, SlotOK, Cancel, vars
  <2>4. QED
    BY <2>2, <2>3 DEF CkptsInv
<1>8. QED
    BY <1>1, <1>2, <1>3, <1>4, <1>5, <1>6, <1>7 DEF CkptsNext, PreDecode

LEMMA CkptsInvariant == CkptsSpec => []CkptsInv
    BY CkptsInitially, CkptsInductive, PTL DEF CkptsSpec

(* Whatever is launched, restored, decoded or failed, the slot, its        *)
(* memory, its checkpoints and those of the prompt cache keep their types  *)
(* (server-context.cpp 2240-2330, server-task.cpp 1674-1833).              *)
THEOREM CkptsTypeCorrect == CkptsSpec => []CkptsTypeOK
<1>1. CkptsInv => CkptsTypeOK
  <2> SUFFICES ASSUME CkptsInv PROVE CkptsTypeOK
    OBVIOUS
  <2>1. /\ slot \in {"idle", "started", "prompt", "done", "generating"}
        /\ batch \in 0..NBatch /\ requests \in 0..MaxRequests
    BY DEF CkptsInv, SlotOK
  <2>2. prompt \in Seq(Word \cup {Header}) /\ mem \in Memory /\ mem \in State
    BY DEF CkptsInv, MemoryOK, Memory, Token
  <2>3. mem.lo <= Len(mem.toks)
    BY <2>2, SavedState
  <2>4. Anchor \subseteq Checkpoint
    BY DEF Anchor
  <2>5. ckpts \in Seq(Checkpoint)
    BY <2>4, SeqMonotonic DEF CkptsInv, CkptsOK
  <2>6. ASSUME NEW i \in DOMAIN cached PROVE cached[i].ckpts \in Seq(Checkpoint)
    <3>1. cached \in Seq(Entry)
        BY DEF CkptsInv, CachedOK
    <3>2. cached[i] \in Entry
        BY <3>1, ElementOfSeq, LenProperties
    <3>3. cached[i].ckpts \in Seq(Anchor)
        BY <3>2 DEF Entry
    <3>4. QED
        BY <2>4, <3>3, SeqMonotonic
  <2>7. QED
    BY <2>1, <2>2, <2>3, <2>5, <2>6 DEF CkptsTypeOK
<1>2. QED
    BY <1>1, CkptsInvariant, PTL

(* Neither the checkpoints of a slot nor the prompt cache ever outgrow     *)
(* their limits, whatever the sizes and whichever copies fail              *)
(* (server-context.cpp 2265-2273, server-task.cpp 1733-1759).              *)
THEOREM BudgetsNeverExceeded == CkptsSpec => []BudgetsHeld
<1>1. CkptsInv => BudgetsHeld
    BY DEF CkptsInv, CkptsOK, CachedOK, Within, BudgetsHeld
<1>2. QED
    BY <1>1, CkptsInvariant, PTL

(* No token is evaluated with part of its attention window missing, for    *)
(* every window, micro-batch and place of the checkpoints                  *)
(* (server-context.cpp 3255, 3307).                                        *)
THEOREM WindowsComplete == CkptsSpec => []WindowComplete
<1>1. CkptsInv => WindowComplete
  <2> SUFFICES ASSUME CkptsInv PROVE WindowComplete
    OBVIOUS
  <2>1. mem \in Memory
    BY DEF CkptsInv, MemoryOK
  <2>2. /\ mem.lo \in Nat /\ Len(mem.toks) \in Nat
        /\ mem.lo <= Bigger(0, Len(mem.toks) - NSwa)
    BY <2>1, SavedState DEF Memory
  <2>3. mem.lo <= Bigger(0, Len(mem.toks) - NSwa + 1)
    BY <2>2, Parameters DEF Bigger
  <2>4. QED
    BY <2>3 DEF WindowComplete
<1>2. QED
    BY <1>1, CkptsInvariant, PTL

(* The abort that "should not happen" (server-context.cpp 3261) does not:  *)
(* a prompt that shares tokens with the last one finds their window.       *)
THEOREM NeverAborts == CkptsSpec => []NoAbort
<1>1. CkptsInv => NoAbort
  <2> SUFFICES ASSUME CkptsInv, slot = "started", Common(prompt, Input) > 0
               PROVE  PosMin(mem) # -1
    BY DEF NoAbort
  <2>1. /\ task \in Tasks /\ prompt \in Seq(Token) /\ mem \in Memory
        /\ Len(mem.toks) = Len(prompt)
    <3>1. batch = 0 /\ mem \in Memory /\ Len(mem.toks) + batch = Len(prompt)
        BY Parameters DEF CkptsInv, SlotOK, MemoryOK
    <3>2. Len(mem.toks) \in Nat
        BY <3>1, SavedState
    <3>3. QED
        BY <3>1, <3>2 DEF CkptsInv, SlotOK, MemoryOK
  <2>2. Input \in Seq(Token)
    BY <2>1, Parameters DEF Input
  <2>3. Common(prompt, Input) \in Nat /\ Common(prompt, Input) <= Len(prompt)
    BY <2>1, <2>2, CommonPrefix
  <2>4. /\ Len(mem.toks) \in Nat /\ mem.lo \in Nat
        /\ mem.lo <= Bigger(0, Len(mem.toks) - NSwa)
    BY <2>1, SavedState DEF Memory
  <2>5. Len(mem.toks) > 0
    BY <2>1, <2>3, <2>4
  <2>6. mem.lo < Len(mem.toks)
    BY <2>4, <2>5, Parameters DEF Bigger
  <2>7. PosMin(mem) = mem.lo
    BY <2>4, <2>6 DEF PosMin
  <2>8. QED
    BY <2>4, <2>7
<1>2. QED
    BY <1>1, CkptsInvariant, PTL

(* The memory holds exactly the tokens of the prompt, through every        *)
(* branch, trim, restore and swap, until a checkpoint is restored that     *)
(* differs from the prompt in its last token (server-context.cpp           *)
(* 3265-3313).                                                             *)
THEOREM ExactUntilStaleTail == CkptsSpec => []ExactButForTail
<1>1. CkptsInv => ExactButForTail
  <2> SUFFICES ASSUME CkptsInv, ~staleTail PROVE IsPrefix(mem.toks, prompt)
    BY DEF ExactButForTail
  <2> DEFINE l == Len(mem.toks)
  <2>1. /\ prompt \in Seq(Token) /\ mem.toks \in Seq(Token) /\ l + batch = Len(prompt)
        /\ batch \in Nat /\ \A j \in 1..l : mem.toks[j] = prompt[j]
    BY Parameters DEF CkptsInv, SlotOK, MemoryOK, Exact, Memory, State, Token
  <2>2. l \in Nat /\ Len(prompt) \in Nat
    BY <2>1, LenProperties
  <2>3. SubSeq(mem.toks, 1, l) = mem.toks
    BY <2>1, SubSeqFull
  <2> DEFINE p == SubSeq(prompt, 1, l)
  <2>4. p \in Seq(Token) /\ Len(p) = l /\ \A j \in 1..l : p[j] = prompt[j]
    <3> HIDE DEF l
    <3>1. 1 \in Int /\ l \in Int /\ \A j \in 1..l : prompt[j] \in Token /\ 1 + j - 1 = j
        BY <2>1, <2>2, ElementOfSeq
    <3>2. /\ p \in Seq(Token) /\ Len(p) = IF 1 <= l THEN l - 1 + 1 ELSE 0
          /\ \A j \in 1..(l - 1 + 1) : p[j] = prompt[1 + j - 1]
        BY <3>1, SubSeqProperties
    <3>3. QED
        BY <2>2, <3>1, <3>2
  <2> HIDE DEF p
  <2>5. mem.toks = p
    BY <2>1, <2>4, SeqEqual
  <2>6. l <= Len(prompt)
    BY <2>1, <2>2
  <2>7. QED
    BY <2>3, <2>5, <2>6 DEF IsPrefix, p
<1>2. QED
    BY <1>1, CkptsInvariant, PTL
=============================================================================
