--------------------------- MODULE RoutePlanProofs ---------------------------
(***************************************************************************)
(* What the stages of route planning return, for every routing, capacity   *)
(* and selection: which experts a plan has, that it has each of them once, *)
(* and which assignments a tile computes.                                  *)
(***************************************************************************)
EXTENDS RoutePlan, SequenceTheorems, Induction

-----------------------------------------------------------------------------
(* Filters.                                                                *)
FiltersUpTo(f, c, keep) ==
    /\ f[0] = <<>> /\ Filter(c, keep) = f[Len(c)]
    /\ \A i \in 1..Len(c) : f[i] = IF c[i] \in keep THEN Append(f[i - 1], c[i]) ELSE f[i - 1]

(* Filter is computed element by element. *)
LEMMA FilterRecursion ==
    ASSUME NEW S, NEW c \in Seq(S), NEW keep
    PROVE  \E f \in [0..Len(c) -> Seq(S)] : FiltersUpTo(f, c, keep)
<1> DEFINE n == Len(c)
           Z == Seq(S)
           none == <<>>
           upTo == CHOOSE g : g = [i \in 0..n |-> IF i = 0 THEN <<>>
                                       ELSE IF c[i] \in keep THEN Append(g[i - 1], c[i])
                                       ELSE g[i - 1]]
           step == [p \in Z \X (1..n) |-> IF c[p[2]] \in keep THEN Append(p[1], c[p[2]]) ELSE p[1]]
<1>1. n \in Nat /\ \A i \in 1..n : c[i] \in S
    BY LenProperties, ElementOfSeq
<1>2. /\ step \in [Z \X (1..n) -> Z]
      /\ \A x \in Z, i \in 1..n : step[<<x, i>>] = IF c[i] \in keep THEN Append(x, c[i]) ELSE x
    BY <1>1, AppendProperties
<1>3. Filter(c, keep) = upTo[n]
    BY DEF Filter
<1>4. none \in Z
    BY EmptySeq
<1>5. PICK f \in [0..n -> Z] : f[0] = none /\ \A i \in 1..n : f[i] = step[<<f[i - 1], i>>]
  <2> HIDE DEF n, step, Z, none, upTo
  <2>1. PICK g \in [0..n -> Z] : Recurses(g, none, n, step)
    BY <1>1, <1>2, <1>4, Recursion
  <2>2. QED
    BY <2>1 DEF Recurses
<1> HIDE DEF n, step, upTo
<1>6. ASSUME NEW i \in 1..n
      PROVE  /\ i - 1 \in 0..n /\ f[i - 1] \in Z
             /\ f[i] = IF c[i] \in keep THEN Append(f[i - 1], c[i]) ELSE f[i - 1]
  <2>1. i - 1 \in 0..n
    BY <1>1
  <2>2. f[i - 1] \in Z
    BY <1>5, <2>1
  <2> HIDE DEF Z
  <2>3. step[<<f[i - 1], i>>] = IF c[i] \in keep THEN Append(f[i - 1], c[i]) ELSE f[i - 1]
    BY <1>2, <2>2
  <2>4. QED
    BY <1>5, <2>1, <2>2, <2>3
<1>7. f = [i \in 0..n |-> IF i = 0 THEN <<>>
                          ELSE IF c[i] \in keep THEN Append(f[i - 1], c[i]) ELSE f[i - 1]]
  <2>1. ASSUME NEW i \in 0..n
        PROVE f[i] = IF i = 0 THEN <<>>
                     ELSE IF c[i] \in keep THEN Append(f[i - 1], c[i]) ELSE f[i - 1]
    <3>1. CASE i = 0
        BY <1>5, <3>1
    <3>2. CASE i # 0
      <4>1. i \in 1..n
          BY <1>1, <3>2
      <4>2. QED
          BY <1>6, <3>2, <4>1
    <3>3. QED
        BY <3>1, <3>2
  <2> HIDE DEF Z
  <2>2. QED
    BY <1>5, <2>1
<1>8. upTo = [i \in 0..n |-> IF i = 0 THEN <<>>
                             ELSE IF c[i] \in keep THEN Append(upTo[i - 1], c[i]) ELSE upTo[i - 1]]
    BY <1>7 DEF upTo
<1>9. \A i \in 0..n : upTo[i] = f[i]
  <2> HIDE DEF Z
  <2> DEFINE T == {i \in Nat : i <= n => upTo[i] = f[i]}
  <2>1. 0 \in T
    BY <1>1, <1>5, <1>8
  <2>2. ASSUME NEW i \in T PROVE i + 1 \in T
    <3> SUFFICES ASSUME i + 1 <= n PROVE upTo[i + 1] = f[i + 1]
        OBVIOUS
    <3>1. i + 1 \in 0..n /\ i + 1 \in 1..n /\ i + 1 # 0 /\ (i + 1) - 1 = i /\ upTo[i] = f[i]
        BY <1>1
    <3>2. upTo[i + 1] = IF c[i + 1] \in keep THEN Append(upTo[i], c[i + 1]) ELSE upTo[i]
        BY <1>8, <3>1
    <3>3. f[i + 1] = IF c[i + 1] \in keep THEN Append(f[i], c[i + 1]) ELSE f[i]
        BY <1>6, <3>1
    <3>4. QED
        BY <3>1, <3>2, <3>3
  <2>3. T = Nat
    <3>1. T \in SUBSET Nat
        OBVIOUS
    <3> HIDE DEF T
    <3>2. QED
        BY <2>1, <2>2, <3>1, Induction
  <2>4. \A i \in Nat : i <= n => upTo[i] = f[i]
    BY <2>3
  <2>5. QED
    BY <1>1, <2>4
<1>10. Filter(c, keep) = f[n]
    BY <1>1, <1>3, <1>9
<1>11. \A i \in 1..n : f[i] = IF c[i] \in keep THEN Append(f[i - 1], c[i]) ELSE f[i - 1]
    BY <1>6
<1>12. QED
    BY <1>5, <1>10, <1>11 DEF n, FiltersUpTo

(* e says where in c the elements of r come from: in their order, and all
   that are in keep. *)
Selects(e, r, c, keep) ==
    /\ e \in [1..Len(r) -> 1..Len(c)] /\ Len(r) <= Len(c)
    /\ \A i, j \in 1..Len(r) : i < j => e[i] < e[j]
    /\ \A i \in 1..Len(r) : r[i] = c[e[i]] /\ c[e[i]] \in keep
    /\ \A j \in 1..Len(c) : c[j] \in keep => \E i \in 1..Len(r) : e[i] = j

(* A filter takes the elements that are kept, in their order. *)
LEMMA FilterSelects ==
    ASSUME NEW S, NEW c \in Seq(S), NEW keep
    PROVE  Filter(c, keep) \in Seq(S) /\ \E e : Selects(e, Filter(c, keep), c, keep)
<1> DEFINE n == Len(c)
<1>1. PICK f \in [0..n -> Seq(S)] :
          /\ f[0] = <<>> /\ Filter(c, keep) = f[n]
          /\ \A i \in 1..n : f[i] = IF c[i] \in keep THEN Append(f[i - 1], c[i]) ELSE f[i - 1]
  <2>1. PICK g \in [0..Len(c) -> Seq(S)] : FiltersUpTo(g, c, keep)
    BY FilterRecursion
  <2>2. QED
    BY <2>1 DEF FiltersUpTo
<1>2. n \in Nat /\ \A i \in 1..n : c[i] \in S
    BY LenProperties, ElementOfSeq
<1> DEFINE Picks(e, k) ==
              /\ e \in [1..Len(f[k]) -> 1..k] /\ Len(f[k]) <= k
              /\ \A i, j \in 1..Len(f[k]) : i < j => e[i] < e[j]
              /\ \A i \in 1..Len(f[k]) : f[k][i] = c[e[i]] /\ c[e[i]] \in keep
              /\ \A j \in 1..k : c[j] \in keep => \E i \in 1..Len(f[k]) : e[i] = j
           T == {k \in Nat : k <= n => \E e : Picks(e, k)}
<1> HIDE DEF n
<1>3. 0 \in T
  <2>1. Len(f[0]) = 0
    BY <1>1, EmptySeq
  <2>2. Picks([i \in 1..0 |-> 0], 0)
    BY <2>1
  <2>3. QED
    BY <2>2
<1>4. ASSUME NEW k \in T PROVE k + 1 \in T
  <2> SUFFICES ASSUME k + 1 <= n PROVE \E e : Picks(e, k + 1)
    <3> HIDE DEF Picks
    <3>1. k + 1 \in Nat
        OBVIOUS
    <3>2. QED
        BY <3>1
  <2>1. PICK e : Picks(e, k)
    <3> HIDE DEF Picks
    <3>1. k \in Nat /\ (k <= n => \E e : Picks(e, k))
        OBVIOUS
    <3>2. QED
        BY <1>2, <3>1
  <2> HIDE DEF T
  <2>2. k \in Nat /\ k + 1 \in 1..n /\ (k + 1) - 1 = k /\ k \in 0..n
    BY <1>2 DEF T
  <2>3. f[k + 1] = IF c[k + 1] \in keep THEN Append(f[k], c[k + 1]) ELSE f[k]
    BY <1>1, <2>2
  <2>4. f[k] \in Seq(S) /\ Len(f[k]) \in Nat /\ c[k + 1] \in S
    BY <1>1, <1>2, <2>2, LenProperties
  <2>5. \A j \in 1..(k + 1) : j \in 1..k \/ j = k + 1
    BY <2>2
  <2>6. CASE c[k + 1] \notin keep
    <3>1. f[k + 1] = f[k]
        BY <2>3, <2>6
    <3>2. Picks(e, k + 1)
      <4>1. /\ e \in [1..Len(f[k]) -> 1..(k + 1)] /\ Len(f[k]) <= k + 1
            /\ \A i, j \in 1..Len(f[k]) : i < j => e[i] < e[j]
            /\ \A i \in 1..Len(f[k]) : f[k][i] = c[e[i]] /\ c[e[i]] \in keep
          BY <2>1, <2>2, <2>4
      <4>2. \A j \in 1..(k + 1) : c[j] \in keep => \E i \in 1..Len(f[k]) : e[i] = j
          BY <2>1, <2>5, <2>6
      <4>3. QED
          BY <3>1, <4>1, <4>2
    <3>3. QED
        BY <3>2
  <2>7. CASE c[k + 1] \in keep
    <3> DEFINE l == Len(f[k])
               d == [i \in 1..(l + 1) |-> IF i = l + 1 THEN k + 1 ELSE e[i]]
    <3>1. /\ f[k + 1] = Append(f[k], c[k + 1])
          /\ Len(f[k + 1]) = l + 1
          /\ \A i \in 1..l : f[k + 1][i] = f[k][i]
          /\ f[k + 1][l + 1] = c[k + 1]
        BY <2>3, <2>4, <2>7, AppendProperties
    <3>2. l \in Nat /\ l <= k
        BY <2>1, <2>4
    <3>3. /\ e \in [1..l -> 1..k]
          /\ \A i, j \in 1..l : i < j => e[i] < e[j]
          /\ \A i \in 1..l : f[k][i] = c[e[i]] /\ c[e[i]] \in keep
          /\ \A j \in 1..k : c[j] \in keep => \E i \in 1..l : e[i] = j
        BY <2>1
    <3> HIDE DEF l, Picks
    <3>4. d[l + 1] = k + 1 /\ \A i \in 1..l : d[i] = e[i] /\ e[i] \in 1..k
        BY <3>2, <3>3
    <3>5. d \in [1..(l + 1) -> 1..(k + 1)]
        BY <2>2, <3>2, <3>3
    <3> HIDE DEF d
    <3>11. l + 1 <= k + 1
        BY <2>2, <3>2
    <3>6. ASSUME NEW i \in 1..(l + 1), NEW j \in 1..(l + 1), i < j PROVE d[i] < d[j]
      <4>1. i \in 1..l
          BY <3>2, <3>6
      <4>2. CASE j = l + 1
          BY <2>2, <3>4, <4>1, <4>2
      <4>3. CASE j \in 1..l
          BY <3>3, <3>4, <3>6, <4>1, <4>3
      <4>4. QED
          BY <3>2, <4>2, <4>3
    <3>7. ASSUME NEW i \in 1..(l + 1) PROVE f[k + 1][i] = c[d[i]] /\ c[d[i]] \in keep
      <4>1. CASE i = l + 1
          BY <2>7, <3>1, <3>4, <4>1
      <4>2. CASE i \in 1..l
          BY <3>1, <3>3, <3>4, <4>2
      <4>3. QED
          BY <3>2, <4>1, <4>2
    <3>8. ASSUME NEW j \in 1..(k + 1), c[j] \in keep PROVE \E i \in 1..(l + 1) : d[i] = j
      <4>1. l + 1 \in 1..(l + 1) /\ \A i \in 1..l : i \in 1..(l + 1)
          BY <3>2
      <4>2. CASE j = k + 1
          BY <3>4, <4>1, <4>2
      <4>3. CASE j \in 1..k
        <5>1. PICK i \in 1..l : e[i] = j
            BY <3>3, <3>8, <4>3
        <5>2. QED
            BY <3>4, <4>1, <5>1
      <4>4. QED
          BY <2>5, <4>2, <4>3
    <3>9. Picks(d, k + 1)
        BY <3>1, <3>5, <3>6, <3>7, <3>8, <3>11 DEF Picks
    <3>10. QED
        BY <3>9
  <2>8. QED
    BY <2>6, <2>7
<1>5. T = Nat
  <2>1. T \in SUBSET Nat
    OBVIOUS
  <2> HIDE DEF T
  <2>2. QED
    BY <1>3, <1>4, <2>1, Induction
<1>6. \E e : Picks(e, n)
  <2> HIDE DEF Picks
  <2>1. n \in T
    BY <1>2, <1>5
  <2>2. QED
    BY <1>2, <2>1
<1>7. Filter(c, keep) \in Seq(S)
    BY <1>1, <1>2
<1>8. PICK e : Picks(e, n)
    BY <1>6
<1>9. Selects(e, Filter(c, keep), c, keep)
    BY <1>1, <1>8 DEF Selects, n
<1>10. QED
    BY <1>7, <1>9

(* Ranks rise along s. *)
Ordered(s, rank) == \A i, j \in 1..Len(s) : i < j => rank[s[i]] < rank[s[j]]

(* What rises does not repeat. *)
LEMMA OrderedOnce ==
    ASSUME NEW S, NEW s \in Seq(S), NEW rank \in [S -> Int], Ordered(s, rank)
    PROVE  IsInjective(s)
<1>1. DOMAIN s = 1..Len(s) /\ Len(s) \in Nat
    BY LenProperties
<1>2. \A i \in 1..Len(s) : s[i] \in S /\ rank[s[i]] \in Int
    BY ElementOfSeq
<1>3. ASSUME NEW i \in 1..Len(s), NEW j \in 1..Len(s), s[i] = s[j] PROVE i = j
  <2>1. ~(i < j) /\ ~(j < i)
    BY <1>2, <1>3 DEF Ordered
  <2>2. QED
    BY <1>1, <2>1
<1>4. QED
    BY <1>1, <1>3 DEF IsInjective

(* What a filter has; that it repeats nothing the sequence has once, and keeps
   its order. *)
LEMMA FilterHas ==
    ASSUME NEW S, NEW c \in Seq(S), NEW keep, NEW rank
    PROVE  /\ Filter(c, keep) \in Seq(S) /\ Len(Filter(c, keep)) <= Len(c)
           /\ \A x : Contains(Filter(c, keep), x) <=> Contains(c, x) /\ x \in keep
           /\ IsInjective(c) => IsInjective(Filter(c, keep))
           /\ Ordered(c, rank) => Ordered(Filter(c, keep), rank)
<1> DEFINE r == Filter(c, keep)
<1>1. r \in Seq(S)
    BY FilterSelects
<1>2. PICK e : Selects(e, r, c, keep)
    BY FilterSelects
<1>3. DOMAIN c = 1..Len(c) /\ DOMAIN r = 1..Len(r) /\ Len(r) \in Nat /\ Len(c) \in Nat
    BY <1>1, LenProperties
<1> HIDE DEF r
<1>4. \A i \in 1..Len(r) : e[i] \in 1..Len(c) /\ r[i] = c[e[i]] /\ c[e[i]] \in keep
    BY <1>2 DEF Selects
<1>5. ASSUME NEW x PROVE Contains(r, x) <=> Contains(c, x) /\ x \in keep
  <2>1. ASSUME Contains(r, x) PROVE Contains(c, x) /\ x \in keep
    BY <1>4, <2>1 DEF Contains
  <2>2. ASSUME Contains(c, x), x \in keep PROVE Contains(r, x)
    <3>1. PICK j \in 1..Len(c) : c[j] = x
        BY <2>2 DEF Contains
    <3>2. PICK i \in 1..Len(r) : e[i] = j
        BY <1>2, <2>2, <3>1 DEF Selects
    <3>3. QED
        BY <1>4, <3>1, <3>2 DEF Contains
  <2>3. QED
    BY <2>1, <2>2
<1>6. ASSUME IsInjective(c) PROVE IsInjective(r)
  <2> SUFFICES ASSUME NEW i \in 1..Len(r), NEW j \in 1..Len(r), r[i] = r[j] PROVE i = j
    BY <1>3 DEF IsInjective
  <2>1. e[i] = e[j]
    BY <1>3, <1>4, <1>6 DEF IsInjective
  <2>2. e[i] \in Int /\ ~(i < j) /\ ~(j < i)
    BY <1>2, <1>4, <2>1 DEF Selects
  <2>3. QED
    BY <1>3, <2>2
<1>7. ASSUME Ordered(c, rank) PROVE Ordered(r, rank)
  <2> SUFFICES ASSUME NEW i \in 1..Len(r), NEW j \in 1..Len(r), i < j
               PROVE  rank[r[i]] < rank[r[j]]
    BY DEF Ordered
  <2>1. e[i] < e[j]
    BY <1>2 DEF Selects
  <2>2. QED
    BY <1>4, <1>7, <2>1 DEF Ordered
<1>8. Len(r) <= Len(c)
    BY <1>2 DEF Selects
<1>9. QED
    BY <1>1, <1>5, <1>6, <1>7, <1>8 DEF r

-----------------------------------------------------------------------------
(* Tiles over the experts of E, and the experts they have. *)
Tiles(E) == Seq([experts : Seq(E), assignments : Seq(Nat), slots : Seq(Nat)])
Has(tiles, x) == \E t \in 1..Len(tiles) : Contains(tiles[t].experts, x)

(* Ranks rise along each tile and from tile to tile. *)
InOrder(tiles, rank) ==
    /\ \A t \in 1..Len(tiles) : Ordered(tiles[t].experts, rank)
    /\ \A t, u \in 1..Len(tiles) : t < u =>
          \A x, y : Contains(tiles[t].experts, x) /\ Contains(tiles[u].experts, y)
                    => rank[x] < rank[y]

(* The lists of a tile. *)
LEMMA TileTypes ==
    ASSUME NEW E, NEW tiles \in Tiles(E), NEW t \in 1..Len(tiles)
    PROVE  /\ tiles[t] \in [experts : Seq(E), assignments : Seq(Nat), slots : Seq(Nat)]
           /\ tiles[t].experts \in Seq(E)
           /\ tiles[t].assignments \in Seq(Nat) /\ tiles[t].slots \in Seq(Nat)
<1> DEFINE R == [experts : Seq(E), assignments : Seq(Nat), slots : Seq(Nat)]
<1>1. tiles \in Seq(R)
    BY DEF Tiles
<1> HIDE DEF R
<1>2. tiles[t] \in R
    BY <1>1, ElementOfSeq
<1>3. QED
    BY <1>2 DEF R

(* What two sequences in a row have, and when their ranks rise. *)
LEMMA ConcatHas ==
    ASSUME NEW S, NEW a \in Seq(S), NEW b \in Seq(S), NEW rank
    PROVE  /\ a \o b \in Seq(S)
           /\ \A x : Contains(a \o b, x) <=> Contains(a, x) \/ Contains(b, x)
           /\ /\ Ordered(a, rank) /\ Ordered(b, rank)
              /\ \A x, y : Contains(a, x) /\ Contains(b, y) => rank[x] < rank[y]
              => Ordered(a \o b, rank)
<1> DEFINE c == a \o b
           m == Len(a)
           n == Len(b)
<1>1. /\ c \in Seq(S) /\ Len(c) = m + n /\ m \in Nat /\ n \in Nat
      /\ DOMAIN a = 1..m /\ DOMAIN b = 1..n /\ DOMAIN c = 1..(m + n)
    BY ConcatProperties, LenProperties
<1>2. \A i \in 1..(m + n) : c[i] = IF i <= m THEN a[i] ELSE b[i - m]
    BY ConcatProperties
<1> HIDE DEF c, m, n
<1>3. /\ \A i \in 1..m : i \in 1..(m + n) /\ c[i] = a[i]
      /\ \A i \in 1..n : m + i \in 1..(m + n) /\ c[m + i] = b[i]
  <2>1. ASSUME NEW i \in 1..m PROVE i \in 1..(m + n) /\ c[i] = a[i]
    BY <1>1, <1>2
  <2>2. ASSUME NEW i \in 1..n PROVE m + i \in 1..(m + n) /\ c[m + i] = b[i]
    <3> DEFINE p == m + i
    <3>1. p \in 1..(m + n) /\ ~(p <= m) /\ p - m = i
        BY <1>1
    <3> HIDE DEF p
    <3>2. c[p] = b[i]
        BY <1>2, <3>1
    <3>3. QED
        BY <3>1, <3>2 DEF p
  <2>3. QED
    BY <2>1, <2>2
<1>4. \A i \in 1..(m + n) : \/ i \in 1..m /\ c[i] = a[i]
                            \/ i - m \in 1..n /\ c[i] = b[i - m] /\ m + (i - m) = i
  <2> SUFFICES ASSUME NEW i \in 1..(m + n)
               PROVE  \/ i \in 1..m /\ c[i] = a[i]
                      \/ i - m \in 1..n /\ c[i] = b[i - m] /\ m + (i - m) = i
    OBVIOUS
  <2>1. CASE i <= m
    BY <1>1, <1>2, <2>1
  <2>2. CASE ~(i <= m)
    <3>1. i - m \in 1..n /\ m + (i - m) = i
        BY <1>1, <2>2
    <3>2. QED
        BY <1>2, <2>2, <3>1
  <2>3. QED
    BY <2>1, <2>2
<1>5. ASSUME NEW x PROVE Contains(c, x) <=> Contains(a, x) \/ Contains(b, x)
  <2>1. Contains(c, x) <=> \E i \in 1..(m + n) : c[i] = x
    BY <1>1 DEF Contains
  <2>2. /\ Contains(a, x) <=> \E i \in 1..m : a[i] = x
        /\ Contains(b, x) <=> \E i \in 1..n : b[i] = x
    BY DEF Contains, m, n
  <2>3. QED
    BY <1>3, <1>4, <2>1, <2>2
<1>6. ASSUME Ordered(a, rank), Ordered(b, rank),
             \A x, y : Contains(a, x) /\ Contains(b, y) => rank[x] < rank[y]
      PROVE  Ordered(c, rank)
  <2> SUFFICES ASSUME NEW i \in 1..(m + n), NEW j \in 1..(m + n), i < j
               PROVE  rank[c[i]] < rank[c[j]]
    BY <1>1 DEF Ordered
  <2>1. /\ \A k, l \in 1..m : k < l => rank[a[k]] < rank[a[l]]
        /\ \A k, l \in 1..n : k < l => rank[b[k]] < rank[b[l]]
    BY <1>6 DEF Ordered, m, n
  <2>2. \A k \in 1..m, l \in 1..n : rank[a[k]] < rank[b[l]]
    BY <1>6 DEF Contains, m, n
  <2>3. CASE j \in 1..m
    <3>1. i \in 1..m
        BY <1>1, <2>3
    <3>2. QED
        BY <1>3, <2>1, <2>3, <3>1
  <2>4. CASE i \in 1..m /\ j \notin 1..m
    <3>1. c[i] = a[i] /\ j - m \in 1..n /\ c[j] = b[j - m]
        BY <1>3, <1>4, <2>4
    <3>2. QED
        BY <2>2, <2>4, <3>1
  <2>5. CASE i \notin 1..m /\ j \notin 1..m
    <3>1. /\ i - m \in 1..n /\ c[i] = b[i - m]
          /\ j - m \in 1..n /\ c[j] = b[j - m]
        BY <1>4, <2>5
    <3>2. i - m < j - m
        BY <1>1
    <3>3. QED
        BY <2>1, <3>1, <3>2
  <2>6. QED
    BY <2>3, <2>4, <2>5
<1>7. QED
    BY <1>1, <1>5, <1>6 DEF c

ListsUpTo(f, tiles) ==
    /\ f[0] = <<>> /\ ExpertsInOrder(tiles) = f[Len(tiles)]
    /\ \A i \in 1..Len(tiles) : f[i] = f[i - 1] \o tiles[i].experts

(* ExpertsInOrder is computed tile by tile. *)
LEMMA OrderRecursion ==
    ASSUME NEW E, NEW tiles \in Tiles(E)
    PROVE  \E f \in [0..Len(tiles) -> Seq(E)] : ListsUpTo(f, tiles)
<1> DEFINE n == Len(tiles)
           Z == Seq(E)
           none == <<>>
           upTo == CHOOSE g : g = [i \in 0..n |-> IF i = 0 THEN <<>>
                                       ELSE g[i - 1] \o tiles[i].experts]
           step == [p \in Z \X (1..n) |-> p[1] \o tiles[p[2]].experts]
<1>1. n \in Nat /\ \A i \in 1..n : tiles[i].experts \in Seq(E)
    BY LenProperties, TileTypes DEF Tiles
<1>2. /\ step \in [Z \X (1..n) -> Z]
      /\ \A x \in Z, i \in 1..n : step[<<x, i>>] = x \o tiles[i].experts
    BY <1>1, ConcatProperties
<1>3. ExpertsInOrder(tiles) = upTo[n]
    BY DEF ExpertsInOrder
<1>4. none \in Z
    BY EmptySeq
<1>5. PICK f \in [0..n -> Z] : f[0] = none /\ \A i \in 1..n : f[i] = step[<<f[i - 1], i>>]
  <2> HIDE DEF n, step, Z, none, upTo
  <2>1. PICK g \in [0..n -> Z] : Recurses(g, none, n, step)
    BY <1>1, <1>2, <1>4, Recursion
  <2>2. QED
    BY <2>1 DEF Recurses
<1> HIDE DEF n, step, upTo
<1>6. ASSUME NEW i \in 1..n
      PROVE  /\ i - 1 \in 0..n /\ f[i - 1] \in Z
             /\ f[i] = f[i - 1] \o tiles[i].experts
  <2>1. i - 1 \in 0..n
    BY <1>1
  <2>2. f[i - 1] \in Z
    BY <1>5, <2>1
  <2> HIDE DEF Z
  <2>3. step[<<f[i - 1], i>>] = f[i - 1] \o tiles[i].experts
    BY <1>2, <2>2
  <2>4. QED
    BY <1>5, <2>1, <2>2, <2>3
<1>7. f = [i \in 0..n |-> IF i = 0 THEN <<>>
                          ELSE f[i - 1] \o tiles[i].experts]
  <2>1. ASSUME NEW i \in 0..n
        PROVE f[i] = IF i = 0 THEN <<>>
                     ELSE f[i - 1] \o tiles[i].experts
    <3>1. CASE i = 0
        BY <1>5, <3>1
    <3>2. CASE i # 0
      <4>1. i \in 1..n
          BY <1>1, <3>2
      <4>2. QED
          BY <1>6, <3>2, <4>1
    <3>3. QED
        BY <3>1, <3>2
  <2> HIDE DEF Z
  <2>2. QED
    BY <1>5, <2>1
<1>8. upTo = [i \in 0..n |-> IF i = 0 THEN <<>>
                             ELSE upTo[i - 1] \o tiles[i].experts]
    BY <1>7 DEF upTo
<1>9. \A i \in 0..n : upTo[i] = f[i]
  <2> HIDE DEF Z
  <2> DEFINE T == {i \in Nat : i <= n => upTo[i] = f[i]}
  <2>1. 0 \in T
    BY <1>1, <1>5, <1>8
  <2>2. ASSUME NEW i \in T PROVE i + 1 \in T
    <3> SUFFICES ASSUME i + 1 <= n PROVE upTo[i + 1] = f[i + 1]
        OBVIOUS
    <3>1. i + 1 \in 0..n /\ i + 1 \in 1..n /\ i + 1 # 0 /\ (i + 1) - 1 = i /\ upTo[i] = f[i]
        BY <1>1
    <3>2. upTo[i + 1] = upTo[i] \o tiles[i + 1].experts
        BY <1>8, <3>1
    <3>3. f[i + 1] = f[i] \o tiles[i + 1].experts
        BY <1>6, <3>1
    <3>4. QED
        BY <3>1, <3>2, <3>3
  <2>3. T = Nat
    <3>1. T \in SUBSET Nat
        OBVIOUS
    <3> HIDE DEF T
    <3>2. QED
        BY <2>1, <2>2, <3>1, Induction
  <2>4. \A i \in Nat : i <= n => upTo[i] = f[i]
    BY <2>3
  <2>5. QED
    BY <1>1, <2>4
<1>10. ExpertsInOrder(tiles) = f[n]
    BY <1>1, <1>3, <1>9
<1>11. \A i \in 1..n : f[i] = f[i - 1] \o tiles[i].experts
    BY <1>6
<1>12. QED
    BY <1>5, <1>10, <1>11 DEF n, ListsUpTo

(* The experts in order are those of the tiles. *)
LEMMA OrderHas ==
    ASSUME NEW E, NEW tiles \in Tiles(E), NEW rank
    PROVE  /\ ExpertsInOrder(tiles) \in Seq(E)
           /\ \A x : Contains(ExpertsInOrder(tiles), x) <=> Has(tiles, x)
           /\ InOrder(tiles, rank) => Ordered(ExpertsInOrder(tiles), rank)
<1> DEFINE n == Len(tiles)
<1>1. PICK f \in [0..n -> Seq(E)] : ListsUpTo(f, tiles)
    BY OrderRecursion
<1>2. /\ f[0] = <<>> /\ ExpertsInOrder(tiles) = f[n]
      /\ \A i \in 1..n : f[i] = f[i - 1] \o tiles[i].experts
    BY <1>1 DEF ListsUpTo
<1>3. n \in Nat /\ \A i \in 1..n : tiles[i].experts \in Seq(E)
    BY LenProperties, TileTypes DEF Tiles
<1> DEFINE Good(k) ==
              /\ \A x : Contains(f[k], x) <=> \E t \in 1..k : Contains(tiles[t].experts, x)
              /\ InOrder(tiles, rank) => Ordered(f[k], rank)
           T == {k \in Nat : k <= n => Good(k)}
<1> HIDE DEF n
<1>4. 0 \in T
  <2>1. Len(f[0]) = 0 /\ DOMAIN f[0] = {}
    BY <1>2, EmptySeq
  <2>2. Good(0)
    BY <2>1 DEF Contains, Ordered
  <2>3. QED
    BY <2>2
<1>5. ASSUME NEW k \in T PROVE k + 1 \in T
  <2> SUFFICES ASSUME k + 1 <= n PROVE Good(k + 1)
    OBVIOUS
  <2> DEFINE b == tiles[k + 1].experts
  <2>1. k \in Nat /\ k + 1 \in 1..n /\ (k + 1) - 1 = k /\ k \in 0..n /\ k <= n
    BY <1>3
  <2>2. Good(k)
    BY <2>1
  <2>3. f[k + 1] = f[k] \o b /\ f[k] \in Seq(E) /\ b \in Seq(E)
    BY <1>1, <1>2, <1>3, <2>1
  <2>4. \A t \in 1..(k + 1) : t \in 1..k \/ t = k + 1
    BY <2>1
  <2>5. \A t \in 1..k : t \in 1..(k + 1) /\ t \in 1..n /\ t # k + 1
    BY <1>3, <2>1
  <2>6. \A x : Contains(f[k], x) <=> \E t \in 1..k : Contains(tiles[t].experts, x)
    BY <2>2
  <2>7. ASSUME InOrder(tiles, rank) PROVE Ordered(f[k + 1], rank)
    <3>1. Ordered(f[k], rank)
        BY <2>2, <2>7
    <3>2. Ordered(b, rank)
        BY <2>1, <2>7 DEF InOrder, n
    <3>3. ASSUME NEW x, NEW y, Contains(f[k], x), Contains(b, y) PROVE rank[x] < rank[y]
      <4>1. PICK t \in 1..k : Contains(tiles[t].experts, x)
          BY <2>6, <3>3
      <4>2. t \in 1..n /\ t < k + 1
          BY <1>3, <2>1
      <4>3. QED
          BY <2>1, <2>7, <3>3, <4>1, <4>2 DEF InOrder, n
    <3> HIDE DEF b
    <3>4. QED
        BY <2>3, <3>1, <3>2, <3>3, ConcatHas
  <2>8. ASSUME NEW x
        PROVE  Contains(f[k + 1], x) <=> \E t \in 1..(k + 1) : Contains(tiles[t].experts, x)
    <3>1. Contains(f[k + 1], x) <=> Contains(f[k], x) \/ Contains(b, x)
      <4> HIDE DEF b
      <4>1. QED
          BY <2>3, ConcatHas
    <3>2. k + 1 \in 1..(k + 1)
        BY <2>1
    <3>3. QED
        BY <2>4, <2>5, <2>6, <3>1, <3>2
  <2>9. QED
    BY <2>7, <2>8
<1>6. T = Nat
  <2>1. T \in SUBSET Nat
    OBVIOUS
  <2> HIDE DEF T
  <2>2. QED
    BY <1>4, <1>5, <2>1, Induction
<1>7. Good(n)
  <2> HIDE DEF Good
  <2>1. n \in T /\ n <= n
    BY <1>3, <1>6
  <2>2. QED
    BY <2>1
<1>8. n \in 0..n
    BY <1>3
<1>9. QED
    BY <1>1, <1>2, <1>7, <1>8 DEF Has, n

-----------------------------------------------------------------------------
(* plan_routes.                                                            *)
(* A function on 1..m is a sequence of length m. *)
LEMMA TupleIsSeq ==
    ASSUME NEW S, NEW m \in Nat, NEW f \in [1..m -> S]
    PROVE  f \in Seq(S) /\ Len(f) = m
<1>1. f \in Seq(S)
    BY SeqDef
<1>2. Len(f) \in Nat /\ DOMAIN f = 1..Len(f)
    BY <1>1, LenProperties
<1>3. QED
    BY <1>1, <1>2

(* Tile t is as it was, or has room for id and gets it, or is a fresh one. *)
Added(new, tiles, t, id, capacity) ==
    \/ t \in 1..Len(tiles) /\ new[t] = tiles[t]
    \/ /\ t \in 1..Len(tiles) /\ Len(tiles[t].experts) # capacity
       /\ new[t] = [tiles[t] EXCEPT !.experts = Append(@, id)]
    \/ new[t] = [EmptyTile EXCEPT !.experts = Append(@, id)]

LEMMA AddHas ==
    ASSUME NEW E, NEW tiles \in Tiles(E), NEW id \in E, NEW capacity, NEW rank
    PROVE  LET new == AddExpert(tiles, id, capacity) IN
           /\ new \in Tiles(E)
           /\ \A x : Has(new, x) <=> Has(tiles, x) \/ x = id
           /\ InOrder(tiles, rank) /\ (\A x : Has(tiles, x) => rank[x] < rank[id])
              => InOrder(new, rank)
           /\ \A t \in 1..Len(new) : Added(new, tiles, t, id, capacity)
<1> DEFINE R == [experts : Seq(E), assignments : Seq(Nat), slots : Seq(Nat)]
           room == IF tiles = <<>> \/ Len(Last(tiles).experts) = capacity
                   THEN Append(tiles, EmptyTile) ELSE tiles
           m == Len(room)
           new == AddExpert(tiles, id, capacity)
<1>1. tiles \in Seq(R) /\ Len(tiles) \in Nat /\ EmptyTile \in R /\ EmptyTile.experts = <<>>
  <2>1. tiles \in Seq(R)
    BY DEF Tiles
  <2>2. EmptyTile \in R /\ EmptyTile.experts = <<>>
    BY EmptySeq DEF EmptyTile
  <2>3. QED
    BY <2>1, <2>2, LenProperties
<1>2. /\ room \in Seq(R) /\ m \in Nat /\ m >= 1 /\ Len(tiles) <= m
      /\ \A t \in 1..Len(tiles) : room[t] = tiles[t]
      /\ \A t \in 1..m : t \in 1..Len(tiles) \/ room[t] = EmptyTile
      /\ m \in 1..Len(tiles) => Len(tiles[m].experts) # capacity
      /\ \A t \in 1..m : t # m => t \in 1..Len(tiles)
  <2> HIDE DEF R
  <2>1. CASE tiles = <<>> \/ Len(Last(tiles).experts) = capacity
    <3> DEFINE l == Len(tiles)
               r == Append(tiles, EmptyTile)
    <3>1. room = r
        BY <2>1
    <3>2. r \in Seq(R) /\ Len(r) = l + 1 /\ l \in Nat
          /\ (\A t \in 1..l : r[t] = tiles[t]) /\ r[l + 1] = EmptyTile
        BY <1>1, AppendProperties
    <3> HIDE DEF l, r, room
    <3>3. \A t \in 1..(l + 1) : t \in 1..l \/ t = l + 1
        BY <3>2
    <3>4. /\ m = l + 1 /\ \A t \in 1..l : room[t] = tiles[t]
          /\ room \in Seq(R) /\ m \in Nat /\ m >= 1 /\ l <= m
        BY <3>1, <3>2
    <3>5. \A t \in 1..m : t \in 1..l \/ room[t] = EmptyTile
        BY <3>1, <3>2, <3>3, <3>4
    <3>7. m \notin 1..l /\ \A t \in 1..m : t # m => t \in 1..l
        BY <3>2, <3>3, <3>4
    <3>6. QED
        BY <3>4, <3>5, <3>7 DEF l
  <2>2. CASE ~(tiles = <<>> \/ Len(Last(tiles).experts) = capacity)
    <3>1. room = tiles
        BY <2>2
    <3>2. Len(tiles) # 0
        BY <1>1, <2>2, EmptySeq
    <3>3. Len(tiles[Len(tiles)].experts) # capacity
        BY <2>2 DEF Last
    <3> HIDE DEF room
    <3>4. QED
        BY <1>1, <3>1, <3>2, <3>3
  <2>3. QED
    BY <2>1, <2>2
<1>3. /\ new = [room EXCEPT ![m].experts = Append(@, id)]
      /\ m \in 1..m
    BY <1>2 DEF AddExpert
<1> HIDE DEF room, m, new
<1>4. DOMAIN room = 1..m /\ \A t \in 1..m : room[t] \in R /\ room[t].experts \in Seq(E)
  <2>1. DOMAIN room = 1..m
    BY <1>2, LenProperties DEF m
  <2>2. ASSUME NEW t \in 1..m PROVE room[t] \in R
    <3> HIDE DEF R
    <3>1. QED
        BY <1>2, ElementOfSeq DEF m
  <2>3. QED
    BY <2>1, <2>2
<1> DEFINE s == room[m].experts
           last == [room[m] EXCEPT !.experts = Append(s, id)]
<1>5. /\ s \in Seq(E) /\ Len(s) \in Nat
      /\ Append(s, id) \in Seq(E) /\ Len(Append(s, id)) = Len(s) + 1
      /\ \A i \in 1..Len(s) : Append(s, id)[i] = s[i]
      /\ Append(s, id)[Len(s) + 1] = id
    BY <1>3, <1>4, AppendProperties, LenProperties
<1>6. last \in R /\ last.experts = Append(s, id)
  <2>1. room[m] \in R
    BY <1>3, <1>4
  <2> HIDE DEF s
  <2>2. QED
    BY <1>5, <2>1
<1>7. new[m] = last /\ DOMAIN new = 1..m /\ \A t \in 1..m : t # m => new[t] = room[t]
    BY <1>3, <1>4
<1>8. new \in [1..m -> R]
  <2>1. new = [t \in 1..m |-> new[t]]
    BY <1>3, <1>4
  <2>2. \A t \in 1..m : new[t] \in R
    <3> HIDE DEF R, last
    <3>1. QED
        BY <1>4, <1>6, <1>7
  <2> HIDE DEF R
  <2>3. QED
    BY <2>1, <2>2
<1>9. new \in Seq(R) /\ Len(new) = m
  <2> HIDE DEF R
  <2>1. QED
    BY <1>2, <1>8, TupleIsSeq
<1> DEFINE sn == new[m].experts
           l == Len(s)
<1>10. /\ Len(sn) = l + 1 /\ l \in Nat /\ sn[l + 1] = id
       /\ \A i \in 1..l : sn[i] = s[i]
    BY <1>5, <1>6, <1>7
<1> HIDE DEF R, s, last, sn, l
<1>11. \A i \in 1..(l + 1) : i \in 1..l \/ i = l + 1
    BY <1>10
<1>12. \A i \in 1..l : i \in 1..(l + 1)
    BY <1>10
<1>13. ASSUME NEW x PROVE Contains(sn, x) <=> Contains(s, x) \/ x = id
  <2>1. Contains(sn, x) <=> \E i \in 1..(l + 1) : sn[i] = x
    BY <1>10 DEF Contains
  <2>2. Contains(s, x) <=> \E i \in 1..l : s[i] = x
    BY DEF Contains, l
  <2>3. l + 1 \in 1..(l + 1)
    BY <1>10
  <2>4. QED
    BY <1>10, <1>11, <1>12, <2>1, <2>2, <2>3
<1>14. \A x : Has(room, x) <=> Has(tiles, x)
  <2> SUFFICES ASSUME NEW x PROVE Has(room, x) <=> Has(tiles, x)
    OBVIOUS
  <2>1. ASSUME NEW t \in 1..m, Contains(room[t].experts, x) PROVE t \in 1..Len(tiles)
    <3>1. Len(<<>>) = 0
        BY EmptySeq
    <3>2. room[t].experts # <<>>
        BY <2>1, <3>1 DEF Contains
    <3>3. QED
        BY <1>1, <1>2, <3>2
  <2>2. \A t \in 1..Len(tiles) : t \in 1..m
    BY <1>1, <1>2
  <2>3. Has(room, x) <=> \E t \in 1..m : Contains(room[t].experts, x)
    BY DEF Has, m
  <2>4. QED
    BY <1>2, <2>1, <2>2, <2>3 DEF Has
<1>15. ASSUME NEW x PROVE Has(new, x) <=> Has(tiles, x) \/ x = id
  <2>1. Has(new, x) <=> \E t \in 1..m : Contains(new[t].experts, x)
    BY <1>9 DEF Has
  <2>2. Has(room, x) <=> \E t \in 1..m : Contains(room[t].experts, x)
    BY DEF Has, m
  <2>3. \A t \in 1..m : t # m => (Contains(new[t].experts, x) <=> Contains(room[t].experts, x))
    BY <1>7
  <2>4. Contains(new[m].experts, x) <=> Contains(room[m].experts, x) \/ x = id
    BY <1>13 DEF s, sn
  <2>5. QED
    BY <1>3, <1>14, <2>1, <2>2, <2>3, <2>4
<1>16. ASSUME InOrder(tiles, rank), \A x : Has(tiles, x) => rank[x] < rank[id]
       PROVE  InOrder(new, rank)
  <2>1. ASSUME NEW t \in 1..m PROVE Ordered(room[t].experts, rank)
    <3>1. CASE t \in 1..Len(tiles)
        BY <1>2, <1>16, <3>1 DEF InOrder
    <3>2. CASE t \notin 1..Len(tiles)
      <4>1. Len(room[t].experts) = 0
          BY <1>1, <1>2, <3>2, EmptySeq
      <4>2. QED
          BY <4>1 DEF Ordered
    <3>3. QED
        BY <3>1, <3>2
  <2>2. \A t \in 1..m : \A x : Contains(room[t].experts, x) => rank[x] < rank[id]
    BY <1>14, <1>16 DEF Has, m
  <2>3. ASSUME NEW t \in 1..m PROVE Ordered(new[t].experts, rank)
    <3>1. CASE t # m
        BY <1>7, <2>1, <3>1
    <3>2. CASE t = m
      <4> SUFFICES ASSUME NEW i \in 1..(l + 1), NEW j \in 1..(l + 1), i < j
                   PROVE  rank[sn[i]] < rank[sn[j]]
          BY <1>10, <3>2 DEF Ordered, sn
      <4>1. i \in 1..l
          BY <1>10
      <4>2. Ordered(s, rank) /\ \A k \in 1..l : rank[s[k]] < rank[id]
          BY <1>3, <2>1, <2>2 DEF s, l, Contains
      <4>3. CASE j \in 1..l
          BY <1>10, <4>1, <4>2, <4>3 DEF Ordered, l
      <4>4. CASE j = l + 1
          BY <1>10, <4>1, <4>2, <4>4
      <4>5. QED
          BY <1>11, <4>3, <4>4
    <3>3. QED
        BY <3>1, <3>2
  <2>4. ASSUME NEW t \in 1..m, NEW u \in 1..m, t < u, NEW x, NEW y,
               Contains(new[t].experts, x), Contains(new[u].experts, y)
        PROVE  rank[x] < rank[y]
    <3>1. t # m /\ Contains(room[t].experts, x)
        BY <1>2, <1>7, <2>4
    <3>2. CASE Contains(room[u].experts, y)
      <4>1. t \in 1..Len(tiles) /\ u \in 1..Len(tiles)
        <5>1. Len(<<>>) = 0
            BY EmptySeq
        <5>2. room[t].experts # <<>> /\ room[u].experts # <<>>
            BY <3>1, <3>2, <5>1 DEF Contains
        <5>3. QED
            BY <1>1, <1>2, <5>2
      <4>2. room[t] = tiles[t] /\ room[u] = tiles[u]
          BY <1>2, <4>1
      <4>3. QED
          BY <1>16, <2>4, <3>1, <3>2, <4>1, <4>2 DEF InOrder
    <3>3. CASE ~Contains(room[u].experts, y)
      <4>1. y = id
          BY <1>7, <1>13, <2>4, <3>3 DEF s, sn
      <4>2. QED
          BY <2>2, <3>1, <4>1
    <3>4. QED
        BY <3>2, <3>3
  <2>5. QED
    BY <1>9, <2>3, <2>4 DEF InOrder
<1>17. ASSUME NEW t \in 1..m PROVE Added(new, tiles, t, id, capacity)
  <2>1. CASE t # m /\ t \in 1..Len(tiles)
    BY <1>2, <1>7, <2>1 DEF Added
  <2>2. CASE t = m
    <3>1. new[t] = [room[t] EXCEPT !.experts = Append(@, id)]
        BY <1>7, <2>2 DEF last, s
    <3>2. QED
        BY <1>2, <2>2, <3>1 DEF Added
  <2>3. CASE t # m /\ t \notin 1..Len(tiles)
    BY <1>2, <2>3
  <2>4. QED
    BY <2>1, <2>2, <2>3
<1>18. new \in Tiles(E)
    BY <1>9 DEF Tiles, R
<1>19. QED
    BY <1>9, <1>15, <1>16, <1>17, <1>18 DEF new

(* The tile with one assignment more. *)
Computing(tile, a, pos) ==
    [tile EXCEPT !.assignments = Append(@, a), !.slots = Append(@, pos)]

Assigned(new, E, tiles, t, id, a, pos) ==
    /\ new \in Tiles(E) /\ Len(new) = Len(tiles)
    /\ \A u \in 1..Len(tiles) : u # t => new[u] = tiles[u]
    /\ new[t] = Computing(tiles[t], a, pos)
    /\ pos \in 1..Len(tiles[t].experts) /\ tiles[t].experts[pos] = id

LEMMA AssignHas ==
    ASSUME NEW E, NEW tiles \in Tiles(E), NEW t, t \in 1..Len(tiles), NEW id,
           Contains(tiles[t].experts, id), NEW a, a \in Nat
    PROVE  Assigned(Assign(tiles, t, id, a), E, tiles, t, id, a, Position(tiles[t].experts, id))
<1> DEFINE R == [experts : Seq(E), assignments : Seq(Nat), slots : Seq(Nat)]
           m == Len(tiles)
           new == Assign(tiles, t, id, a)
           as == tiles[t].assignments
           sl == tiles[t].slots
           pos == Position(tiles[t].experts, id)
           one == [tiles[t] EXCEPT !.assignments = Append(as, a), !.slots = Append(sl, pos)]
<1>1. /\ tiles \in Seq(R) /\ m \in Nat /\ DOMAIN tiles = 1..m
      /\ \A u \in 1..m : tiles[u] \in R
  <2>1. tiles \in Seq(R)
    BY DEF Tiles
  <2> HIDE DEF R
  <2>2. QED
    BY <2>1, LenProperties, ElementOfSeq
<1>2. pos \in Nat /\ pos \in 1..Len(tiles[t].experts) /\ tiles[t].experts[pos] = id
  <2>1. tiles[t].experts \in Seq(E)
    BY TileTypes
  <2>2. DOMAIN tiles[t].experts = 1..Len(tiles[t].experts) /\ Len(tiles[t].experts) \in Nat
    BY <2>1, LenProperties
  <2>3. \E i \in DOMAIN tiles[t].experts : tiles[t].experts[i] = id
    BY <2>2 DEF Contains
  <2>4. pos \in DOMAIN tiles[t].experts /\ tiles[t].experts[pos] = id
    BY <2>3 DEF Position
  <2>5. QED
    BY <2>2, <2>4
<1>3. Append(as, a) \in Seq(Nat) /\ Append(sl, pos) \in Seq(Nat)
  <2>1. as \in Seq(Nat) /\ sl \in Seq(Nat)
    BY TileTypes
  <2> HIDE DEF pos, as, sl
  <2>2. QED
    BY <1>2, <2>1, AppendProperties
<1>4. one \in R
  <2>1. tiles[t] \in R
    BY <1>1
  <2> HIDE DEF pos, as, sl
  <2>2. QED
    BY <1>3, <2>1
<1>5. new = [tiles EXCEPT ![t] = one]
  <2>1. new = [tiles EXCEPT ![t].assignments = Append(@, a), ![t].slots = Append(@, pos)]
    BY DEF Assign
  <2> HIDE DEF new, pos
  <2>2. QED
    BY <1>1, <2>1
<1> HIDE DEF one, new, R, m
<1>6. new \in [1..m -> R] /\ new[t] = one /\ \A u \in 1..m : u # t => new[u] = tiles[u]
  <2>1. t \in 1..m
    BY DEF m
  <2>2. /\ DOMAIN new = 1..m /\ new[t] = one /\ new = [u \in 1..m |-> new[u]]
        /\ \A u \in 1..m : u # t => new[u] = tiles[u]
    BY <1>1, <1>5, <2>1
  <2>3. \A u \in 1..m : new[u] \in R
    BY <1>1, <1>4, <2>2
  <2>4. QED
    BY <2>2, <2>3
<1>7. new \in Seq(R) /\ Len(new) = m
    BY <1>1, <1>6, TupleIsSeq
<1>8. QED
    BY <1>2, <1>6, <1>7 DEF Tiles, R, m, new, one, Computing, Assigned

(* Nothing that is said of the experts alone depends on the rest of a tile. *)
LEMMA SameExperts ==
    ASSUME NEW a, NEW b, NEW rank, Len(a) = Len(b),
           \A t \in 1..Len(a) : a[t].experts = b[t].experts
    PROVE  (\A x : Has(a, x) <=> Has(b, x)) /\ (InOrder(a, rank) => InOrder(b, rank))
<1>1. ASSUME NEW x PROVE Has(a, x) <=> Has(b, x)
    BY DEF Has
<1>2. ASSUME InOrder(a, rank) PROVE InOrder(b, rank)
  <2>1. ASSUME NEW t \in 1..Len(b) PROVE Ordered(b[t].experts, rank)
    <3>1. Ordered(a[t].experts, rank)
        BY <1>2 DEF InOrder
    <3>2. a[t].experts = b[t].experts
        OBVIOUS
    <3>3. QED
        BY <3>1, <3>2
  <2>2. ASSUME NEW t \in 1..Len(b), NEW u \in 1..Len(b), t < u, NEW x, NEW y,
               Contains(b[t].experts, x), Contains(b[u].experts, y)
        PROVE  rank[x] < rank[y]
    <3>1. Contains(a[t].experts, x) /\ Contains(a[u].experts, y)
        BY <2>2
    <3>2. QED
        BY <1>2, <2>2, <3>1 DEF InOrder
  <2>3. QED
    BY <2>1, <2>2 DEF InOrder
<1>3. QED
    BY <1>1, <1>2

-----------------------------------------------------------------------------
(* What a tile computes.                                                   *)
(* A tile computes, of the assignments A, those of its experts, each once,
   each under its expert's position. *)
RightTile(tile, ids, A) ==
    /\ Len(tile.slots) = Len(tile.assignments)
    /\ \A i \in 1..Len(tile.assignments) :
          /\ tile.slots[i] \in 1..Len(tile.experts)
          /\ tile.experts[tile.slots[i]] = ids[tile.assignments[i]]
    /\ IsInjective(tile.assignments)
    /\ \A a : Contains(tile.assignments, a) <=> a \in A /\ Contains(tile.experts, ids[a])

(* What a sequence has with one element more. *)
LEMMA AppendHas ==
    ASSUME NEW S, NEW s \in Seq(S), NEW x \in S
    PROVE  LET new == Append(s, x) IN
           /\ new \in Seq(S) /\ Len(new) = Len(s) + 1 /\ Len(s) \in Nat
           /\ \A i \in 1..Len(s) : i \in 1..Len(new) /\ new[i] = s[i]
           /\ new[Len(s) + 1] = x
           /\ \A i \in 1..Len(new) : i \in 1..Len(s) \/ i = Len(s) + 1
           /\ \A y : Contains(new, y) <=> Contains(s, y) \/ y = x
           /\ IsInjective(s) /\ ~Contains(s, x) => IsInjective(new)
<1> DEFINE n == Len(s)
           new == Append(s, x)
<1>1. /\ new \in Seq(S) /\ Len(new) = n + 1 /\ n \in Nat /\ DOMAIN new = 1..(n + 1)
      /\ (\A i \in 1..n : new[i] = s[i]) /\ new[n + 1] = x /\ DOMAIN s = 1..n
    BY AppendProperties, LenProperties
<1> HIDE DEF n, new
<1>2. /\ \A i \in 1..n : i \in 1..(n + 1)
      /\ n + 1 \in 1..(n + 1)
      /\ \A i \in 1..(n + 1) : i \in 1..n \/ i = n + 1
    BY <1>1
<1>3. ASSUME NEW y PROVE Contains(new, y) <=> Contains(s, y) \/ y = x
  <2>1. Contains(new, y) <=> \E i \in 1..(n + 1) : new[i] = y
    BY <1>1 DEF Contains
  <2>2. Contains(s, y) <=> \E i \in 1..n : s[i] = y
    BY DEF Contains, n
  <2>3. QED
    BY <1>1, <1>2, <2>1, <2>2
<1>4. ASSUME IsInjective(s), ~Contains(s, x) PROVE IsInjective(new)
  <2>1. \A i \in 1..n : s[i] # x
    BY <1>4 DEF Contains, n
  <2>2. \A i, j \in 1..n : s[i] = s[j] => i = j
    BY <1>1, <1>4 DEF IsInjective
  <2>3. \A i, j \in 1..(n + 1) : new[i] = new[j] => i = j
    BY <1>1, <1>2, <2>1, <2>2
  <2>4. QED
    BY <1>1, <2>3 DEF IsInjective
<1>5. QED
    BY <1>1, <1>2, <1>3, <1>4 DEF n, new

(* An expert no assignment of A names changes nothing of what a tile computes. *)
LEMMA AddRight ==
    ASSUME NEW E, NEW tile \in [experts : Seq(E), assignments : Seq(Nat), slots : Seq(Nat)],
           NEW ids, NEW A, RightTile(tile, ids, A), NEW id \in E, \A a \in A : ids[a] # id
    PROVE  RightTile([tile EXCEPT !.experts = Append(@, id)], ids, A)
<1> DEFINE s == tile.experts
           new == [tile EXCEPT !.experts = Append(@, id)]
<1>1. /\ new.assignments = tile.assignments /\ new.slots = tile.slots
      /\ new.experts = Append(s, id) /\ s \in Seq(E)
    OBVIOUS
<1>2. /\ \A i \in 1..Len(s) : i \in 1..Len(new.experts) /\ new.experts[i] = s[i]
      /\ \A y : Contains(new.experts, y) <=> Contains(s, y) \/ y = id
  <2> HIDE DEF s, new
  <2>1. QED
    BY <1>1, AppendHas
<1> HIDE DEF new
<1>3. \A i \in 1..Len(new.assignments) :
          /\ new.slots[i] \in 1..Len(new.experts)
          /\ new.experts[new.slots[i]] = ids[new.assignments[i]]
    BY <1>1, <1>2 DEF RightTile
<1>4. \A a : Contains(new.assignments, a) <=> a \in A /\ Contains(new.experts, ids[a])
    BY <1>1, <1>2 DEF RightTile
<1>5. Len(new.slots) = Len(new.assignments) /\ IsInjective(new.assignments)
    BY <1>1 DEF RightTile
<1>6. QED
    BY <1>3, <1>4, <1>5 DEF RightTile, new

(* A tile computes one assignment more of one of its experts. *)
LEMMA AssignRight ==
    ASSUME NEW E, NEW tile \in [experts : Seq(E), assignments : Seq(Nat), slots : Seq(Nat)],
           NEW ids, NEW A, RightTile(tile, ids, A), NEW a, a \in Nat, a \notin A,
           NEW pos, pos \in 1..Len(tile.experts), tile.experts[pos] = ids[a]
    PROVE  RightTile(Computing(tile, a, pos), ids, A \cup {a})
<1> DEFINE as == tile.assignments
           sl == tile.slots
           n == Len(as)
           new == [tile EXCEPT !.assignments = Append(@, a), !.slots = Append(@, pos)]
<1>1. /\ new.assignments = Append(as, a) /\ new.slots = Append(sl, pos)
      /\ new.experts = tile.experts /\ as \in Seq(Nat) /\ sl \in Seq(Nat)
    OBVIOUS
<1>2. pos \in Nat /\ Len(sl) = n
  <2>1. Len(tile.experts) \in Nat
    BY LenProperties
  <2>2. QED
    BY <2>1 DEF RightTile
<1>3. ~Contains(as, a) /\ IsInjective(as)
    BY DEF RightTile
<1> HIDE DEF as, sl, new
<1>4. /\ Len(new.assignments) = n + 1 /\ n \in Nat
      /\ \A i \in 1..n : new.assignments[i] = as[i]
      /\ new.assignments[n + 1] = a
      /\ \A i \in 1..(n + 1) : i \in 1..n \/ i = n + 1
      /\ \A y : Contains(new.assignments, y) <=> Contains(as, y) \/ y = a
      /\ IsInjective(new.assignments)
  <2> DEFINE r == Append(as, a)
  <2>1. /\ Len(r) = n + 1 /\ n \in Nat
        /\ \A i \in 1..n : r[i] = as[i]
        /\ r[n + 1] = a
        /\ \A i \in 1..Len(r) : i \in 1..n \/ i = n + 1
        /\ \A y : Contains(r, y) <=> Contains(as, y) \/ y = a
        /\ IsInjective(as) /\ ~Contains(as, a) => IsInjective(r)
    <3> DEFINE N == Nat
    <3>1. as \in Seq(N) /\ a \in N
        BY <1>1
    <3> HIDE DEF N
    <3>2. n \in Nat
        BY <3>1, LenProperties
    <3>3. Len(r) = n + 1
        BY <3>1, AppendProperties
    <3>4. r[n + 1] = a
        BY <3>1, AppendHas
    <3>5. \A i \in 1..n : r[i] = as[i]
        BY <3>1, AppendProperties
    <3>6. \A i \in 1..Len(r) : i \in 1..n \/ i = n + 1
        BY <3>1, AppendHas
    <3>7. \A y : Contains(r, y) <=> Contains(as, y) \/ y = a
        BY <3>1, AppendHas
    <3>8. IsInjective(as) /\ ~Contains(as, a) => IsInjective(r)
        BY <3>1, AppendHas
    <3>9. QED
        BY <3>2, <3>3, <3>4, <3>5, <3>6, <3>7, <3>8
  <2> HIDE DEF r, n
  <2>2. new.assignments = r
    BY <1>1 DEF r
  <2>3. QED
    BY <1>3, <2>1, <2>2
<1>5. /\ Len(new.slots) = n + 1
      /\ \A i \in 1..n : new.slots[i] = sl[i]
      /\ new.slots[n + 1] = pos
  <2> DEFINE r == Append(sl, pos)
             l == Len(sl)
  <2>1. Len(r) = l + 1 /\ (\A i \in 1..l : r[i] = sl[i]) /\ r[l + 1] = pos
    <3> DEFINE N == Nat
    <3>1. sl \in Seq(N) /\ pos \in N
        BY <1>1, <1>2
    <3> HIDE DEF N
    <3>2. QED
        BY <3>1, AppendHas
  <2> HIDE DEF r, n
  <2>2. QED
    BY <1>1, <1>2, <2>1 DEF r
<1> HIDE DEF n
<1>6. ASSUME NEW i \in 1..Len(new.assignments)
      PROVE  /\ new.slots[i] \in 1..Len(new.experts)
             /\ new.experts[new.slots[i]] = ids[new.assignments[i]]
  <2>1. CASE i \in 1..n
    <3>1. new.slots[i] = tile.slots[i] /\ new.assignments[i] = tile.assignments[i]
        BY <1>4, <1>5, <2>1 DEF as, sl
    <3>2. /\ tile.slots[i] \in 1..Len(tile.experts)
          /\ tile.experts[tile.slots[i]] = ids[tile.assignments[i]]
        BY <2>1 DEF RightTile, n, as
    <3>3. QED
        BY <1>1, <3>1, <3>2
  <2>2. CASE i = n + 1
    BY <1>1, <1>4, <1>5, <2>2
  <2>3. QED
    BY <1>4, <2>1, <2>2
<1>7. Contains(tile.experts, ids[a])
    BY DEF Contains
<1>8. \A b : Contains(new.assignments, b) <=> b \in A \cup {a} /\ Contains(new.experts, ids[b])
  <2>1. \A b : Contains(as, b) <=> b \in A /\ Contains(tile.experts, ids[b])
    BY DEF RightTile, as
  <2>2. QED
    BY <1>1, <1>4, <1>7, <2>1
<1>9. QED
    BY <1>4, <1>5, <1>6, <1>8 DEF RightTile, Computing, new

-----------------------------------------------------------------------------
(* Tiles that fit, each computing its part of the assignments A, with the
   experts in the order of their ranks; a plan of A has just A's experts. *)
GoodTiles(tiles, E, ids, A, capacity, rank) ==
    /\ tiles \in Tiles(E) /\ InOrder(tiles, rank)
    /\ \A t \in 1..Len(tiles) :
          Len(tiles[t].experts) \in 1..capacity /\ RightTile(tiles[t], ids, A)

Plan(tiles, E, ids, A, capacity, rank) ==
    /\ GoodTiles(tiles, E, ids, A, capacity, rank)
    /\ \A x : Has(tiles, x) <=> \E a \in A : ids[a] = x

HasToo(new, tiles, id) == \A x : Has(new, x) <=> Has(tiles, x) \/ x = id

(* An expert met for the first time. *)
LEMMA AddKeeps ==
    ASSUME NEW E, NEW tiles, NEW ids, NEW A, NEW capacity, capacity \in Nat \ {0}, NEW rank,
           Plan(tiles, E, ids, A, capacity, rank), NEW id \in E,
           \A a \in A : ids[a] # id /\ rank[ids[a]] < rank[id]
    PROVE  LET new == AddExpert(tiles, id, capacity) IN
           /\ GoodTiles(new, E, ids, A, capacity, rank)
           /\ HasToo(new, tiles, id)
<1> DEFINE new == AddExpert(tiles, id, capacity)
           R == [experts : Seq(E), assignments : Seq(Nat), slots : Seq(Nat)]
<1>1. /\ tiles \in Tiles(E) /\ InOrder(tiles, rank)
      /\ \A t \in 1..Len(tiles) :
            Len(tiles[t].experts) \in 1..capacity /\ RightTile(tiles[t], ids, A)
      /\ \A x : Has(tiles, x) <=> \E a \in A : ids[a] = x
    BY DEF Plan, GoodTiles
<1>2. \A x : Has(tiles, x) => rank[x] < rank[id]
    BY <1>1
<1>3. /\ new \in Tiles(E) /\ InOrder(new, rank)
      /\ \A x : Has(new, x) <=> Has(tiles, x) \/ x = id
      /\ \A t \in 1..Len(new) : Added(new, tiles, t, id, capacity)
  <2> HIDE DEF new
  <2>1. QED
    BY <1>1, <1>2, AddHas DEF new
<1> HIDE DEF new
<1>4. EmptyTile \in R /\ Len(EmptyTile.experts) = 0
      /\ EmptyTile.experts \in Seq(E)
  <2>1. <<>> \in Seq(E) /\ <<>> \in Seq(Nat) /\ Len(<<>>) = 0 /\ DOMAIN <<>> = {}
    BY EmptySeq
  <2>2. QED
    BY <2>1 DEF EmptyTile
<1>5. RightTile([EmptyTile EXCEPT !.experts = Append(@, id)], ids, A)
  <2>1. RightTile(EmptyTile, ids, A)
    <3>1. EmptyTile.assignments = <<>> /\ EmptyTile.experts = <<>> /\ EmptyTile.slots = <<>>
        BY DEF EmptyTile
    <3>2. Len(<<>>) = 0 /\ DOMAIN <<>> = {}
        BY EmptySeq
    <3>3. QED
        BY <3>1, <3>2 DEF RightTile, Contains, IsInjective
  <2>2. \A a \in A : ids[a] # id
    OBVIOUS
  <2>3. QED
    BY <1>4, <2>1, <2>2, AddRight
<1>6. ASSUME NEW t \in 1..Len(new)
      PROVE  Len(new[t].experts) \in 1..capacity /\ RightTile(new[t], ids, A)
  <2>1. CASE t \in 1..Len(tiles) /\ new[t] = tiles[t]
    BY <1>1, <2>1
  <2>2. CASE /\ t \in 1..Len(tiles) /\ Len(tiles[t].experts) # capacity
             /\ new[t] = [tiles[t] EXCEPT !.experts = Append(@, id)]
    <3>1. tiles[t] \in R /\ tiles[t].experts \in Seq(E)
        BY <1>1, <2>2, TileTypes
    <3>2. RightTile(tiles[t], ids, A) /\ \A a \in A : ids[a] # id
        BY <1>1, <2>2
    <3>3. RightTile(new[t], ids, A)
      <4> DEFINE tile == tiles[t]
      <4>1. tile \in R /\ RightTile(tile, ids, A)
          BY <3>1, <3>2
      <4> HIDE DEF tile
      <4>2. RightTile([tile EXCEPT !.experts = Append(@, id)], ids, A)
          BY <3>2, <4>1, AddRight
      <4>3. QED
          BY <2>2, <4>2 DEF tile
    <3>4. Len(new[t].experts) = Len(tiles[t].experts) + 1
      <4>1. new[t].experts = Append(tiles[t].experts, id)
          BY <2>2, <3>1
      <4>2. QED
          BY <3>1, <4>1, AppendProperties
    <3>5. QED
        BY <1>1, <2>2, <3>3, <3>4
  <2>3. CASE new[t] = [EmptyTile EXCEPT !.experts = Append(@, id)]
    <3>1. new[t].experts = Append(EmptyTile.experts, id)
        BY <1>4, <2>3
    <3>2. Len(new[t].experts) = 1
        BY <1>4, <3>1, AppendProperties
    <3>3. QED
        BY <1>5, <2>3, <3>2
  <2>4. QED
    BY <1>3, <2>1, <2>2, <2>3 DEF Added
<1>7. QED
    BY <1>3, <1>6 DEF GoodTiles, HasToo, new

(* One assignment more, to an expert the plan has or a new one of the highest
   rank. *)
LEMMA RouteKeeps ==
    ASSUME NEW E, NEW tiles, NEW ids, NEW A, NEW capacity, capacity \in Nat \ {0},
           NEW rank, rank \in [E -> Int],
           Plan(tiles, E, ids, A, capacity, rank), NEW a, a \in Nat, a \notin A, ids[a] \in E,
           (\A b \in A : ids[b] # ids[a]) => \A b \in A : rank[ids[b]] < rank[ids[a]]
    PROVE  Plan(Route(tiles, ids, a, capacity), E, ids, A \cup {a}, capacity, rank)
<1> DEFINE id == ids[a]
           known == IF Places(tiles, id) = {} THEN AddExpert(tiles, id, capacity) ELSE tiles
           t == CHOOSE t \in Places(known, id) : TRUE
           new == Route(tiles, ids, a, capacity)
           R == [experts : Seq(E), assignments : Seq(Nat), slots : Seq(Nat)]
<1>1. new = Assign(known, t, id, a)
    BY DEF Route
<1>2. \A v \in Tiles(E) : DOMAIN v = 1..Len(v) /\ Len(v) \in Nat
    BY LenProperties DEF Tiles
<1>3. \A v \in Tiles(E) : Places(v, id) # {} <=> Has(v, id)
    BY <1>2 DEF Places, Has
<1>4. tiles \in Tiles(E) /\ \A x : Has(tiles, x) <=> \E b \in A : ids[b] = x
    BY DEF Plan, GoodTiles
<1>5. /\ known \in Tiles(E) /\ InOrder(known, rank)
      /\ \A u \in 1..Len(known) :
            Len(known[u].experts) \in 1..capacity /\ RightTile(known[u], ids, A)
      /\ \A x : Has(known, x) <=> (\E b \in A : ids[b] = x) \/ x = id
  <2>1. CASE Places(tiles, id) = {}
    <3> DEFINE n == AddExpert(tiles, id, capacity)
    <3>1. ~Has(tiles, id) /\ known = n /\ id \in E
        BY <1>3, <1>4, <2>1
    <3>2. \A b \in A : ids[b] # id /\ rank[ids[b]] < rank[id]
        BY <1>4, <3>1
    <3>3. /\ GoodTiles(n, E, ids, A, capacity, rank)
          /\ \A x : Has(n, x) <=> (\E b \in A : ids[b] = x) \/ x = id
      <4> HIDE DEF id
      <4>1. Plan(tiles, E, ids, A, capacity, rank) /\ id \in E /\ capacity \in Nat \ {0}
          BY <3>1
      <4>2. GoodTiles(n, E, ids, A, capacity, rank)
          BY <3>2, <4>1, AddKeeps
      <4>3. HasToo(n, tiles, id)
          BY <3>2, <4>1, AddKeeps
      <4>4. QED
          BY <1>4, <4>2, <4>3 DEF HasToo
    <3> HIDE DEF n, known, id
    <3>4. QED
        BY <3>1, <3>3 DEF GoodTiles
  <2>2. CASE Places(tiles, id) # {}
    <3>1. Has(tiles, id) /\ known = tiles
        BY <1>3, <1>4, <2>2
    <3> HIDE DEF known, id
    <3>2. QED
        BY <1>4, <3>1 DEF Plan, GoodTiles
  <2>3. QED
    BY <2>1, <2>2
<1> HIDE DEF known, id
<1>6. t \in 1..Len(known) /\ Contains(known[t].experts, id)
  <2>1. t \in Places(known, id)
    BY <1>3, <1>5
  <2>2. QED
    BY <1>2, <1>5, <2>1 DEF Places
<1> DEFINE pos == Position(known[t].experts, id)
<1> HIDE DEF t, new, pos
<1>7. /\ new \in Tiles(E) /\ Len(new) = Len(known)
      /\ \A u \in 1..Len(known) : u # t => new[u] = known[u]
      /\ new[t] = Computing(known[t], a, pos)
      /\ pos \in 1..Len(known[t].experts) /\ known[t].experts[pos] = id
  <2>1. Assigned(Assign(known, t, id, a), E, known, t, id, a, Position(known[t].experts, id))
    BY <1>5, <1>6, AssignHas
  <2>2. QED
    BY <1>1, <2>1 DEF pos, Assigned
<1>8. known[t] \in R /\ RightTile(known[t], ids, A)
    BY <1>5, <1>6, TileTypes
<1>9. RightTile(new[t], ids, A \cup {a})
  <2> DEFINE tile == known[t]
  <2>1. tile \in R /\ RightTile(tile, ids, A)
        /\ pos \in 1..Len(tile.experts) /\ tile.experts[pos] = ids[a]
    BY <1>7, <1>8 DEF id
  <2> HIDE DEF tile
  <2>2. RightTile(Computing(tile, a, pos), ids, A \cup {a})
    BY <2>1, AssignRight
  <2>3. QED
    BY <1>7, <2>2 DEF tile
<1>10. \A u \in 1..Len(known) : new[u].experts = known[u].experts
  <2>1. new[t].experts = known[t].experts
    BY <1>7, <1>8 DEF Computing
  <2>2. QED
    BY <1>7, <2>1
<1>11. (\A x : Has(new, x) <=> Has(known, x)) /\ InOrder(new, rank)
    BY <1>5, <1>7, <1>10, SameExperts
<1>12. ASSUME NEW u \in 1..Len(known), u # t PROVE RightTile(new[u], ids, A \cup {a})
  <2>1. new[u] = known[u] /\ RightTile(known[u], ids, A)
    BY <1>5, <1>7, <1>12
  <2>2. ~Contains(known[u].experts, ids[a])
    <3>1. SUFFICES ASSUME Contains(known[u].experts, id) PROVE FALSE
        BY DEF id
    <3>2. id \in E /\ rank[id] \in Int
        BY DEF id
    <3>3. u < t \/ t < u
        BY <1>2, <1>5, <1>6, <1>12
    <3>4. rank[id] < rank[id]
        BY <1>5, <1>6, <3>1, <3>3 DEF InOrder
    <3>5. QED
        BY <3>2, <3>4
  <2>3. QED
    BY <2>1, <2>2 DEF RightTile
<1>13. \A u \in 1..Len(new) :
          Len(new[u].experts) \in 1..capacity /\ RightTile(new[u], ids, A \cup {a})
    BY <1>5, <1>7, <1>9, <1>10, <1>12
<1>14. \A x : Has(new, x) <=> \E b \in A \cup {a} : ids[b] = x
    BY <1>5, <1>11 DEF id
<1>15. QED
    BY <1>7, <1>11, <1>13, <1>14 DEF Plan, GoodTiles, new

(* plan_routes plans all the assignments, the experts in an order in which a
   new one ranks above those before it. *)
LEMMA PlanRoutesPlans ==
    ASSUME NEW E, NEW ids \in Seq(E), NEW capacity, capacity \in Nat \ {0},
           NEW rank, rank \in [E -> Int],
           \A a \in 1..Len(ids) : (\A b \in 1..(a - 1) : ids[b] # ids[a])
               => \A b \in 1..(a - 1) : rank[ids[b]] < rank[ids[a]]
    PROVE  Plan(PlanRoutes(ids, capacity), E, ids, 1..Len(ids), capacity, rank)
<1> DEFINE n == Len(ids)
           Z == Tiles(E)
           none == <<>>
           Good(z, k) == Plan(z, E, ids, 1..k, capacity, rank)
           plan == CHOOSE g : g = [i \in 0..n |-> IF i = 0 THEN <<>>
                                       ELSE Route(g[i - 1], ids, i, capacity)]
           step == [p \in Z \X (1..n) |-> IF Good(p[1], p[2] - 1)
                                          THEN Route(p[1], ids, p[2], capacity) ELSE none]
<1>1. n \in Nat /\ \A i \in 1..n : ids[i] \in E
    BY LenProperties, ElementOfSeq
<1>2. PlanRoutes(ids, capacity) = plan[n]
    BY DEF PlanRoutes
<1>3. none \in Z /\ Good(none, 0)
  <2>1. none \in Seq([experts : Seq(E), assignments : Seq(Nat), slots : Seq(Nat)])
        /\ Len(none) = 0
    BY EmptySeq
  <2>2. 1..0 = {}
    OBVIOUS
  <2>3. none \in Tiles(E)
    BY <2>1 DEF Tiles
  <2> HIDE DEF none
  <2>4. 1..Len(none) = {}
    BY <2>1
  <2>5. QED
    BY <2>2, <2>3, <2>4 DEF Plan, GoodTiles, InOrder, Has
<1> HIDE DEF n, plan
<1>4. ASSUME NEW z \in Z, NEW i \in 1..n, Good(z, i - 1)
      PROVE  Route(z, ids, i, capacity) \in Z /\ Good(Route(z, ids, i, capacity), i)
  <2> DEFINE A == 1..(i - 1)
  <2>1. i \in Nat /\ i \notin A /\ A \cup {i} = 1..i
    BY <1>1
  <2>2. Plan(z, E, ids, A, capacity, rank) /\ ids[i] \in E
    BY <1>1, <1>4
  <2>3. (\A b \in A : ids[b] # ids[i]) => \A b \in A : rank[ids[b]] < rank[ids[i]]
    BY DEF n
  <2> HIDE DEF A
  <2>4. Plan(Route(z, ids, i, capacity), E, ids, A \cup {i}, capacity, rank)
    BY <2>1, <2>2, <2>3, RouteKeeps
  <2>5. QED
    BY <2>1, <2>4 DEF Plan, GoodTiles
<1>5. /\ step \in [Z \X (1..n) -> Z]
      /\ \A z \in Z, i \in 1..n : Good(z, i - 1) => step[<<z, i>>] = Route(z, ids, i, capacity)
  <2> HIDE DEF Z, Good, none
  <2>1. QED
    BY <1>3, <1>4
<1>6. PICK f \in [0..n -> Z] : f[0] = none /\ \A i \in 1..n : f[i] = step[<<f[i - 1], i>>]
  <2> HIDE DEF step, Z, none, Good
  <2>1. PICK g \in [0..n -> Z] : Recurses(g, none, n, step)
    BY <1>1, <1>3, <1>5, Recursion
  <2>2. QED
    BY <2>1 DEF Recurses
<1> HIDE DEF step, Z, Good
<1>7. ASSUME NEW i \in 1..n, Good(f[i - 1], i - 1)
      PROVE  f[i] = Route(f[i - 1], ids, i, capacity) /\ Good(f[i], i)
  <2>1. f[i - 1] \in Z
    <3>1. i - 1 \in 0..n
        BY <1>1
    <3>2. QED
        BY <1>6, <3>1
  <2>2. QED
    BY <1>4, <1>5, <1>6, <1>7, <2>1
<1>8. \A i \in 0..n : Good(f[i], i)
  <2> DEFINE T == {i \in Nat : i <= n => Good(f[i], i)}
  <2>1. 0 \in T
    BY <1>3, <1>6
  <2>2. ASSUME NEW i \in T PROVE i + 1 \in T
    <3> SUFFICES ASSUME i + 1 <= n PROVE Good(f[i + 1], i + 1)
        OBVIOUS
    <3>1. i + 1 \in 1..n /\ (i + 1) - 1 = i /\ Good(f[i], i)
        BY <1>1
    <3>2. QED
        BY <1>7, <3>1
  <2>3. T = Nat
    <3>1. T \in SUBSET Nat
        OBVIOUS
    <3> HIDE DEF T
    <3>2. QED
        BY <2>1, <2>2, <3>1, Induction
  <2>4. \A i \in Nat : i <= n => Good(f[i], i)
    BY <2>3
  <2>5. QED
    BY <1>1, <2>4
<1>9. \A i \in 1..n : f[i] = Route(f[i - 1], ids, i, capacity)
  <2>1. \A i \in 1..n : i - 1 \in 0..n
    BY <1>1
  <2>2. QED
    BY <1>7, <1>8, <2>1
<1>10. f = [i \in 0..n |-> IF i = 0 THEN <<>> ELSE Route(f[i - 1], ids, i, capacity)]
  <2>1. ASSUME NEW i \in 0..n
        PROVE  f[i] = IF i = 0 THEN <<>> ELSE Route(f[i - 1], ids, i, capacity)
    <3>1. CASE i = 0
        BY <1>6, <3>1
    <3>2. CASE i # 0
      <4>1. i \in 1..n
          BY <1>1, <3>2
      <4>2. QED
          BY <1>9, <3>2, <4>1
    <3>3. QED
        BY <3>1, <3>2
  <2>2. QED
    BY <1>6, <2>1
<1>11. plan = [i \in 0..n |-> IF i = 0 THEN <<>> ELSE Route(plan[i - 1], ids, i, capacity)]
    BY <1>10 DEF plan
<1>12. \A i \in 0..n : plan[i] = f[i]
  <2> DEFINE T == {i \in Nat : i <= n => plan[i] = f[i]}
  <2>1. 0 \in T
    BY <1>1, <1>6, <1>11
  <2>2. ASSUME NEW i \in T PROVE i + 1 \in T
    <3> SUFFICES ASSUME i + 1 <= n PROVE plan[i + 1] = f[i + 1]
        OBVIOUS
    <3>1. i + 1 \in 0..n /\ i + 1 \in 1..n /\ i + 1 # 0 /\ (i + 1) - 1 = i /\ plan[i] = f[i]
        BY <1>1
    <3>2. plan[i + 1] = Route(plan[i], ids, i + 1, capacity)
        BY <1>11, <3>1
    <3>3. f[i + 1] = Route(f[i], ids, i + 1, capacity)
        BY <1>9, <3>1
    <3>4. QED
        BY <3>1, <3>2, <3>3
  <2>3. T = Nat
    <3>1. T \in SUBSET Nat
        OBVIOUS
    <3> HIDE DEF T
    <3>2. QED
        BY <2>1, <2>2, <3>1, Induction
  <2>4. \A i \in Nat : i <= n => plan[i] = f[i]
    BY <2>3
  <2>5. QED
    BY <1>1, <2>4
<1>13. QED
  <2>1. n \in 0..n
    BY <1>1
  <2>2. QED
    BY <1>2, <1>8, <1>12, <2>1 DEF Good, n

-----------------------------------------------------------------------------
(* Cutting tiles to given experts.                                         *)
TileFor(tile, experts, E, ids, A) ==
    /\ tile \in [experts : Seq(E), assignments : Seq(Nat), slots : Seq(Nat)]
    /\ tile.experts = experts
    /\ RightTile(tile, ids, A)

(* TileOf computes the assignments of its experts. *)
LEMMA TileOfRight ==
    ASSUME NEW E, NEW experts \in Seq(E), NEW ids \in Seq(E),
           NEW assignments \in Seq(Nat), IsInjective(assignments),
           NEW A, A \subseteq 1..Len(ids),
           \A a : Contains(experts, ids[a]) => (Contains(assignments, a) <=> a \in A)
    PROVE  TileFor(TileOf(experts, ids, assignments), experts, E, ids, A)
<1> DEFINE n == Len(ids)
           S == {a \in DOMAIN ids : Contains(experts, ids[a])}
           mine == Filter(assignments, S)
           k == Len(mine)
           slots == [i \in 1..k |-> Position(experts, ids[mine[i]])]
           tile == TileOf(experts, ids, assignments)
<1>1. mine \in Seq(Nat) /\ IsInjective(mine)
      /\ \A a : Contains(mine, a) <=> Contains(assignments, a) /\ a \in S
  <2> DEFINE N == Nat
  <2>1. assignments \in Seq(N)
    OBVIOUS
  <2> HIDE DEF N, S
  <2>2. /\ mine \in Seq(N)
        /\ \A a : Contains(mine, a) <=> Contains(assignments, a) /\ a \in S
        /\ IsInjective(assignments) => IsInjective(mine)
    BY <2>1, FilterHas
  <2>3. QED
    BY <2>2 DEF N
<1>2. DOMAIN ids = 1..n /\ DOMAIN experts = 1..Len(experts) /\ Len(experts) \in Nat
    BY LenProperties
<1>3. DOMAIN mine = 1..k /\ k \in Nat
  <2> HIDE DEF mine
  <2>1. QED
    BY <1>1, LenProperties
<1>4. tile = [experts |-> experts, assignments |-> mine, slots |-> slots]
    BY <1>3 DEF TileOf
<1> HIDE DEF mine, tile
<1>5. ASSUME NEW i \in 1..k
      PROVE  slots[i] \in 1..Len(experts) /\ experts[slots[i]] = ids[mine[i]]
  <2>1. Contains(mine, mine[i])
    BY DEF Contains, k
  <2>2. Contains(experts, ids[mine[i]])
    BY <1>1, <2>1 DEF S
  <2>3. \E j \in DOMAIN experts : experts[j] = ids[mine[i]]
    BY <1>2, <2>2 DEF Contains
  <2>4. QED
    BY <1>2, <2>3 DEF Position
<1>6. slots \in Seq(Nat) /\ Len(slots) = k
  <2>1. slots \in [1..k -> Nat]
    BY <1>2, <1>5
  <2> DEFINE N == Nat
  <2> HIDE DEF slots, k, N
  <2>2. slots \in Seq(N) /\ Len(slots) = k
    BY <1>3, <2>1, TupleIsSeq DEF N
  <2>3. QED
    BY <2>2 DEF N
<1> HIDE DEF slots
<1>7. tile.experts = experts /\ tile.assignments = mine /\ tile.slots = slots
    BY <1>4
<1>8. tile \in [experts : Seq(E), assignments : Seq(Nat), slots : Seq(Nat)]
    BY <1>1, <1>4, <1>6
<1>9. \A a : Contains(mine, a) <=> a \in A /\ Contains(experts, ids[a])
    BY <1>1, <1>2 DEF S
<1>10. RightTile(tile, ids, A)
    BY <1>1, <1>5, <1>6, <1>7, <1>9 DEF RightTile, k
<1>11. QED
    BY <1>7, <1>8, <1>10 DEF TileFor, tile

(* The tiles that are left of a plan, empty ones too. *)
CutTo(tile, old, selected, E, ids, A, rank) ==
    /\ tile \in [experts : Seq(E), assignments : Seq(Nat), slots : Seq(Nat)]
    /\ Len(tile.experts) <= Len(old.experts)
    /\ Ordered(tile.experts, rank)
    /\ \A x : Contains(tile.experts, x) <=> Contains(old.experts, x) /\ x \in selected
    /\ RightTile(tile, ids, {a \in A : ids[a] \in selected})

LEMMA CutTiles ==
    ASSUME NEW E, NEW ids \in Seq(E), NEW tiles, NEW A, A \subseteq 1..Len(ids),
           NEW capacity, NEW rank, GoodTiles(tiles, E, ids, A, capacity, rank),
           NEW selected, NEW t, t \in 1..Len(tiles)
    PROVE  CutTo(TileOf(Filter(tiles[t].experts, selected), ids, tiles[t].assignments),
                 tiles[t], selected, E, ids, A, rank)
<1> DEFINE old == tiles[t]
           experts == Filter(old.experts, selected)
           B == {a \in A : ids[a] \in selected}
           tile == TileOf(experts, ids, old.assignments)
<1>1. /\ old.experts \in Seq(E) /\ old.assignments \in Seq(Nat)
      /\ Ordered(old.experts, rank) /\ RightTile(old, ids, A)
    BY TileTypes DEF GoodTiles, InOrder
<1> HIDE DEF old
<1>2. /\ experts \in Seq(E) /\ Len(experts) <= Len(old.experts) /\ Ordered(experts, rank)
      /\ \A x : Contains(experts, x) <=> Contains(old.experts, x) /\ x \in selected
    BY <1>1, FilterHas
<1> HIDE DEF experts
<1>3. IsInjective(old.assignments)
      /\ \A a : Contains(experts, ids[a]) => (Contains(old.assignments, a) <=> a \in B)
    BY <1>1, <1>2 DEF RightTile
<1>4. B \subseteq 1..Len(ids)
    OBVIOUS
<1> HIDE DEF B
<1>5. /\ tile \in [experts : Seq(E), assignments : Seq(Nat), slots : Seq(Nat)]
      /\ tile.experts = experts
      /\ RightTile(tile, ids, B)
  <2>1. TileFor(tile, experts, E, ids, B)
    BY <1>1, <1>2, <1>3, <1>4, TileOfRight
  <2>2. QED
    BY <2>1 DEF TileFor
<1>6. QED
    BY <1>2, <1>5 DEF CutTo, tile, old, experts, B

(* A filter of tiles keeps what holds of each of them and their order. *)
LEMMA KeepsGoodTiles ==
    ASSUME NEW E, NEW tiles, NEW keep, NEW ids, NEW A, NEW capacity, NEW rank,
           tiles \in Tiles(E), InOrder(tiles, rank),
           \A t \in 1..Len(tiles) : tiles[t] \in keep =>
               Len(tiles[t].experts) \in 1..capacity /\ RightTile(tiles[t], ids, A),
           \A t \in 1..Len(tiles) : tiles[t] \notin keep => Len(tiles[t].experts) = 0
    PROVE  /\ GoodTiles(Filter(tiles, keep), E, ids, A, capacity, rank)
           /\ \A x : Has(Filter(tiles, keep), x) <=> Has(tiles, x)
<1> DEFINE R == [experts : Seq(E), assignments : Seq(Nat), slots : Seq(Nat)]
           r == Filter(tiles, keep)
<1>1. tiles \in Seq(R)
    BY DEF Tiles
<1> HIDE DEF R
<1>2. r \in Seq(R) /\ \E e : Selects(e, r, tiles, keep)
    BY <1>1, FilterSelects
<1>3. r \in Tiles(E)
    BY <1>2 DEF Tiles, R
<1> HIDE DEF r
<1>4. PICK e : Selects(e, r, tiles, keep)
    BY <1>2
<1>5. /\ \A i \in 1..Len(r) : e[i] \in 1..Len(tiles) /\ r[i] = tiles[e[i]] /\ tiles[e[i]] \in keep
      /\ \A i, j \in 1..Len(r) : i < j => e[i] < e[j]
      /\ \A j \in 1..Len(tiles) : tiles[j] \in keep => \E i \in 1..Len(r) : e[i] = j
    BY <1>4 DEF Selects
<1>6. ASSUME NEW i \in 1..Len(r)
      PROVE  /\ Len(r[i].experts) \in 1..capacity /\ RightTile(r[i], ids, A)
             /\ Ordered(r[i].experts, rank)
  <2>1. e[i] \in 1..Len(tiles) /\ r[i] = tiles[e[i]] /\ tiles[e[i]] \in keep
    BY <1>5
  <2>2. Ordered(tiles[e[i]].experts, rank)
    BY <2>1 DEF InOrder
  <2>3. Len(tiles[e[i]].experts) \in 1..capacity /\ RightTile(tiles[e[i]], ids, A)
    BY <2>1
  <2>4. QED
    BY <2>1, <2>2, <2>3
<1>7. ASSUME NEW i \in 1..Len(r), NEW j \in 1..Len(r), i < j, NEW x, NEW y,
             Contains(r[i].experts, x), Contains(r[j].experts, y)
      PROVE  rank[x] < rank[y]
  <2>1. /\ e[i] \in 1..Len(tiles) /\ e[j] \in 1..Len(tiles) /\ e[i] < e[j]
        /\ r[i] = tiles[e[i]] /\ r[j] = tiles[e[j]]
    BY <1>5, <1>7
  <2>2. Contains(tiles[e[i]].experts, x) /\ Contains(tiles[e[j]].experts, y)
    BY <1>7, <2>1
  <2>3. QED
    BY <2>1, <2>2 DEF InOrder
<1>8. GoodTiles(r, E, ids, A, capacity, rank)
    BY <1>3, <1>6, <1>7 DEF GoodTiles, InOrder
<1>9. ASSUME NEW x PROVE Has(r, x) <=> Has(tiles, x)
  <2>1. ASSUME Has(r, x) PROVE Has(tiles, x)
    BY <1>5, <2>1 DEF Has
  <2>2. ASSUME Has(tiles, x) PROVE Has(r, x)
    <3>1. PICK t \in 1..Len(tiles) : Contains(tiles[t].experts, x)
        BY <2>2 DEF Has
    <3>2. tiles[t] \in keep
      <4>1. SUFFICES ASSUME Len(tiles[t].experts) = 0 PROVE FALSE
          OBVIOUS
      <4>2. QED
          BY <3>1, <4>1 DEF Contains
    <3>3. PICK i \in 1..Len(r) : e[i] = t
        BY <1>5, <3>2
    <3>4. r[i] = tiles[t]
        BY <1>5, <3>3
    <3>5. QED
        BY <3>1, <3>4 DEF Has
  <2>3. QED
    BY <2>1, <2>2
<1>10. QED
    BY <1>8, <1>9 DEF r

(* The assignments to the selected experts. *)
Chosen(A, ids, selected) == {a \in A : ids[a] \in selected}

(* execute_ffn's selection leaves a plan of the selected experts' assignments. *)
LEMMA KeepSelectedPlans ==
    ASSUME NEW E, NEW ids \in Seq(E), NEW tiles, NEW A, A \subseteq 1..Len(ids),
           NEW capacity, capacity \in Nat, NEW rank, Plan(tiles, E, ids, A, capacity, rank),
           NEW selected
    PROVE  Plan(KeepSelected(tiles, ids, selected), E, ids,
                Chosen(A, ids, selected), capacity, rank)
<1> DEFINE R == [experts : Seq(E), assignments : Seq(Nat), slots : Seq(Nat)]
           n == Len(tiles)
           Cut(t) == TileOf(Filter(tiles[t].experts, selected), ids, tiles[t].assignments)
           cut == [t \in 1..n |-> Cut(t)]
           keep == {tile \in ToSet(cut) : tile.experts # <<>>}
           B == {a \in A : ids[a] \in selected}
<1>1. /\ GoodTiles(tiles, E, ids, A, capacity, rank) /\ tiles \in Tiles(E)
      /\ \A x : Has(tiles, x) <=> \E a \in A : ids[a] = x
      /\ DOMAIN tiles = 1..n /\ n \in Nat
    BY LenProperties DEF Plan, GoodTiles, Tiles
<1>2. KeepSelected(tiles, ids, selected) = Filter(cut, keep)
    BY <1>1 DEF KeepSelected, NotEmpty
<1> HIDE DEF n, Cut
<1>3. ASSUME NEW t \in 1..n
      PROVE  /\ Cut(t) \in R /\ Len(Cut(t).experts) <= Len(tiles[t].experts)
             /\ Ordered(Cut(t).experts, rank)
             /\ \A x : Contains(Cut(t).experts, x)
                         <=> Contains(tiles[t].experts, x) /\ x \in selected
             /\ RightTile(Cut(t), ids, B)
  <2>1. CutTo(Cut(t), tiles[t], selected, E, ids, A, rank)
    BY <1>1, CutTiles DEF Cut, n
  <2>2. QED
    BY <2>1 DEF CutTo
<1> HIDE DEF R, B
<1>4. cut \in Seq(R) /\ Len(cut) = n
  <2>1. cut \in [1..n -> R]
    BY <1>3
  <2> HIDE DEF cut
  <2>2. QED
    BY <1>1, <2>1, TupleIsSeq
<1>5. DOMAIN cut = 1..n /\ \A t \in 1..n : cut[t] = Cut(t)
    OBVIOUS
<1> HIDE DEF cut
<1>6. InOrder(cut, rank)
  <2>1. \A t \in 1..n : Ordered(cut[t].experts, rank)
    BY <1>3, <1>5
  <2>2. ASSUME NEW t \in 1..n, NEW u \in 1..n, t < u, NEW x, NEW y,
               Contains(cut[t].experts, x), Contains(cut[u].experts, y)
        PROVE  rank[x] < rank[y]
    <3>1. Contains(tiles[t].experts, x) /\ Contains(tiles[u].experts, y)
        BY <1>3, <1>5, <2>2
    <3>2. QED
        BY <1>1, <2>2, <3>1 DEF GoodTiles, InOrder, n
  <2>3. QED
    BY <1>4, <2>1, <2>2 DEF InOrder
<1>7. ASSUME NEW t \in 1..n
      PROVE  /\ cut[t] \in keep => Len(cut[t].experts) \in 1..capacity /\ RightTile(cut[t], ids, B)
             /\ cut[t] \notin keep => Len(cut[t].experts) = 0
  <2>1. cut[t].experts \in Seq(E) /\ Len(cut[t].experts) \in Nat
    <3>1. cut[t].experts \in Seq(E)
        BY <1>3, <1>5 DEF R
    <3>2. QED
        BY <3>1, LenProperties
  <2>2. Len(cut[t].experts) <= Len(tiles[t].experts) /\ Len(tiles[t].experts) \in 1..capacity
    BY <1>1, <1>3, <1>5 DEF GoodTiles, n
  <2>3. cut[t] \in ToSet(cut)
    BY <1>5 DEF ToSet
  <2>4. CASE cut[t].experts = <<>>
    <3>1. Len(cut[t].experts) = 0
        BY <2>4, EmptySeq
    <3>2. QED
        BY <2>4, <3>1
  <2>5. CASE cut[t].experts # <<>>
    <3>1. Len(cut[t].experts) # 0
        BY <2>1, <2>5, EmptySeq
    <3>2. RightTile(cut[t], ids, B)
        BY <1>3, <1>5
    <3>3. QED
        BY <2>1, <2>2, <2>3, <2>5, <3>1, <3>2
  <2>6. QED
    BY <2>4, <2>5
<1> HIDE DEF keep
<1>8. cut \in Tiles(E)
    BY <1>4 DEF Tiles, R
<1>9. /\ GoodTiles(Filter(cut, keep), E, ids, B, capacity, rank)
      /\ \A x : Has(Filter(cut, keep), x) <=> Has(cut, x)
    BY <1>4, <1>6, <1>7, <1>8, KeepsGoodTiles
<1>10. \A x : Has(cut, x) <=> Has(tiles, x) /\ x \in selected
    BY <1>3, <1>4, <1>5 DEF Has, n
<1>11. \A x : Has(Filter(cut, keep), x) <=> \E a \in B : ids[a] = x
    BY <1>1, <1>9, <1>10 DEF B
<1>12. QED
    BY <1>2, <1>9, <1>11 DEF Plan, Chosen, B

-----------------------------------------------------------------------------
(* The hits first, and tiles of them again.                                *)
(* The rank among the hits, and past all of theirs for the others. *)
HitRank(rank, hits, E, n) == [x \in E |-> IF x \in hits THEN rank[x] ELSE rank[x] + n]

(* prioritize_hits keeps the experts, by rank among the hits and then among the rest. *)
LEMMA HitsFirstHas ==
    ASSUME NEW E, NEW tiles \in Tiles(E), NEW hits, NEW n, n \in Nat,
           NEW rank, rank \in [E -> 1..n], InOrder(tiles, rank)
    PROVE  /\ HitsThenMisses(tiles, hits) \in Seq(E)
           /\ \A x : Contains(HitsThenMisses(tiles, hits), x) <=> Has(tiles, x)
           /\ Ordered(HitsThenMisses(tiles, hits), HitRank(rank, hits, E, n))
<1> DEFINE order == ExpertsInOrder(tiles)
           a == Filter(order, hits)
           S == ToSet(order) \ hits
           b == Filter(order, S)
           top == HitRank(rank, hits, E, n)
<1>1. HitsThenMisses(tiles, hits) = a \o b
    BY DEF HitsThenMisses
<1>2. /\ order \in Seq(E) /\ Ordered(order, rank)
      /\ \A x : Contains(order, x) <=> Has(tiles, x)
    BY OrderHas
<1> HIDE DEF order
<1>3. \A x : x \in S <=> Contains(order, x) /\ x \notin hits
  <2>1. DOMAIN order = 1..Len(order)
    BY <1>2, LenProperties
  <2>2. QED
    BY <2>1 DEF ToSet, Contains
<1> HIDE DEF S
<1>4. /\ a \in Seq(E) /\ b \in Seq(E) /\ Ordered(a, rank) /\ Ordered(b, rank)
      /\ \A x : Contains(a, x) <=> Contains(order, x) /\ x \in hits
      /\ \A x : Contains(b, x) <=> Contains(order, x) /\ x \notin hits
    BY <1>2, <1>3, FilterHas
<1> HIDE DEF a, b
<1>5. \A x \in E : rank[x] \in 1..n /\ top[x] = IF x \in hits THEN rank[x] ELSE rank[x] + n
    BY DEF HitRank
<1> HIDE DEF top
<1>6. /\ \A i \in 1..Len(a) : a[i] \in E /\ a[i] \in hits
      /\ \A i \in 1..Len(b) : b[i] \in E /\ b[i] \notin hits
  <2>1. \A i \in 1..Len(a) : a[i] \in E /\ Contains(a, a[i])
    BY <1>4, ElementOfSeq DEF Contains
  <2>2. \A i \in 1..Len(b) : b[i] \in E /\ Contains(b, b[i])
    BY <1>4, ElementOfSeq DEF Contains
  <2>3. QED
    BY <1>4, <2>1, <2>2
<1>7. Ordered(a, top)
    BY <1>4, <1>5, <1>6 DEF Ordered
<1>8. Ordered(b, top)
  <2> SUFFICES ASSUME NEW i \in 1..Len(b), NEW j \in 1..Len(b), i < j PROVE top[b[i]] < top[b[j]]
    BY DEF Ordered
  <2>1. rank[b[i]] < rank[b[j]]
    BY <1>4 DEF Ordered
  <2>2. /\ top[b[i]] = rank[b[i]] + n /\ rank[b[i]] \in Int
        /\ top[b[j]] = rank[b[j]] + n /\ rank[b[j]] \in Int
    BY <1>5, <1>6
  <2>3. QED
    BY <2>1, <2>2
<1>9. ASSUME NEW x, NEW y, Contains(a, x), Contains(b, y) PROVE top[x] < top[y]
  <2>1. x \in E /\ y \in E /\ x \in hits /\ y \notin hits
    BY <1>6, <1>9 DEF Contains
  <2>2. /\ top[x] = rank[x] /\ rank[x] \in 1..n
        /\ top[y] = rank[y] + n /\ rank[y] \in 1..n
    BY <1>5, <2>1
  <2>3. QED
    BY <2>2
<1>10. /\ a \o b \in Seq(E) /\ Ordered(a \o b, top)
       /\ \A x : Contains(a \o b, x) <=> Contains(a, x) \/ Contains(b, x)
    BY <1>4, <1>7, <1>8, <1>9, ConcatHas
<1>11. QED
    BY <1>1, <1>2, <1>4, <1>10 DEF top

(* What a stretch of a sequence has. *)
LEMMA SubSeqHas ==
    ASSUME NEW E, NEW s \in Seq(E), NEW lo, lo \in Nat \ {0}, NEW hi, hi \in Nat,
           lo <= hi, hi <= Len(s), NEW rank
    PROVE  /\ SubSeq(s, lo, hi) \in Seq(E) /\ Len(SubSeq(s, lo, hi)) = hi - lo + 1
           /\ \A x : Contains(SubSeq(s, lo, hi), x) <=> \E i \in lo..hi : s[i] = x
           /\ Ordered(s, rank) => Ordered(SubSeq(s, lo, hi), rank)
<1> DEFINE r == SubSeq(s, lo, hi)
           m == Len(s)
<1>1. m \in Nat /\ \A i \in 1..m : s[i] \in E
    BY LenProperties, ElementOfSeq
<1>2. \A i \in lo..hi : i \in 1..m /\ s[i] \in E
    BY <1>1
<1>3. /\ r \in Seq(E) /\ Len(r) = hi - lo + 1
      /\ \A i \in 1..(hi - lo + 1) : r[i] = s[lo + i - 1]
    BY <1>2, SubSeqProperties
<1> HIDE DEF r
<1>4. \A i \in 1..Len(r) : lo + i - 1 \in lo..hi /\ r[i] = s[lo + i - 1]
  <2> SUFFICES ASSUME NEW i \in 1..Len(r) PROVE lo + i - 1 \in lo..hi /\ r[i] = s[lo + i - 1]
    OBVIOUS
  <2>1. i \in 1..(hi - lo + 1)
    BY <1>3
  <2>2. lo + i - 1 \in lo..hi
    BY <2>1
  <2>3. QED
    BY <1>3, <2>1, <2>2
<1>5. \A i \in lo..hi : i - lo + 1 \in 1..Len(r) /\ r[i - lo + 1] = s[i]
  <2> SUFFICES ASSUME NEW i \in lo..hi PROVE i - lo + 1 \in 1..Len(r) /\ r[i - lo + 1] = s[i]
    OBVIOUS
  <2> DEFINE k == i - lo + 1
  <2>1. k \in 1..(hi - lo + 1) /\ lo + k - 1 = i
    OBVIOUS
  <2> HIDE DEF k
  <2>2. r[k] = s[i] /\ k \in 1..Len(r)
    BY <1>3, <2>1
  <2>3. QED
    BY <2>2 DEF k
<1>6. \A x : Contains(r, x) <=> \E i \in lo..hi : s[i] = x
    BY <1>4, <1>5 DEF Contains
<1>7. ASSUME Ordered(s, rank) PROVE Ordered(r, rank)
  <2> SUFFICES ASSUME NEW i \in 1..Len(r), NEW j \in 1..Len(r), i < j PROVE rank[r[i]] < rank[r[j]]
    BY DEF Ordered
  <2>1. /\ lo + i - 1 \in 1..m /\ r[i] = s[lo + i - 1]
        /\ lo + j - 1 \in 1..m /\ r[j] = s[lo + j - 1]
    BY <1>2, <1>4
  <2>2. lo + i - 1 < lo + j - 1
    BY <1>3
  <2>3. QED
    BY <1>7, <2>1, <2>2 DEF Ordered, m
<1>8. QED
    BY <1>3, <1>6, <1>7 DEF r

(* 1..m in stretches of c. *)
LEMMA Cuts ==
    ASSUME NEW m \in Nat, NEW c \in Nat \ {0}
    PROVE  LET q == (m + c - 1) \div c IN
           /\ q \in Nat
           /\ \A t \in 1..q : t * c \in Nat /\ (t - 1) * c \in Nat
                           /\ (t - 1) * c + 1 <= m /\ t * c = (t - 1) * c + c
           /\ \A t, u \in 1..q : t < u => t * c <= (u - 1) * c
           /\ \A i \in 1..m : \E t \in 1..q : (t - 1) * c + 1 <= i /\ i <= t * c
<1> DEFINE q == (m + c - 1) \div c
<1>1. q \in Nat /\ q * c <= m + c - 1 /\ m + c - 1 < q * c + c
    OBVIOUS
<1> HIDE DEF q
<1>2. \A x, y \in Nat : x <= y => x * c <= y * c
    OBVIOUS
<1>3. \A t \in Int : t * c \in Int /\ (t - 1) * c = t * c - c
    OBVIOUS
<1>4. ASSUME NEW t \in 1..q
      PROVE  t * c \in Nat /\ (t - 1) * c \in Nat /\ (t - 1) * c + 1 <= m /\ t * c = (t - 1) * c + c
  <2>1. t * c <= q * c
    BY <1>1, <1>2
  <2>2. (t - 1) * c \in Nat /\ t * c \in Nat
    BY <1>1
  <2>3. QED
    BY <1>1, <1>3, <2>1, <2>2
<1>5. ASSUME NEW t \in 1..q, NEW u \in 1..q, t < u PROVE t * c <= (u - 1) * c
  <2>1. t \in Nat /\ u - 1 \in Nat /\ t <= u - 1
    BY <1>1, <1>5
  <2>2. QED
    BY <1>2, <2>1
<1>6. ASSUME NEW i \in 1..m PROVE \E t \in 1..q : (t - 1) * c + 1 <= i /\ i <= t * c
  <2> DEFINE d == (i - 1) \div c
  <2>1. d \in Nat /\ d * c <= i - 1 /\ i - 1 < d * c + c
    OBVIOUS
  <2> HIDE DEF d
  <2>2. (d + 1) * c = d * c + c /\ ((d + 1) - 1) * c = d * c
    BY <2>1
  <2>3. d + 1 <= q
    <3> SUFFICES ASSUME q < d + 1 PROVE FALSE
        BY <1>1, <2>1
    <3>1. q * c <= d * c
        BY <1>1, <1>2, <2>1
    <3>2. q * c \in Int /\ d * c \in Int
        BY <1>1, <2>1
    <3>3. QED
        BY <1>1, <2>1, <3>1, <3>2
  <2> DEFINE t == d + 1
  <2>4. t \in 1..q
    BY <1>1, <2>1, <2>3
  <2>5. (t - 1) * c + 1 <= i /\ i <= t * c
    <3>1. d * c \in Int
        BY <2>1
    <3> DEFINE dc == d * c
    <3>2. (t - 1) * c = dc /\ t * c = dc + c /\ dc \in Int /\ dc <= i - 1 /\ i - 1 < dc + c
        BY <2>1, <2>2, <3>1
    <3> HIDE DEF dc, t
    <3>3. QED
        BY <3>2
  <2> HIDE DEF t
  <2>6. QED
    BY <2>4, <2>5
<1>7. QED
    BY <1>1, <1>4, <1>5, <1>6 DEF q

(* The experts of A in order, cut into tiles of the capacity, are a plan of A. *)
LEMMA RetiledPlans ==
    ASSUME NEW E, NEW ids \in Seq(E), NEW order \in Seq(E), NEW A, A \subseteq 1..Len(ids),
           NEW capacity, capacity \in Nat \ {0}, NEW rank, Ordered(order, rank),
           \A a \in 1..Len(ids) : Contains(order, ids[a]) <=> a \in A,
           \A x : Contains(order, x) => \E a \in A : ids[a] = x
    PROVE  Plan(Retiled(order, ids, capacity), E, ids, A, capacity, rank)
<1> DEFINE R == [experts : Seq(E), assignments : Seq(Nat), slots : Seq(Nat)]
           m == Len(order)
           q == (m + capacity - 1) \div capacity
           lo(t) == (t - 1) * capacity + 1
           hi(t) == Min({t * capacity, m})
           all == [a \in DOMAIN ids |-> a]
           sub(t) == SubSeq(order, lo(t), hi(t))
           made(t) == TileOf(sub(t), ids, all)
           tiles == Retiled(order, ids, capacity)
<1>1. m \in Nat /\ DOMAIN ids = 1..Len(ids) /\ Len(ids) \in Nat
    BY LenProperties
<1>2. tiles = [t \in 1..q |-> made(t)]
    BY DEF Retiled
<1>3. /\ q \in Nat
      /\ \A t \in 1..q : t * capacity \in Nat /\ (t - 1) * capacity \in Nat
                         /\ (t - 1) * capacity + 1 <= m
                         /\ t * capacity = (t - 1) * capacity + capacity
      /\ \A t, u \in 1..q : t < u => t * capacity <= (u - 1) * capacity
      /\ \A i \in 1..m : \E t \in 1..q : (t - 1) * capacity + 1 <= i /\ i <= t * capacity
  <2> HIDE DEF m
  <2>1. QED
    BY <1>1, Cuts
<1> HIDE DEF q, m
<1>4. ASSUME NEW t \in 1..q
      PROVE  /\ lo(t) \in Nat \ {0} /\ hi(t) \in Nat /\ lo(t) <= hi(t) /\ hi(t) <= m
             /\ hi(t) - lo(t) + 1 \in 1..capacity
             /\ hi(t) <= t * capacity
             /\ \A i \in 1..m : lo(t) <= i /\ i <= t * capacity => i \in lo(t)..hi(t)
  <2> DEFINE tc == t * capacity
             bc == (t - 1) * capacity
             I == {tc, m}
  <2>1. tc \in Nat /\ bc \in Nat /\ bc + 1 <= m /\ tc = bc + capacity /\ m \in Nat
    BY <1>1, <1>3
  <2> HIDE DEF tc, bc
  <2>2. Min(I) \in I /\ \A y \in I : Min(I) <= y
    <3>1. I \in SUBSET Nat /\ I # {}
        BY <2>1
    <3> HIDE DEF I
    <3>2. QED
        BY <3>1, LeastElement
  <2>3. lo(t) = bc + 1 /\ hi(t) = Min(I)
    BY DEF tc, bc
  <2> DEFINE h == Min(I)
  <2>4. h \in Nat /\ (h = tc \/ h = m) /\ h <= tc /\ h <= m
    BY <2>1, <2>2
  <2> HIDE DEF h, I, lo, hi
  <2>5. /\ bc + 1 <= h /\ h - (bc + 1) + 1 \in 1..capacity
        /\ \A i \in 1..m : bc + 1 <= i /\ i <= tc => i \in (bc + 1)..h
    BY <2>1, <2>4
  <2>6. QED
    BY <2>1, <2>3, <2>4, <2>5 DEF h, tc
<1> HIDE DEF hi
<1>5. ASSUME NEW t \in 1..q
      PROVE  /\ sub(t) \in Seq(E) /\ Len(sub(t)) \in 1..capacity /\ Ordered(sub(t), rank)
             /\ \A x : Contains(sub(t), x) <=> \E i \in lo(t)..hi(t) : order[i] = x
  <2> DEFINE l == lo(t)
             h == hi(t)
  <2>1. l \in Nat \ {0} /\ h \in Nat /\ l <= h /\ h <= Len(order) /\ h - l + 1 \in 1..capacity
    BY <1>4 DEF m
  <2> HIDE DEF l, h
  <2>2. /\ SubSeq(order, l, h) \in Seq(E) /\ Len(SubSeq(order, l, h)) = h - l + 1
        /\ \A x : Contains(SubSeq(order, l, h), x) <=> \E i \in l..h : order[i] = x
        /\ Ordered(order, rank) => Ordered(SubSeq(order, l, h), rank)
    BY <2>1, SubSeqHas
  <2>3. QED
    BY <2>1, <2>2 DEF l, h
<1> HIDE DEF lo, sub
<1>6. ASSUME NEW t \in 1..q PROVE \A x : Contains(sub(t), x) => Contains(order, x)
  <2>1. \A i \in lo(t)..hi(t) : i \in 1..m
    BY <1>1, <1>4
  <2>2. ASSUME NEW x, Contains(sub(t), x) PROVE Contains(order, x)
    <3>1. PICK i \in lo(t)..hi(t) : order[i] = x
        BY <1>5, <2>2
    <3>2. i \in 1..Len(order)
        BY <2>1 DEF m
    <3>3. QED
        BY <3>1, <3>2 DEF Contains
  <2>3. QED
    BY <2>2
<1>7. all \in Seq(Nat) /\ IsInjective(all) /\ \A a : Contains(all, a) <=> a \in 1..Len(ids)
  <2> DEFINE l == Len(ids)
             N == Nat
  <2>1. all \in [1..l -> N] /\ l \in Nat /\ \A a \in 1..l : all[a] = a
    BY <1>1
  <2> HIDE DEF l, N, all
  <2>2. all \in Seq(N) /\ Len(all) = l
    BY <2>1, TupleIsSeq
  <2>3. IsInjective(all) /\ \A a : Contains(all, a) <=> a \in 1..l
    BY <2>1, <2>2 DEF IsInjective, Contains
  <2>4. QED
    BY <2>2, <2>3 DEF l, N
<1> HIDE DEF all
<1>8. ASSUME NEW t \in 1..q
      PROVE  made(t) \in R /\ made(t).experts = sub(t) /\ RightTile(made(t), ids, A)
  <2>1. ASSUME NEW a, Contains(sub(t), ids[a]) PROVE Contains(all, a) <=> a \in A
    BY <1>6, <1>7, <2>1
  <2> DEFINE x == sub(t)
  <2>2. x \in Seq(E) /\ \A a : Contains(x, ids[a]) => (Contains(all, a) <=> a \in A)
    BY <1>5, <2>1
  <2> HIDE DEF x
  <2>3. TileFor(TileOf(x, ids, all), x, E, ids, A)
    BY <1>7, <2>2, TileOfRight
  <2>4. QED
    BY <2>3 DEF TileFor, x
<1> HIDE DEF made, R
<1>9. tiles \in Seq(R) /\ Len(tiles) = q /\ \A t \in 1..q : tiles[t] = made(t)
  <2>1. tiles \in [1..q -> R] /\ \A t \in 1..q : tiles[t] = made(t)
    BY <1>2, <1>8
  <2> HIDE DEF tiles
  <2>2. QED
    BY <1>3, <2>1, TupleIsSeq
<1> HIDE DEF tiles
<1>10. ASSUME NEW t \in 1..q, NEW u \in 1..q, t < u, NEW x, NEW y,
              Contains(sub(t), x), Contains(sub(u), y)
       PROVE  rank[x] < rank[y]
  <2>1. PICK i \in lo(t)..hi(t) : order[i] = x
    BY <1>5, <1>10
  <2>2. PICK j \in lo(u)..hi(u) : order[j] = y
    BY <1>5, <1>10
  <2>3. /\ t * capacity \in Nat /\ (u - 1) * capacity \in Nat
        /\ t * capacity <= (u - 1) * capacity /\ lo(u) = (u - 1) * capacity + 1
    BY <1>3, <1>10 DEF lo
  <2> DEFINE h == hi(t)
             l == lo(u)
             k == t * capacity
             b == (u - 1) * capacity
  <2>4. /\ k \in Nat /\ b \in Nat /\ k <= b /\ l = b + 1 /\ h <= k
        /\ h \in Nat /\ h <= m /\ lo(t) \in Nat \ {0} /\ hi(u) \in Nat /\ hi(u) <= m
    BY <1>4, <2>3
  <2>5. i \in lo(t)..h /\ j \in l..hi(u)
    OBVIOUS
  <2> HIDE DEF h, l, k, b
  <2>6. i \in 1..m /\ j \in 1..m /\ i < j
    BY <1>1, <2>4, <2>5
  <2>7. QED
    BY <2>1, <2>2, <2>6 DEF Ordered, m
<1>11. \A t \in 1..q : tiles[t] \in R /\ tiles[t].experts = sub(t) /\ RightTile(tiles[t], ids, A)
    BY <1>8, <1>9
<1>12. InOrder(tiles, rank)
  <2>1. \A t \in 1..q : Ordered(tiles[t].experts, rank)
    BY <1>5, <1>11
  <2>2. ASSUME NEW t \in 1..q, NEW u \in 1..q, t < u, NEW x, NEW y,
               Contains(tiles[t].experts, x), Contains(tiles[u].experts, y)
        PROVE  rank[x] < rank[y]
    <3>1. Contains(sub(t), x) /\ Contains(sub(u), y)
        BY <1>11, <2>2
    <3>2. QED
        BY <1>10, <2>2, <3>1
  <2>3. QED
    BY <1>9, <2>1, <2>2 DEF InOrder
<1>13. GoodTiles(tiles, E, ids, A, capacity, rank)
    BY <1>5, <1>8, <1>9, <1>12 DEF GoodTiles, Tiles, R
<1>14. \A x : Has(tiles, x) <=> Contains(order, x)
  <2>1. ASSUME NEW x, Contains(order, x) PROVE Has(tiles, x)
    <3>1. PICK i \in 1..m : order[i] = x
        BY <2>1 DEF Contains, m
    <3>2. PICK t \in 1..q : (t - 1) * capacity + 1 <= i /\ i <= t * capacity
        BY <1>3
    <3>3. i \in lo(t)..hi(t)
        BY <1>4, <3>2 DEF lo
    <3>4. Contains(tiles[t].experts, x)
        BY <1>5, <1>8, <1>9, <3>1, <3>3
    <3>5. QED
        BY <1>9, <3>4 DEF Has
  <2>2. ASSUME NEW x, Has(tiles, x) PROVE Contains(order, x)
    <3>1. PICK t \in 1..q : Contains(tiles[t].experts, x)
        BY <1>9, <2>2 DEF Has
    <3>2. QED
        BY <1>6, <1>11, <3>1
  <2>3. QED
    BY <2>1, <2>2
<1>15. \A x : Contains(order, x) <=> \E a \in A : ids[a] = x
    OBVIOUS
<1>16. QED
    BY <1>13, <1>14, <1>15 DEF Plan, tiles

-----------------------------------------------------------------------------
(* The stages in a row, experts ranked by their first assignment.          *)
Named(ids) == {ids[a] : a \in DOMAIN ids}
First(ids, e) == CHOOSE a \in DOMAIN ids : ids[a] = e /\ \A b \in 1..(a - 1) : ids[b] # e
FirstIn(ids) == [e \in Named(ids) |-> First(ids, e)]

(* Every expert that is named has a first assignment. *)
LEMMA FirstRanks ==
    ASSUME NEW S, NEW ids \in Seq(S)
    PROVE  /\ DOMAIN ids = 1..Len(ids) /\ Len(ids) \in Nat /\ ids \in Seq(Named(ids))
           /\ FirstIn(ids) \in [Named(ids) -> 1..Len(ids)]
           /\ \A a \in 1..Len(ids) : ids[a] \in Named(ids) /\ FirstIn(ids)[ids[a]] <= a
           /\ \A e \in Named(ids) : ids[FirstIn(ids)[e]] = e
<1> DEFINE n == Len(ids)
           E == Named(ids)
<1>1. DOMAIN ids = 1..n /\ n \in Nat
    BY LenProperties
<1>2. \A a \in 1..n : ids[a] \in E
    BY <1>1 DEF Named
<1>3. ids \in Seq(E)
  <2>1. ids \in [1..n -> E]
    <3> HIDE DEF n, E
    <3>1. ids = [a \in DOMAIN ids |-> ids[a]]
        BY SeqDef
    <3>2. QED
        BY <1>1, <1>2, <3>1
  <2> HIDE DEF n, E
  <2>2. QED
    BY <1>1, <2>1, TupleIsSeq
<1> HIDE DEF n
<1>4. ASSUME NEW e \in E
      PROVE  /\ First(ids, e) \in 1..n /\ ids[First(ids, e)] = e
             /\ \A a \in 1..n : ids[a] = e => First(ids, e) <= a
  <2> DEFINE I == {a \in 1..n : ids[a] = e}
             f == First(ids, e)
  <2>1. I \in SUBSET Nat /\ I # {}
    BY <1>1 DEF Named, n
  <2>2. Min(I) \in I /\ \A y \in I : Min(I) <= y
    <3> HIDE DEF I
    <3>1. QED
        BY <2>1, LeastElement
  <2> DEFINE m == Min(I)
  <2>3. m \in 1..n /\ ids[m] = e /\ \A a \in 1..n : ids[a] = e => m <= a
    BY <2>2
  <2> HIDE DEF m
  <2>4. \A b \in 1..(m - 1) : ids[b] # e
    <3> SUFFICES ASSUME NEW b \in 1..(m - 1), ids[b] = e PROVE FALSE
        OBVIOUS
    <3>1. b \in 1..n /\ b < m
        BY <1>1, <2>3
    <3>2. m <= b
        BY <2>3, <3>1
    <3>3. QED
        BY <1>1, <2>3, <3>1, <3>2
  <2>5. f \in 1..n /\ ids[f] = e /\ \A b \in 1..(f - 1) : ids[b] # e
    BY <1>1, <2>3, <2>4 DEF First
  <2> HIDE DEF f
  <2>6. ASSUME NEW a \in 1..n, ids[a] = e PROVE f <= a
    <3>1. a \notin 1..(f - 1)
        BY <2>5, <2>6
    <3>2. QED
        BY <1>1, <2>5, <3>1
  <2>7. QED
    BY <2>5, <2>6 DEF f
<1>5. FirstIn(ids) \in [E -> 1..n] /\ \A e \in E : FirstIn(ids)[e] = First(ids, e)
    BY <1>4 DEF FirstIn
<1>6. QED
    BY <1>1, <1>2, <1>3, <1>4, <1>5 DEF n

(* plan_routes plans every assignment. *)
LEMMA PlanRoutesFirst ==
    ASSUME NEW S, NEW ids \in Seq(S), NEW capacity, capacity \in Nat \ {0}
    PROVE  Plan(PlanRoutes(ids, capacity), Named(ids), ids, 1..Len(ids), capacity, FirstIn(ids))
<1> DEFINE n == Len(ids)
           E == Named(ids)
           rank == FirstIn(ids)
<1>1. /\ ids \in Seq(E) /\ n \in Nat /\ rank \in [E -> 1..n]
      /\ \A a \in 1..n : ids[a] \in E /\ rank[ids[a]] <= a
      /\ \A e \in E : ids[rank[e]] = e
    BY FirstRanks
<1> HIDE DEF rank, n, E
<1>2. ASSUME NEW a \in 1..n, \A b \in 1..(a - 1) : ids[b] # ids[a], NEW b \in 1..(a - 1)
      PROVE  rank[ids[b]] < rank[ids[a]]
  <2> DEFINE ra == rank[ids[a]]
             rb == rank[ids[b]]
  <2>1. a \in Nat /\ b \in Nat /\ b \in 1..n /\ b < a
    BY <1>1
  <2>2. /\ ra \in 1..n /\ ra <= a /\ ids[ra] = ids[a]
        /\ rb \in 1..n /\ rb <= b
    BY <1>1, <2>1
  <2> HIDE DEF ra, rb
  <2>3. ra \notin 1..(a - 1)
    BY <1>2, <2>2
  <2>4. rb < ra
    BY <1>1, <2>1, <2>2, <2>3
  <2>5. QED
    BY <2>4 DEF ra, rb
<1>3. rank \in [E -> Int]
    BY <1>1
<1>4. Plan(PlanRoutes(ids, capacity), E, ids, 1..Len(ids), capacity, rank)
    BY <1>1, <1>2, <1>3, PlanRoutesPlans DEF n
<1>5. QED
    BY <1>4 DEF rank, E

(* prioritize_hits leaves a plan of the same assignments, the hits first. *)
LEMMA RetiledFirst ==
    ASSUME NEW S, NEW ids \in Seq(S), NEW tiles, NEW A, A \subseteq 1..Len(ids),
           \A a \in 1..Len(ids) : (\E b \in A : ids[b] = ids[a]) => a \in A,
           NEW capacity, capacity \in Nat \ {0}, NEW hits,
           Plan(tiles, Named(ids), ids, A, capacity, FirstIn(ids))
    PROVE  Plan(Retiled(HitsThenMisses(tiles, hits), ids, capacity), Named(ids), ids, A, capacity,
                HitRank(FirstIn(ids), hits, Named(ids), Len(ids)))
<1> DEFINE n == Len(ids)
           E == Named(ids)
           rank == FirstIn(ids)
           order == HitsThenMisses(tiles, hits)
           top == HitRank(rank, hits, E, n)
<1>1. /\ ids \in Seq(E) /\ n \in Nat /\ rank \in [E -> 1..n]
      /\ \A a \in 1..n : ids[a] \in E
    BY FirstRanks
<1>2. /\ tiles \in Tiles(E) /\ InOrder(tiles, rank)
      /\ \A x : Has(tiles, x) <=> \E a \in A : ids[a] = x
    BY DEF Plan, GoodTiles
<1>3. /\ order \in Seq(E) /\ Ordered(order, top)
      /\ \A x : Contains(order, x) <=> Has(tiles, x)
  <2> HIDE DEF n, E, rank
  <2>1. QED
    BY <1>1, <1>2, HitsFirstHas
<1>4. \A a \in 1..n : Contains(order, ids[a]) <=> a \in A
    BY <1>2, <1>3
<1>5. \A x : Contains(order, x) => \E a \in A : ids[a] = x
    BY <1>2, <1>3
<1>6. Plan(Retiled(order, ids, capacity), E, ids, A, capacity, top)
  <2> HIDE DEF E, rank, order, top
  <2>1. QED
    BY <1>1, <1>3, <1>4, <1>5, RetiledPlans DEF n
<1>7. QED
    BY <1>6

(* What a plan is, tile by tile. *)
LEMMA PlanHas ==
    ASSUME NEW S, NEW ids \in Seq(S), NEW E, NEW tiles, NEW A, NEW capacity, NEW rank,
           Plan(tiles, E, ids, A, capacity, rank)
    PROVE  /\ tiles \in Tiles(E) /\ DOMAIN tiles = 1..Len(tiles) /\ Len(tiles) \in Nat
           /\ InOrder(tiles, rank)
           /\ \A t \in 1..Len(tiles) :
                 /\ Len(tiles[t].experts) \in 1..capacity /\ RightTile(tiles[t], ids, A)
                 /\ tiles[t].experts \in Seq(E)
                 /\ tiles[t].assignments \in Seq(Nat) /\ tiles[t].slots \in Seq(Nat)
           /\ \A x : Has(tiles, x) <=> \E a \in A : ids[a] = x
<1>1. /\ tiles \in Tiles(E) /\ InOrder(tiles, rank)
      /\ \A t \in 1..Len(tiles) :
            Len(tiles[t].experts) \in 1..capacity /\ RightTile(tiles[t], ids, A)
      /\ \A x : Has(tiles, x) <=> \E a \in A : ids[a] = x
    BY DEF Plan, GoodTiles
<1>2. DOMAIN tiles = 1..Len(tiles) /\ Len(tiles) \in Nat
    BY <1>1, LenProperties DEF Tiles
<1>3. \A t \in 1..Len(tiles) :
         /\ tiles[t].experts \in Seq(E)
         /\ tiles[t].assignments \in Seq(Nat) /\ tiles[t].slots \in Seq(Nat)
    BY <1>1, TileTypes
<1>4. QED
    BY <1>1, <1>2, <1>3
=============================================================================
