-------------------------- MODULE MCRoutePlanProofs --------------------------
(***************************************************************************)
(* The three stages of execute_ffn's planning, for every number of experts *)
(* and assignments and every capacity: at each stage the tiles are a plan  *)
(* of the wanted assignments, in the order of the experts' first           *)
(* appearance, the resident ones first once they are known.                *)
(***************************************************************************)
EXTENDS MCRoutePlan, RoutePlanProofs, FiniteSetTheorems

Routed == Named(ids)
FirstRank == FirstIn(ids)
StageRank == IF stage = "prioritized" THEN HitRank(FirstRank, hits, Routed, Len(ids))
                                      ELSE FirstRank

PlanInv ==
    /\ ids \in Seq(Routed) /\ Len(ids) \in Nat \ {0}
    /\ capacity \in Nat \ {0}
    /\ stage \in {"planned", "selected", "prioritized"}
    /\ stage = "planned" => Wanted = 1..Len(ids)
    /\ stage # "prioritized" => hits = {}
    /\ Plan(tiles, Routed, ids, Wanted, capacity, StageRank)

(* Counting to n. *)
LEMMA CountUpTo ==
    ASSUME NEW n, n \in Nat
    PROVE  IsFiniteSet(1..n) /\ Cardinality(1..n) = n
<1>1. 1 \in Int /\ n \in Int
    OBVIOUS
<1>2. IsFiniteSet(1..n) /\ Cardinality(1..n) = IF 1 > n THEN 0 ELSE n - 1 + 1
    BY <1>1, FS_Interval
<1>3. 1 > n => n = 0
    OBVIOUS
<1>4. ~(1 > n) => n - 1 + 1 = n
    OBVIOUS
<1>5. QED
    BY <1>2, <1>3, <1>4

(* plan_routes plans every assignment. *)
LEMMA InitPlan == Init => PlanInv
<1> SUFFICES ASSUME Init PROVE PlanInv
    OBVIOUS
<1> DEFINE n == Len(ids)
<1>1. /\ ids \in Seq(Expert) /\ n \in Nat \ {0} /\ DOMAIN ids = 1..n
      /\ capacity \in Nat \ {0} /\ selected = Expert /\ hits = {}
      /\ tiles = PlanRoutes(ids, capacity) /\ stage = "planned"
  <2>1. PICK k \in 1..MaxAssignments : ids \in [1..k -> Expert]
    BY DEF Init
  <2>2. k \in Nat \ {0}
    OBVIOUS
  <2>3. ids \in Seq(Expert) /\ n = k
    BY <2>1, <2>2, TupleIsSeq
  <2>4. capacity \in Nat \ {0}
    BY DEF Init
  <2>5. QED
    BY <2>1, <2>2, <2>3, <2>4 DEF Init
<1> DEFINE rank == FirstRank
<1>2. ids \in Seq(Routed)
    BY <1>1, FirstRanks DEF Routed
<1> HIDE DEF n
<1>6. Plan(PlanRoutes(ids, capacity), Routed, ids, 1..n, capacity, rank)
    BY <1>1, PlanRoutesFirst DEF n, Routed, FirstRank
<1>7. Wanted = 1..n
    BY <1>1, SeqDef DEF Wanted, n
<1>8. StageRank = rank
    BY <1>1 DEF StageRank, rank
<1>9. QED
    BY <1>1, <1>2, <1>6, <1>7, <1>8 DEF PlanInv, n

(* The selection and prioritize_hits each leave a plan of what is wanted. *)
LEMMA NextPlan == PlanInv /\ [Next]_vars => PlanInv'
<1> SUFFICES ASSUME PlanInv, [Next]_vars PROVE PlanInv'
    OBVIOUS
<1> DEFINE n == Len(ids)
           E == Routed
           rank == FirstRank
<1>1. /\ ids \in Seq(E) /\ n \in Nat \ {0} /\ capacity \in Nat \ {0}
      /\ stage \in {"planned", "selected", "prioritized"}
      /\ stage = "planned" => Wanted = 1..n
      /\ stage # "prioritized" => hits = {}
      /\ Plan(tiles, E, ids, Wanted, capacity, StageRank)
    BY DEF PlanInv
<1>2. DOMAIN ids = 1..n /\ Wanted \subseteq 1..n
    BY <1>1, LenProperties DEF Wanted
<1>3. ASSUME Select PROVE PlanInv'
  <2>1. /\ stage = "planned" /\ stage' = "selected" /\ hits' = hits
        /\ ids' = ids /\ capacity' = capacity
        /\ tiles' = KeepSelected(tiles, ids, selected')
    BY <1>3 DEF Select
  <2>2. Plan(tiles, E, ids, Wanted, capacity, rank)
    BY <1>1, <2>1 DEF StageRank
  <2> DEFINE B == {a \in Wanted : ids[a] \in selected'}
  <2>3. Plan(KeepSelected(tiles, ids, selected'), E, ids, B, capacity, rank)
    <3> DEFINE A == Wanted
               sel == selected'
    <3>1. /\ ids \in Seq(E) /\ A \subseteq 1..Len(ids) /\ capacity \in Nat
          /\ Plan(tiles, E, ids, A, capacity, rank)
        BY <1>1, <1>2, <2>2
    <3> HIDE DEF E, rank, A, sel
    <3>2. Plan(KeepSelected(tiles, ids, sel), E, ids, Chosen(A, ids, sel), capacity, rank)
        BY <3>1, KeepSelectedPlans
    <3>3. QED
        BY <3>2 DEF A, sel, Chosen
  <2>4. Routed' = E /\ FirstRank' = rank /\ StageRank' = rank
    BY <2>1 DEF Routed, FirstRank, First, StageRank
  <2>5. Wanted' = B
    BY <1>1, <1>2, <2>1 DEF Wanted
  <2>6. QED
    BY <1>1, <2>1, <2>3, <2>4, <2>5 DEF PlanInv
<1>4. ASSUME Prioritize PROVE PlanInv'
  <2> DEFINE h == hits'
             top == HitRank(rank, h, E, n)
             A == Wanted
  <2>1. /\ stage = "selected" /\ stage' = "prioritized" /\ selected' = selected
        /\ ids' = ids /\ capacity' = capacity
        /\ tiles' = Retiled(HitsThenMisses(tiles, h), ids, capacity)
    BY <1>4 DEF Prioritize
  <2>2. Plan(tiles, E, ids, A, capacity, rank)
    BY <1>1, <2>1 DEF StageRank
  <2>3. \A a \in 1..n : (\E b \in A : ids[b] = ids[a]) => a \in A
    BY <1>2 DEF Wanted
  <2>4. Plan(tiles', E, ids, A, capacity, top)
    <3> HIDE DEF h, A
    <3>1. QED
        BY <1>1, <1>2, <2>1, <2>2, <2>3, RetiledFirst DEF A, E, rank, Routed, FirstRank
  <2>5. Routed' = E /\ FirstRank' = rank /\ StageRank' = top
    BY <2>1 DEF Routed, FirstRank, First, StageRank
  <2>6. Wanted' = A
    BY <2>1 DEF Wanted
  <2>7. QED
    BY <1>1, <2>1, <2>4, <2>5, <2>6 DEF PlanInv
<1>5. ASSUME UNCHANGED vars PROVE PlanInv'
  <2>1. /\ ids' = ids /\ capacity' = capacity /\ selected' = selected /\ hits' = hits
        /\ tiles' = tiles /\ stage' = stage
    BY <1>5 DEF vars
  <2>2. Routed' = E /\ FirstRank' = rank /\ StageRank' = StageRank /\ Wanted' = Wanted
    BY <2>1 DEF Routed, FirstRank, StageRank, Wanted
  <2>3. QED
    BY <1>1, <2>1, <2>2 DEF PlanInv
<1>6. QED
    BY <1>3, <1>4, <1>5 DEF Next

(* The tiles are a plan at every stage. *)
LEMMA PlanAlways == Spec => []PlanInv
<1>1. QED
    BY InitPlan, NextPlan, PTL DEF Spec

-----------------------------------------------------------------------------
(* What a plan is, tile by tile. *)
LEMMA PlanFacts ==
    ASSUME PlanInv
    PROVE  /\ tiles \in Tiles(Routed) /\ DOMAIN tiles = 1..Len(tiles) /\ Len(tiles) \in Nat
           /\ StageRank \in [Routed -> Int] /\ InOrder(tiles, StageRank)
           /\ \A t \in 1..Len(tiles) :
                 /\ Len(tiles[t].experts) \in 1..capacity /\ RightTile(tiles[t], ids, Wanted)
                 /\ tiles[t].experts \in Seq(Routed)
                 /\ tiles[t].assignments \in Seq(Nat) /\ tiles[t].slots \in Seq(Nat)
           /\ \A x : Has(tiles, x) <=> \E a \in Wanted : ids[a] = x
           /\ DOMAIN ids = 1..Len(ids) /\ Len(ids) \in Nat /\ Wanted \subseteq 1..Len(ids)
           /\ \A a \in 1..Len(ids) : ids[a] \in Routed
<1>1. /\ tiles \in Tiles(Routed) /\ InOrder(tiles, StageRank)
      /\ \A t \in 1..Len(tiles) :
            Len(tiles[t].experts) \in 1..capacity /\ RightTile(tiles[t], ids, Wanted)
      /\ \A x : Has(tiles, x) <=> \E a \in Wanted : ids[a] = x
      /\ ids \in Seq(Routed) /\ Len(ids) \in Nat
    BY DEF PlanInv, Plan, GoodTiles
<1>2. DOMAIN tiles = 1..Len(tiles) /\ Len(tiles) \in Nat
    BY <1>1, LenProperties DEF Tiles
<1>3. DOMAIN ids = 1..Len(ids) /\ Wanted \subseteq 1..Len(ids)
    BY <1>1, LenProperties DEF Wanted
<1>4. FirstRank \in [Routed -> 1..Len(ids)] /\ \A a \in 1..Len(ids) : ids[a] \in Routed
    BY <1>1, FirstRanks DEF FirstRank, Routed
<1>5. StageRank \in [Routed -> Int]
  <2>1. FirstRank \in [Routed -> Int]
    BY <1>4
  <2>2. HitRank(FirstRank, hits, Routed, Len(ids)) \in [Routed -> Int]
    BY <1>1, <1>4 DEF HitRank
  <2>3. QED
    BY <2>1, <2>2 DEF StageRank
<1>6. \A t \in 1..Len(tiles) :
         /\ tiles[t].experts \in Seq(Routed)
         /\ tiles[t].assignments \in Seq(Nat) /\ tiles[t].slots \in Seq(Nat)
    BY <1>1, TileTypes
<1>7. QED
    BY <1>1, <1>2, <1>3, <1>4, <1>5, <1>6

(* A plan fits its slots and repeats no expert. *)
LEMMA PlanFits == PlanInv => TilesFit
<1> SUFFICES ASSUME PlanInv PROVE TilesFit
    OBVIOUS
<1>1. ASSUME NEW t \in 1..Len(tiles), NEW e \in ToSet(tiles[t].experts)
      PROVE  Contains([i \in DOMAIN tiles[t].assignments |-> ids[tiles[t].assignments[i]]], e)
  <2> DEFINE as == tiles[t].assignments
             k == Len(as)
             f == [i \in DOMAIN as |-> ids[as[i]]]
  <2>1. DOMAIN as = 1..k /\ k \in Nat
    BY PlanFacts, LenProperties
  <2>2. DOMAIN tiles[t].experts = 1..Len(tiles[t].experts)
    BY PlanFacts, LenProperties
  <2>3. Contains(tiles[t].experts, e)
    BY <2>2 DEF ToSet, Contains
  <2>4. Has(tiles, e)
    BY <2>3 DEF Has
  <2>5. PICK a \in Wanted : ids[a] = e
    BY <2>4, PlanFacts
  <2>6. RightTile(tiles[t], ids, Wanted)
    BY PlanFacts
  <2>7. Contains(as, a)
    BY <2>3, <2>5, <2>6 DEF RightTile
  <2>8. PICK i \in 1..k : as[i] = a
    BY <2>7 DEF Contains
  <2>9. f[i] = e
    BY <2>1, <2>5, <2>8
  <2>10. Len(f) = k
    <3> DEFINE S == {f[j] : j \in 1..k}
    <3>1. f \in [1..k -> S]
        BY <2>1
    <3> HIDE DEF f, k, S
    <3>2. QED
        BY <2>1, <3>1, TupleIsSeq
  <2>11. QED
    BY <2>9, <2>10 DEF Contains
<1>2. IsInjective(ExpertsInOrder(tiles))
  <2>1. ExpertsInOrder(tiles) \in Seq(Routed) /\ Ordered(ExpertsInOrder(tiles), StageRank)
    BY PlanFacts, OrderHas
  <2>2. QED
    BY <2>1, PlanFacts, OrderedOnce
<1>3. QED
    BY <1>1, <1>2, PlanFacts DEF TilesFit

(* A plan computes each assignment once. *)
LEMMA PlanOnce == PlanInv => EachAssignmentOnce
<1> SUFFICES ASSUME PlanInv PROVE EachAssignmentOnce
    OBVIOUS
<1> DEFINE n == Len(ids)
           as(t) == tiles[t].assignments
           P(a) == {p \in (DOMAIN tiles) \X (1..n) :
                       p[2] \in DOMAIN tiles[p[1]].assignments /\ tiles[p[1]].assignments[p[2]] = a}
<1>1. ASSUME NEW t \in 1..Len(tiles)
      PROVE  /\ DOMAIN as(t) = 1..Len(as(t)) /\ Len(as(t)) \in Nat
             /\ DOMAIN tiles[t].slots = 1..Len(as(t))
             /\ \A i \in 1..Len(as(t)) : as(t)[i] \in 1..n
             /\ IsInjective(as(t))
             /\ \A a : Contains(as(t), a) <=> a \in Wanted /\ Contains(tiles[t].experts, ids[a])
             /\ \A i \in 1..Len(as(t)) : tiles[t].experts[tiles[t].slots[i]] = ids[as(t)[i]]
  <2>1. RightTile(tiles[t], ids, Wanted)
    BY PlanFacts
  <2>2. /\ DOMAIN as(t) = 1..Len(as(t)) /\ Len(as(t)) \in Nat
        /\ DOMAIN tiles[t].slots = 1..Len(tiles[t].slots)
    BY PlanFacts, LenProperties
  <2>3. \A i \in 1..Len(as(t)) : Contains(as(t), as(t)[i])
    BY DEF Contains
  <2>4. QED
    BY <2>1, <2>2, <2>3, PlanFacts DEF RightTile
<1>2. \A t \in 1..Len(tiles) : Len(as(t)) <= n
  <2> SUFFICES ASSUME NEW t \in 1..Len(tiles) PROVE Len(as(t)) <= n
    OBVIOUS
  <2> DEFINE k == Len(as(t))
             f == as(t)
  <2>1. k \in Nat /\ f \in [1..k -> 1..n]
    <3>1. f = [i \in DOMAIN f |-> f[i]]
        BY PlanFacts, SeqDef
    <3>2. QED
        BY <1>1, <3>1
  <2>2. f \in Injection(1..k, 1..n)
    BY <1>1, <2>1 DEF Injection
  <2>3. n \in Nat
    BY PlanFacts
  <2> HIDE DEF k, n, f
  <2>4. IsFiniteSet(1..n) /\ Cardinality(1..n) = n /\ Cardinality(1..k) = k
    BY <2>1, <2>3, CountUpTo
  <2>5. Cardinality(1..k) <= Cardinality(1..n)
    BY <2>2, <2>4, FS_Injection
  <2>6. QED
    BY <2>4, <2>5 DEF k
<1>3. ASSUME NEW a \in 1..n, a \in Wanted PROVE Cardinality(P(a)) = 1
  <2>1. PICK t \in 1..Len(tiles) : Contains(tiles[t].experts, ids[a])
    BY <1>3, PlanFacts DEF Has
  <2>2. PICK i \in 1..Len(as(t)) : as(t)[i] = a
    BY <1>1, <1>3, <2>1 DEF Contains
  <2>3. i \in 1..n /\ i \in DOMAIN as(t) /\ t \in DOMAIN tiles
    BY <1>1, <1>2, PlanFacts
  <2>4. ASSUME NEW u \in DOMAIN tiles, NEW j \in DOMAIN as(u), as(u)[j] = a
        PROVE  u = t /\ j = i
    <3>1. u \in 1..Len(tiles)
        BY PlanFacts
    <3>2. Contains(tiles[u].experts, ids[a])
      <4>1. j \in 1..Len(as(u))
          BY <1>1, <2>4, <3>1
      <4>2. Contains(as(u), a)
          BY <2>4, <4>1 DEF Contains
      <4>3. QED
          BY <1>1, <3>1, <4>2
    <3>3. u = t
      <4>1. StageRank[ids[a]] \in Int
          BY PlanFacts
      <4>2. ~(u < t) /\ ~(t < u)
        <5> DEFINE x == ids[a]
        <5>1. StageRank[x] \in Int
            BY <4>1
        <5>2. Contains(tiles[u].experts, x) /\ Contains(tiles[t].experts, x)
            BY <2>1, <3>2
        <5> HIDE DEF x
        <5>3. u < t => StageRank[x] < StageRank[x]
            BY <3>1, <5>2, PlanFacts DEF InOrder
        <5>4. t < u => StageRank[x] < StageRank[x]
            BY <3>1, <5>2, PlanFacts DEF InOrder
        <5>5. QED
            BY <5>1, <5>3, <5>4
      <4>3. u \in Int /\ t \in Int
          BY <3>1, PlanFacts
      <4>4. QED
          BY <4>2, <4>3
    <3>4. QED
        BY <1>1, <2>2, <2>3, <2>4, <3>3 DEF IsInjective
  <2>5. P(a) = {<<t, i>>}
    <3>1. <<t, i>> \in P(a)
        BY <2>2, <2>3
    <3>2. ASSUME NEW p \in P(a) PROVE p = <<t, i>>
      <4>1. /\ p[1] \in DOMAIN tiles /\ p[2] \in DOMAIN as(p[1]) /\ as(p[1])[p[2]] = a
            /\ p = <<p[1], p[2]>>
          OBVIOUS
      <4>2. QED
          BY <2>4, <4>1
    <3> HIDE DEF P
    <3>3. QED
        BY <3>1, <3>2
  <2>6. QED
    BY <2>5, FS_Singleton
<1>4. ASSUME NEW a \in 1..n, a \notin Wanted PROVE Cardinality(P(a)) = 0
  <2>1. ASSUME NEW u \in DOMAIN tiles, NEW j \in DOMAIN as(u), as(u)[j] = a PROVE FALSE
    <3>1. u \in 1..Len(tiles)
        BY PlanFacts
    <3>2. QED
        BY <1>1, <1>4, <2>1, <3>1 DEF Contains
  <2>2. P(a) = {}
    BY <2>1
  <2>3. QED
    BY <2>2, FS_EmptySet
<1>5. \A t \in DOMAIN tiles :
         /\ DOMAIN tiles[t].slots = DOMAIN tiles[t].assignments
         /\ \A i \in DOMAIN tiles[t].slots :
               tiles[t].experts[tiles[t].slots[i]] = ids[tiles[t].assignments[i]]
    BY <1>1, PlanFacts
<1>6. \A a \in DOMAIN ids : Cardinality(P(a)) = IF a \in Wanted THEN 1 ELSE 0
    BY <1>3, <1>4, PlanFacts
<1>7. QED
    BY <1>5, <1>6 DEF EachAssignmentOnce

(* The ranks of a plan put the hits first. *)
LEMMA PlanHits == PlanInv => HitsFirst
<1> SUFFICES ASSUME PlanInv PROVE HitsFirst
    OBVIOUS
<1> DEFINE order == ExpertsInOrder(tiles)
           n == Len(ids)
           Rank(e) == IF e \in hits THEN 0 ELSE 1
<1>1. order \in Seq(Routed) /\ Ordered(order, StageRank)
    BY PlanFacts, OrderHas
<1>2. DOMAIN order = 1..Len(order) /\ \A i \in 1..Len(order) : order[i] \in Routed
  <2> HIDE DEF order
  <2>1. QED
    BY <1>1, LenProperties, ElementOfSeq
<1>3. /\ FirstRank \in [Routed -> 1..n] /\ n \in Nat
      /\ \A e \in Routed : FirstRank[e] = FirstSeen(e)
    BY FirstRanks DEF PlanInv, FirstRank, FirstIn, FirstSeen, First, Routed, n
<1>4. stage # "prioritized" => hits = {}
    BY DEF PlanInv
<1> HIDE DEF order, n
<1>5. ASSUME NEW x \in Routed, NEW y \in Routed, StageRank[x] < StageRank[y]
      PROVE  \/ Rank(x) < Rank(y)
             \/ Rank(x) = Rank(y) /\ FirstSeen(x) < FirstSeen(y)
  <2> DEFINE fx == FirstSeen(x)
             fy == FirstSeen(y)
  <2>1. fx \in 1..n /\ fy \in 1..n /\ FirstRank[x] = fx /\ FirstRank[y] = fy
    BY <1>3
  <2>2. CASE stage # "prioritized"
    <3>1. fx < fy
        BY <1>5, <2>1, <2>2 DEF StageRank
    <3>2. QED
        BY <1>4, <2>2, <3>1
  <2>3. CASE stage = "prioritized"
    <3>1. /\ StageRank[x] = IF x \in hits THEN fx ELSE fx + n
          /\ StageRank[y] = IF y \in hits THEN fy ELSE fy + n
        BY <2>1, <2>3 DEF StageRank, HitRank, n
    <3> HIDE DEF fx, fy
    <3>2. CASE (x \in hits) <=> (y \in hits)
      <4>1. fx < fy
          BY <1>3, <1>5, <2>1, <3>1, <3>2
      <4>2. QED
          BY <3>2, <4>1 DEF fx, fy
    <3>3. CASE x \in hits /\ y \notin hits
      <4>1. Rank(x) = 0 /\ Rank(y) = 1
          BY <3>3
      <4> HIDE DEF Rank
      <4>2. Rank(x) < Rank(y)
          BY <4>1
      <4>3. QED
          BY <4>2
    <3>4. CASE x \notin hits /\ y \in hits
        BY <1>3, <1>5, <2>1, <3>1, <3>4
    <3>5. QED
        BY <3>2, <3>3, <3>4
  <2>4. QED
    BY <2>2, <2>3
<1>6. ASSUME NEW i \in DOMAIN order, NEW j \in DOMAIN order, i < j
      PROVE  \/ Rank(order[i]) < Rank(order[j])
             \/ Rank(order[i]) = Rank(order[j]) /\ FirstSeen(order[i]) < FirstSeen(order[j])
  <2>1. StageRank[order[i]] < StageRank[order[j]]
    BY <1>1, <1>2, <1>6 DEF Ordered
  <2>2. QED
    BY <1>2, <1>5, <2>1
<1>7. QED
    BY <1>6 DEF HitsFirst, order

(* At every stage of planning each wanted assignment is computed exactly once,
   by the expert the router chose: however many experts, assignments and
   slots there are, plan_routes, the selection and prioritize_hits lose,
   duplicate and misdirect nothing. *)
THEOREM AssignmentsComputedOnce == Spec => []EachAssignmentOnce
<1>1. QED
    BY PlanAlways, PlanOnce, PTL

(* A tile is never empty, wider than its slots or without work for one of its
   experts, and no expert is in two tiles or twice in one. *)
THEOREM TilesAlwaysFit == Spec => []TilesFit
<1>1. QED
    BY PlanAlways, PlanFits, PTL

(* The resident experts come before the missing ones, and otherwise experts
   stay in the order in which the router first named them. *)
THEOREM HitsComeFirst == Spec => []HitsFirst
<1>1. QED
    BY PlanAlways, PlanHits, PTL
=============================================================================
