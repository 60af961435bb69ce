---------------------------- MODULE MCRoutePlan ----------------------------
(***************************************************************************)
(* Every routing of MaxAssignments choices over Expert, every tile         *)
(* capacity, every selection and every set of resident experts, carried    *)
(* through the three stages of execute_ffn's planning and compared with    *)
(* what a plan must be, said without tiles being built.                    *)
(***************************************************************************)
EXTENDS RoutePlan, FiniteSets

CONSTANTS Expert, MaxAssignments, MaxCapacity

VARIABLES ids, capacity, selected, hits, tiles, stage
vars == <<ids, capacity, selected, hits, tiles, stage>>

Init ==
    /\ ids \in UNION {[1..n -> Expert] : n \in 1..MaxAssignments}
    /\ capacity \in 1..MaxCapacity
    /\ selected = Expert /\ hits = {}
    /\ tiles = PlanRoutes(ids, capacity)
    /\ stage = "planned"

Select ==
    /\ stage = "planned"
    /\ selected' \in SUBSET Expert
    /\ tiles' = KeepSelected(tiles, ids, selected')
    /\ stage' = "selected"
    /\ UNCHANGED <<ids, capacity, hits>>

(* Which experts are resident is only asked of those that were kept. *)
Prioritize ==
    /\ stage = "selected"
    /\ hits' \in SUBSET ToSet(ExpertsInOrder(tiles))
    /\ tiles' = Retiled(HitsThenMisses(tiles, hits'), ids, capacity)
    /\ stage' = "prioritized"
    /\ UNCHANGED <<ids, capacity, selected>>

Next == Select \/ Prioritize
Spec == Init /\ [][Next]_vars

-----------------------------------------------------------------------------
Wanted == {a \in DOMAIN ids : ids[a] \in selected}
FirstSeen(e) == CHOOSE a \in DOMAIN ids : ids[a] = e /\ \A b \in 1..(a - 1) : ids[b] # e

(* At every stage each wanted assignment is computed exactly once, by the
   expert the router chose, and nothing else is: deduplication, selection and
   the reordering lose, duplicate and misdirect nothing. *)
EachAssignmentOnce ==
    /\ \A a \in DOMAIN ids :
         Cardinality({p \in (DOMAIN tiles) \X (1..Len(ids)) :
             p[2] \in DOMAIN tiles[p[1]].assignments /\ tiles[p[1]].assignments[p[2]] = a})
         = (IF a \in Wanted THEN 1 ELSE 0)
    /\ \A t \in DOMAIN tiles : LET tile == tiles[t] IN
         /\ DOMAIN tile.slots = DOMAIN tile.assignments
         /\ \A i \in DOMAIN tile.slots :
               tile.experts[tile.slots[i]] = ids[tile.assignments[i]]

(* A tile is never empty nor wider than its slots, and no expert is in two
   tiles or twice in one, so a call pins each expert once: "Repeated keys in
   one route plan must share one ticket". *)
TilesFit ==
    /\ \A t \in DOMAIN tiles :
         /\ Len(tiles[t].experts) \in 1..capacity
         /\ \A e \in ToSet(tiles[t].experts) : Contains([i \in DOMAIN tiles[t].assignments |->
                ids[tiles[t].assignments[i]]], e)
    /\ IsInjective(ExpertsInOrder(tiles))

(* Hits come before every miss, and otherwise experts keep the order in which
   the router first named them: a tile that must load an expert is followed
   only by tiles of misses, so its loads compete with no pinned hit. *)
HitsFirst ==
    LET order == ExpertsInOrder(tiles)
        Rank(e) == IF e \in hits THEN 0 ELSE 1
    IN  \A i, j \in DOMAIN order : i < j =>
           \/ Rank(order[i]) < Rank(order[j])
           \/ Rank(order[i]) = Rank(order[j]) /\ FirstSeen(order[i]) < FirstSeen(order[j])
=============================================================================
