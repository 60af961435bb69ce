----------------------------- MODULE RoutePlan -----------------------------
(***************************************************************************)
(* The pure part of execute_ffn (freetoken/src/moe.cpp): how a router's    *)
(* choices become tiles of at most `capacity` experts.  ids[a] is the      *)
(* expert of assignment a; a tile lists its experts, the assignments it    *)
(* computes and, for each, the position of its expert in the tile.         *)
(***************************************************************************)
EXTENDS Integers, SequencesExt

EmptyTile == [experts |-> <<>>, assignments |-> <<>>, slots |-> <<>>]

Places(tiles, id) == {t \in DOMAIN tiles : Contains(tiles[t].experts, id)}
Position(experts, id) == CHOOSE i \in DOMAIN experts : experts[i] = id

(* Assignment a joins tile t, under its expert's position there. *)
Assign(tiles, t, id, a) ==
    [tiles EXCEPT ![t].assignments = Append(@, a),
                  ![t].slots = Append(@, Position(tiles[t].experts, id))]

(* Slip: a tile one expert too wide. *)
AddExpert_TooWide(tiles, id, capacity) ==
    LET room == IF tiles = <<>> \/ Len(Last(tiles).experts) > capacity
                THEN Append(tiles, EmptyTile) ELSE tiles
    IN  [room EXCEPT ![Len(room)].experts = Append(@, id)]

(* The expert goes to the end of the last tile, or of a fresh one when that
   is full. *)
AddExpert(tiles, id, capacity) ==
    LET room == IF tiles = <<>> \/ Len(Last(tiles).experts) = capacity
                THEN Append(tiles, EmptyTile) ELSE tiles
    IN  [room EXCEPT ![Len(room)].experts = Append(@, id)]

(* Assignment a, to the tile that has its expert already or gets it now. *)
Route(tiles, ids, a, capacity) ==
    LET known == IF Places(tiles, ids[a]) = {} THEN AddExpert(tiles, ids[a], capacity)
                                               ELSE tiles
    IN  Assign(known, CHOOSE t \in Places(known, ids[a]) : TRUE, ids[a], a)

(* plan_routes: experts in order of first appearance. *)
PlanRoutes(ids, capacity) ==
    LET plan[a \in 0..Len(ids)] ==
            IF a = 0 THEN <<>> ELSE Route(plan[a - 1], ids, a, capacity)
    IN  plan[Len(ids)]

(* The elements of s that are in S, in their order. *)
Filter(s, S) ==
    LET upTo[i \in 0..Len(s)] ==
            IF i = 0 THEN <<>>
            ELSE IF s[i] \in S THEN Append(upTo[i - 1], s[i]) ELSE upTo[i - 1]
    IN  upTo[Len(s)]

(* The assignments of ids to the given experts, as one tile's lists. *)
TileOf(experts, ids, assignments) ==
    LET mine == Filter(assignments, {a \in DOMAIN ids : Contains(experts, ids[a])})
    IN  [experts |-> experts, assignments |-> mine,
         slots |-> [i \in DOMAIN mine |-> Position(experts, ids[mine[i]])]]

(* A tile left empty goes. *)
NotEmpty(tiles) == Filter(tiles, {tile \in ToSet(tiles) : tile.experts # <<>>})

(* Slip: experts are filtered, positions are not recomputed. *)
KeepSelected_OldPositions(tiles, ids, selected) ==
    NotEmpty([t \in DOMAIN tiles |->
        [tiles[t] EXCEPT !.experts = Filter(@, selected),
                         !.assignments = Filter(@, {a \in DOMAIN ids : ids[a] \in selected})]])

(* execute_ffn keeps only the experts of its branch. *)
KeepSelected(tiles, ids, selected) ==
    NotEmpty([t \in DOMAIN tiles |->
        TileOf(Filter(tiles[t].experts, selected), ids, tiles[t].assignments)])

ExpertsInOrder(tiles) ==
    LET upTo[t \in 0..Len(tiles)] ==
            IF t = 0 THEN <<>> ELSE upTo[t - 1] \o tiles[t].experts
    IN  upTo[Len(tiles)]

(* Slip: the router's order is kept. *)
HitsThenMisses_RouterOrder(tiles, hits) == ExpertsInOrder(tiles)

(* prioritize_hits, once it knows which experts are resident (and pinned):
   the same experts, the hits first, ... *)
HitsThenMisses(tiles, hits) ==
    LET order == ExpertsInOrder(tiles)
    IN  Filter(order, hits) \o Filter(order, ToSet(order) \ hits)

(* ... cut again into tiles of the capacity, with every assignment of ids to
   one of them, in the router's order. *)
Retiled(order, ids, capacity) ==
    [t \in 1..((Len(order) + capacity - 1) \div capacity) |->
        TileOf(SubSeq(order, (t - 1) * capacity + 1, Min({t * capacity, Len(order)})),
               ids, [a \in DOMAIN ids |-> a])]

(* The tile capacity: half the slots when the next tile is prefetched. *)
TileCapacity(capacity, pipeline) ==
    IF pipeline /\ capacity > 1 THEN capacity \div 2 ELSE capacity
=============================================================================
