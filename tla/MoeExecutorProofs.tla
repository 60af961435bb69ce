------------------------- MODULE MoeExecutorProofs -------------------------
(***************************************************************************)
(* What a call of the cached executor guarantees for every number of       *)
(* experts, layers, slots, chunks and assignments, with and without        *)
(* prefetch and a CPU share, wherever it is cancelled or fails.  The       *)
(* inductive invariant is an account of the tickets: who holds one at each *)
(* step of the host, and that what a graph was given is held until the     *)
(* graph is done.                                                          *)
(***************************************************************************)
EXTENDS MoeExecutor, MoeCacheProofs, RoutePlanProofs

Steps == {"idle", "start", "pin", "tile", "load", "launch", "prefetch", "sync", "release",
          "join", "unwind", "abandon", "logic_error"}
InTile == {"load", "launch", "prefetch", "sync", "release"}
InCall == host.step # "idle"
Calls == [reply : {"none"}, layer : Layer, ids : Seq(Expert), cpu : Seq(Expert)]

ExecTypeOK ==
    /\ host \in [step : Steps, tile : Nat, pos : Nat, begin : Nat]
    /\ leases \in [Expert -> Ticket \cup {NoTicket}]
    /\ InCall => call \in Calls /\ host.tile # 0 /\ host.pos # 0 /\ host.begin # 0

(* A lease pins its expert's slot, every slot in use is leased, and the
   storage's stream has nothing but the copies of a load. *)
LeaseSound ==
    \A e \in Leased : /\ leases[e] \in issued /\ Checked(leases[e], "in_use")
                      /\ leases[e].key = KeyOf(e) /\ slots[leases[e].slot].key = KeyOf(e)
PinsLeased == \A s \in Slot : slots[s].status = "in_use" => \E e \in Leased : leases[e].slot = s
CopiesOnly == \A i \in 1..Len(stream) : stream[i].op = "copy"

(* The tiles are a plan of the GPU's assignments, at first in the router's
   order, then with the hits first. *)
Mine == {a \in DOMAIN call.ids : call.ids[a] \notin ToSet(call.cpu)}
Planned ==
    /\ host.step \in {"start", "pin"} =>
          Plan(tiles, Named(call.ids), call.ids, Mine, TileCap, FirstIn(call.ids))
    /\ host.step \in InTile \cup {"tile"} => \E hits :
          Plan(tiles, Named(call.ids), call.ids, Mine, TileCap,
               HitRank(FirstIn(call.ids), hits, Named(call.ids), Len(call.ids)))

(* Which experts are leased at each step of the host: none between calls, of
   the tiles to come before a tile is loaded, and all of a tile's from the
   launch of its first graph until they are given back one by one. *)
LeasedFrom(t) == \A e \in Leased : \E u \in t..Len(tiles) : Contains(tiles[u].experts, e)
LeasedWhen ==
    /\ host.step \in {"idle", "start", "join", "abandon"} => Leased = {}
    /\ At("pin") => \A e \in Leased : Has(tiles, e)
    /\ host.step \in {"tile", "load", "launch", "prefetch", "sync"} => LeasedFrom(host.tile)
    /\ At("release") => \A e \in Leased :
          \/ \E u \in (host.tile + 1)..Len(tiles) : Contains(tiles[u].experts, e)
          \/ \E i \in 1..Len(Tile.experts) : i >= host.pos /\ Tile.experts[i] = e
TileLeased ==
    /\ host.step \in {"start", "pin"} => host.tile = 1
    /\ host.step \in InTile => host.tile \in 1..Len(tiles)
    /\ At("prefetch") => host.tile < Len(tiles)
    /\ At("load") => \A i \in 1..Len(Tile.experts) : i < host.pos => Tile.experts[i] \in Leased
    /\ host.step \in {"launch", "prefetch", "sync"} =>
          \A i \in 1..Len(Tile.experts) : Tile.experts[i] \in Leased
    /\ At("release") =>
          \A i \in 1..Len(Tile.experts) : i >= host.pos => Tile.experts[i] \in Leased

(* A load under way is for the expert the host waits for; a graph in flight
   reads slots whose experts are leased; a worker exists only in a call. *)
Wanted == IF At("prefetch") THEN tiles[host.tile + 1].experts ELSE Tile.experts
LoadPlace == load # Idle =>
    /\ host.step \in {"load", "prefetch"} /\ host.pos \in 1..Len(Wanted)
    /\ load.ticket.key = KeyOf(Wanted[host.pos]) /\ Wanted[host.pos] \notin Leased
KernelPlace ==
    /\ kernel = NoKernel \/ host.step \in {"prefetch", "sync", "unwind", "logic_error"}
    /\ kernel.state = "running" => \A a \in DOMAIN kernel.slot :
          /\ a \in 1..Len(call.ids) /\ call.ids[a] \in Leased
          /\ kernel.slot[a] = leases[call.ids[a]].slot /\ kernel.key[a] = KeyOf(call.ids[a])
WorkerPlace == host.step \in {"idle", "start"} => worker = NoWorker

Leases == LeaseSound /\ PinsLeased /\ CopiesOnly
Standing == LeasedWhen /\ TileLeased /\ LoadPlace /\ KernelPlace /\ WorkerPlace
Account == ExecTypeOK /\ Leases /\ Planned /\ Standing
ExecInv == StorageInv /\ Account

-----------------------------------------------------------------------------
(* Steps of the table, as leases see them.                                 *)
LEMMA KeyTypes ==
    ASSUME ExecTypeOK, InCall
    PROVE  /\ \A e \in Expert : KeyOf(e) \in Key /\ KeyOf(e)[2] = e
           /\ \A e, f \in Expert : KeyOf(e) = KeyOf(f) => e = f
<1>1. call.layer \in Layer
    BY DEF ExecTypeOK, Calls
<1>2. QED
    BY <1>1, LayoutAssumption DEF KeyOf

(* Nothing about leases depends on more than these. *)
LEMMA LeasesKept ==
    ASSUME Leases, UNCHANGED <<slots, issued, stream, leases>>,
           Leased = {} \/ call'.layer = call.layer
    PROVE  Leases' /\ Leased' = Leased
<1>1. Leased' = Leased
    BY DEF Leased
<1>2. LeaseSound'
    BY <1>1 DEF Leases, LeaseSound, Checked, KeyOf
<1>3. PinsLeased' /\ CopiesOnly'
    BY <1>1 DEF Leases, PinsLeased, CopiesOnly
<1>4. QED
    BY <1>1, <1>2, <1>3 DEF Leases

(* A lease more, on a slot that comes into use. *)
LEMMA LeaseAdded ==
    ASSUME ExecTypeOK, Leases, CacheTypeOK, NEW e \in Expert, e \notin Leased,
           NEW s \in Slot, slots[s].status # "in_use",
           slots'[s].status = "in_use", slots'[s].key = KeyOf(e),
           \A u \in Slot \ {s} : slots'[u] = slots[u],
           NEW t \in Ticket, t \in issued', t.slot = s, t.key = KeyOf(e), Checked(t, "in_use")',
           issued \subseteq issued', leases' = [leases EXCEPT ![e] = t], call' = call
    PROVE  /\ LeaseSound' /\ PinsLeased' /\ Leased' = Leased \cup {e}
           /\ leases' \in [Expert -> Ticket \cup {NoTicket}]
           /\ \A f \in Leased : leases'[f] = leases[f]
<1>1. leases \in [Expert -> Ticket \cup {NoTicket}]
    BY DEF ExecTypeOK
<1>2. t # NoTicket
  <2>1. t.slot \in Slot /\ NoTicket.slot = 0
    BY DEF Ticket, NoTicket
  <2>2. 0 \notin Slot
    BY DEF Slot
  <2>3. QED
    BY <2>1, <2>2
<1>3. leases' \in [Expert -> Ticket \cup {NoTicket}] /\ leases'[e] = t
      /\ \A f \in Expert \ {e} : leases'[f] = leases[f]
    BY <1>1
<1>4. Leased' = Leased \cup {e}
    BY <1>2, <1>3 DEF Leased
<1>5. \A f \in Leased : f \in Expert \ {e}
    BY DEF Leased
<1>6. ASSUME NEW f \in Leased
      PROVE  /\ leases[f].slot \in Slot \ {s} /\ leases'[f] = leases[f]
             /\ slots'[leases[f].slot] = slots[leases[f].slot]
  <2>1. leases[f] \in issued /\ slots[leases[f].slot].status = "in_use"
    BY DEF Leases, LeaseSound, Checked
  <2>2. leases[f].slot \in Slot
    BY <2>1 DEF CacheTypeOK, Ticket
  <2>3. QED
    BY <1>3, <1>5, <2>1, <2>2
<1>7. LeaseSound'
  <2> SUFFICES ASSUME NEW f \in Leased \cup {e}
               PROVE  /\ leases'[f] \in issued' /\ Checked(leases[f], "in_use")'
                      /\ leases'[f].key = KeyOf(f) /\ slots'[leases'[f].slot].key = KeyOf(f)
    BY <1>4 DEF LeaseSound, KeyOf
  <2>1. CASE f = e
    BY <1>3, <2>1
  <2>2. CASE f \in Leased
    <3>1. /\ leases[f] \in issued /\ Checked(leases[f], "in_use")
          /\ leases[f].key = KeyOf(f) /\ slots[leases[f].slot].key = KeyOf(f)
      BY <2>2 DEF Leases, LeaseSound
    <3>2. QED
      BY <1>6, <2>2, <3>1 DEF Checked
  <2>3. QED
    BY <2>1, <2>2
<1>8. PinsLeased'
  <2> SUFFICES ASSUME NEW u \in Slot, slots'[u].status = "in_use"
               PROVE  \E f \in Leased \cup {e} : leases'[f].slot = u
    BY <1>4 DEF PinsLeased
  <2>1. CASE u = s
    BY <1>3, <2>1
  <2>2. CASE u # s
    <3>1. PICK f \in Leased : leases[f].slot = u
      BY <2>2 DEF Leases, PinsLeased
    <3>2. QED
      BY <1>6, <3>1
  <2>3. QED
    BY <2>1, <2>2
<1>9. QED
    BY <1>3, <1>4, <1>6, <1>7, <1>8

(* A lease given back: its slot is free, the others stand. *)
LEMMA LeaseReleased ==
    ASSUME ExecTypeOK, InCall, Leases, CacheTypeOK, NEW e \in Leased, Unpin(leases[e]),
           leases' = [leases EXCEPT ![e] = NoTicket], call' = call
    PROVE  /\ Leases' /\ Leased' = Leased \ {e} /\ load = Idle
           /\ leases' \in [Expert -> Ticket \cup {NoTicket}]
           /\ \A f \in Leased \ {e} : leases'[f] = leases[f]
<1> DEFINE t == leases[e]
<1>1. leases \in [Expert -> Ticket \cup {NoTicket}] /\ e \in Expert
    BY DEF ExecTypeOK, Leased
<1>2. t \in issued /\ t.slot \in Slot /\ slots[t.slot].key = KeyOf(e)
    BY DEF Leases, LeaseSound, CacheTypeOK, Ticket
<1>3. /\ slots' = [slots EXCEPT ![t.slot] = [slots[t.slot] EXCEPT
                     !.status = "ready", !.last_use = serial']]
      /\ issued' = issued /\ stream' = stream /\ load = Idle
    BY DEF Unpin, Release, storageVars
<1>4. /\ slots'[t.slot].status = "ready"
      /\ \A u \in Slot \ {t.slot} : slots'[u] = slots[u]
    BY <1>2, <1>3 DEF CacheTypeOK, SlotRecord
<1>5. leases' \in [Expert -> Ticket \cup {NoTicket}] /\ leases'[e] = NoTicket
      /\ \A f \in Expert \ {e} : leases'[f] = leases[f]
    BY <1>1
<1>6. Leased' = Leased \ {e}
    BY <1>5 DEF Leased
<1>7. ASSUME NEW f \in Leased \ {e}
      PROVE  /\ leases[f].slot \in Slot \ {t.slot} /\ leases'[f] = leases[f]
             /\ slots'[leases[f].slot] = slots[leases[f].slot]
  <2>1. f \in Expert /\ leases[f] \in issued /\ slots[leases[f].slot].key = KeyOf(f)
    BY DEF Leases, LeaseSound, Leased
  <2>2. leases[f].slot \in Slot
    BY <2>1 DEF CacheTypeOK, Ticket
  <2>3. leases[f].slot # t.slot
    BY <1>1, <1>2, <2>1, KeyTypes
  <2>4. QED
    BY <1>4, <1>5, <2>1, <2>2, <2>3
<1>8. LeaseSound'
  <2> SUFFICES ASSUME NEW f \in Leased \ {e}
               PROVE  /\ leases'[f] \in issued' /\ Checked(leases[f], "in_use")'
                      /\ leases'[f].key = KeyOf(f) /\ slots'[leases'[f].slot].key = KeyOf(f)
    BY <1>6 DEF LeaseSound, KeyOf
  <2>1. /\ leases[f] \in issued /\ Checked(leases[f], "in_use")
        /\ leases[f].key = KeyOf(f) /\ slots[leases[f].slot].key = KeyOf(f)
    BY DEF Leases, LeaseSound
  <2>2. QED
    BY <1>3, <1>7, <2>1 DEF Checked
<1>9. PinsLeased'
  <2> SUFFICES ASSUME NEW u \in Slot, slots'[u].status = "in_use"
               PROVE  \E f \in Leased \ {e} : leases'[f].slot = u
    BY <1>6 DEF PinsLeased
  <2>1. u # t.slot /\ slots[u].status = "in_use"
    BY <1>4
  <2>2. PICK f \in Leased : leases[f].slot = u
    BY <2>1 DEF Leases, PinsLeased
  <2>3. f # e
    BY <2>1, <2>2
  <2>4. QED
    BY <1>7, <2>2, <2>3
<1>10. CopiesOnly'
    BY <1>3 DEF Leases, CopiesOnly
<1>11. QED
    BY <1>3, <1>5, <1>6, <1>7, <1>8, <1>9, <1>10 DEF Leases

-----------------------------------------------------------------------------
(* The tiles of a plan, as the steps of the host use them.                 *)
Tiled ==
    /\ Len(tiles) \in Nat
    /\ \A t \in 1..Len(tiles) :
          /\ tiles[t].experts \in Seq(Expert) /\ tiles[t].assignments \in Seq(Nat)
          /\ IsInjective(tiles[t].experts) /\ RightTile(tiles[t], call.ids, Mine)
    /\ \A t, u \in 1..Len(tiles) : \A x :
          t < u /\ Contains(tiles[t].experts, x) => ~Contains(tiles[u].experts, x)

LEMMA CapPositive == TileCap \in Nat \ {0}
BY CapacityAssumption, OptionsAssumption DEF TileCap, TileCapacity

LEMMA PlanTiled ==
    ASSUME call.ids \in Seq(Expert), NEW rank, rank \in [Named(call.ids) -> Int],
           Plan(tiles, Named(call.ids), call.ids, Mine, TileCap, rank)
    PROVE  Tiled
<1> DEFINE E == Named(call.ids)
           ids == call.ids
<1>1. /\ tiles \in Tiles(E) /\ Len(tiles) \in Nat /\ InOrder(tiles, rank)
      /\ \A t \in 1..Len(tiles) :
            /\ RightTile(tiles[t], ids, Mine)
            /\ tiles[t].experts \in Seq(E) /\ tiles[t].assignments \in Seq(Nat)
  <2> HIDE DEF E
  <2>1. QED
    BY PlanHas DEF E
<1>2. E \subseteq Expert
  <2>1. DOMAIN ids = 1..Len(ids) /\ \A a \in 1..Len(ids) : ids[a] \in Expert
    BY LenProperties, ElementOfSeq
  <2>2. QED
    BY <2>1 DEF Named
<1> HIDE DEF E
<1>3. ASSUME NEW t \in 1..Len(tiles)
      PROVE  tiles[t].experts \in Seq(Expert) /\ IsInjective(tiles[t].experts)
  <2>1. tiles[t].experts \in Seq(E) /\ Ordered(tiles[t].experts, rank)
    BY <1>1 DEF InOrder
  <2>2. IsInjective(tiles[t].experts)
    BY <2>1, OrderedOnce DEF E
  <2>3. tiles[t].experts \in Seq(Expert)
    BY <1>2, <2>1
  <2>4. QED
    BY <2>2, <2>3
<1>4. ASSUME NEW t \in 1..Len(tiles), NEW u \in 1..Len(tiles), NEW x, t < u,
             Contains(tiles[t].experts, x), Contains(tiles[u].experts, x)
      PROVE  FALSE
  <2>1. rank[x] < rank[x]
    BY <1>1, <1>4 DEF InOrder
  <2>2. x \in E
    BY <1>1, <1>4, PlanHas DEF E, Contains
  <2>3. QED
    BY <2>1, <2>2 DEF E
<1>5. QED
  BY <1>1, <1>3, <1>4 DEF Tiled

LEMMA HitRankType ==
    ASSUME NEW ids \in Seq(Expert), NEW hits
    PROVE  HitRank(FirstIn(ids), hits, Named(ids), Len(ids)) \in [Named(ids) -> Int]
<1>1. FirstIn(ids) \in [Named(ids) -> 1..Len(ids)] /\ Len(ids) \in Nat
    BY FirstRanks
<1>2. QED
    BY <1>1 DEF HitRank

LEMMA PlannedTiled ==
    ASSUME ExecTypeOK, Planned, host.step \in InTile \cup {"start", "pin", "tile"}
    PROVE  Tiled /\ call.ids \in Seq(Expert)
<1>1. call.ids \in Seq(Expert)
    BY DEF ExecTypeOK, InCall, InTile, Calls
<1>2. CASE host.step \in {"start", "pin"}
  <2>1. Plan(tiles, Named(call.ids), call.ids, Mine, TileCap, FirstIn(call.ids))
    BY <1>2 DEF Planned
  <2>2. FirstIn(call.ids) \in [Named(call.ids) -> Int]
    BY <1>1, FirstRanks
  <2>3. QED
    BY <1>1, <2>1, <2>2, PlanTiled
<1>3. CASE host.step \in InTile \cup {"tile"}
  <2>1. PICK hits : Plan(tiles, Named(call.ids), call.ids, Mine, TileCap,
               HitRank(FirstIn(call.ids), hits, Named(call.ids), Len(call.ids)))
    BY <1>3 DEF Planned
  <2>2. QED
    BY <1>1, <2>1, PlanTiled, HitRankType
<1>4. QED
    BY <1>2, <1>3

(* While the call and its tiles stand, so does the plan. *)
LEMMA PlannedKept ==
    ASSUME Planned, call' = call, tiles' = tiles,
           host'.step \in {"start", "pin"} => host.step \in {"start", "pin"},
           host'.step \in InTile \cup {"tile"} => host.step \in InTile \cup {"tile"}
    PROVE  Planned'
<1>1. Mine' = Mine
    BY DEF Mine
<1>2. QED
    BY <1>1 DEF Planned

-----------------------------------------------------------------------------
(* The host moves within a call. *)
LEMMA HostMoves ==
    ASSUME ExecTypeOK, InCall, call' = call, leases' \in [Expert -> Ticket \cup {NoTicket}],
           host'.step \in Steps \ {"idle"}, NEW t, t \in Nat \ {0}, NEW p, p \in Nat \ {0},
           NEW b, b \in Nat \ {0},
           host' = [step |-> host'.step, tile |-> t, pos |-> p, begin |-> b]
    PROVE  ExecTypeOK'
<1>1. host' \in [step : Steps, tile : Nat, pos : Nat, begin : Nat]
    OBVIOUS
<1>2. call \in Calls
    BY DEF ExecTypeOK
<1>3. host'.tile # 0 /\ host'.pos # 0 /\ host'.begin # 0
    OBVIOUS
<1>4. QED
    BY <1>1, <1>2, <1>3 DEF ExecTypeOK

LEMMA HostGoes ==
    ASSUME ExecTypeOK, InCall, call' = call, leases' \in [Expert -> Ticket \cup {NoTicket}],
           NEW s, s \in Steps, s # "idle", Go(s)
    PROVE  /\ ExecTypeOK' /\ host'.step = s /\ host'.pos = 1
           /\ host'.tile = host.tile /\ host'.begin = host.begin
<1>1. host \in [step : Steps, tile : Nat, pos : Nat, begin : Nat]
      /\ host.tile # 0 /\ host.begin # 0
    BY DEF ExecTypeOK, InCall
<1>2. host' = [step |-> s, tile |-> host.tile, pos |-> 1, begin |-> host.begin]
    BY <1>1 DEF Go
<1>3. QED
    BY <1>1, <1>2, HostMoves

Advance == host' = [host EXCEPT !.pos = @ + 1]

LEMMA HostAdvances ==
    ASSUME ExecTypeOK, InCall, call' = call, leases' \in [Expert -> Ticket \cup {NoTicket}],
           Advance
    PROVE  /\ ExecTypeOK' /\ host'.step = host.step /\ host'.pos = host.pos + 1
           /\ host'.tile = host.tile /\ host'.begin = host.begin
<1>1. host \in [step : Steps, tile : Nat, pos : Nat, begin : Nat]
      /\ host.tile # 0 /\ host.begin # 0 /\ host.step # "idle"
    BY DEF ExecTypeOK, InCall
<1>2. host' = [step |-> host.step, tile |-> host.tile, pos |-> host.pos + 1,
               begin |-> host.begin]
    BY <1>1 DEF Advance
<1>3. QED
    BY <1>1, <1>2, HostMoves

LEMMA LeasesTyped == ExecTypeOK => leases \in [Expert -> Ticket \cup {NoTicket}]
BY DEF ExecTypeOK

-----------------------------------------------------------------------------
(* Steps that leave the storage, the call, its tiles and its leases alone. *)
LEMMA Quiet ==
    ASSUME ExecInv, UNCHANGED <<vars, call, tiles, leases>>,
           host'.step \in {"start", "pin"} => host.step \in {"start", "pin"},
           host'.step \in InTile \cup {"tile"} => host.step \in InTile \cup {"tile"}
    PROVE  StorageInv' /\ Leases' /\ Planned' /\ Leased' = Leased
<1>1. StorageInv'
    BY NextStorage DEF ExecInv
<1>2. Leases' /\ Leased' = Leased
    BY LeasesKept DEF ExecInv, Account, vars, cacheVars, storageVars
<1>3. Planned'
    BY PlannedKept DEF ExecInv, Account
<1>4. QED
    BY <1>1, <1>2, <1>3

LEMMA StartWorkerKeeps ==
    ASSUME ExecInv, StartWorker
    PROVE  ExecInv'
<1>1. /\ host.step = "start" /\ Go("pin")
      /\ UNCHANGED <<vars, call, tiles, leases, kernel>> /\ load' = load
    BY DEF StartWorker, At, vars, storageVars
<1>2. /\ ExecTypeOK /\ InCall /\ Leased = {} /\ load = Idle /\ kernel = NoKernel
      /\ host.tile = 1
    BY <1>1 DEF ExecInv, Account, Standing, LeasedWhen, TileLeased, LoadPlace, KernelPlace, InCall
<1>3. ExecTypeOK' /\ host'.step = "pin" /\ host'.tile = 1
    BY <1>1, <1>2, HostGoes, LeasesTyped DEF Steps
<1>4. StorageInv' /\ Leases' /\ Planned' /\ Leased' = Leased
    BY <1>1, <1>3, Quiet DEF InTile
<1>5. Standing'
  <2>1. LeasedWhen' /\ TileLeased'
    BY <1>2, <1>3, <1>4 DEF LeasedWhen, TileLeased, At, InTile
  <2>2. LoadPlace' /\ KernelPlace' /\ WorkerPlace'
    BY <1>1, <1>2, <1>3 DEF LoadPlace, KernelPlace, WorkerPlace, NoKernel
  <2>3. QED
    BY <2>1, <2>2 DEF Standing
<1>6. QED
    BY <1>3, <1>4, <1>5 DEF ExecInv, Account

LEMMA NextTileKeeps ==
    ASSUME ExecInv, NextTile
    PROVE  ExecInv'
<1>1. /\ host.step = "tile" /\ UNCHANGED <<vars, call, tiles, leases, kernel, worker>>
      /\ load' = load
    BY DEF NextTile, At, vars, storageVars
<1>2. /\ ExecTypeOK /\ InCall /\ LeasedFrom(host.tile) /\ load = Idle /\ kernel = NoKernel
    BY <1>1 DEF ExecInv, Account, Standing, LeasedWhen, LoadPlace, KernelPlace, InCall
<1>3. host.tile \in Nat \ {0} /\ Len(tiles) \in Nat
    BY <1>1, <1>2, PlannedTiled DEF ExecTypeOK, InCall, Tiled, ExecInv, Account
<1>4. CASE host.tile <= Len(tiles)
  <2>1. host' = [step |-> "load", tile |-> host.tile, pos |-> 1, begin |-> 1]
    BY <1>2, <1>4 DEF NextTile, ExecTypeOK
  <2>2. ExecTypeOK'
    BY <1>1, <1>2, <1>3, <2>1, HostMoves DEF Steps, ExecTypeOK
  <2>3. StorageInv' /\ Leases' /\ Planned' /\ Leased' = Leased
    BY <1>1, <2>1, Quiet DEF InTile
  <2>4. LeasedFrom(host.tile)' /\ host.tile \in 1..Len(tiles)
    BY <1>1, <1>2, <1>3, <1>4, <2>1, <2>3 DEF LeasedFrom
  <2>5. LeasedWhen' /\ TileLeased'
    BY <1>1, <2>1, <2>4 DEF LeasedWhen, TileLeased, At, InTile
  <2>6. LoadPlace' /\ KernelPlace' /\ WorkerPlace'
    BY <1>1, <1>2, <2>1 DEF LoadPlace, KernelPlace, WorkerPlace, NoKernel
  <2>7. QED
    BY <2>2, <2>3, <2>5, <2>6 DEF ExecInv, Account, Standing
<1>5. CASE host.tile > Len(tiles)
  <2>1. ExecTypeOK' /\ host'.step = "join"
    <3>1. Go("join")
      BY <1>3, <1>5 DEF NextTile
    <3>2. QED
      BY <1>1, <1>2, <3>1, HostGoes, LeasesTyped DEF Steps
  <2>2. StorageInv' /\ Leases' /\ Planned' /\ Leased' = Leased
    BY <1>1, <2>1, Quiet DEF InTile
  <2>3. Leased = {}
    BY <1>2, <1>3, <1>5 DEF LeasedFrom
  <2>4. LeasedWhen' /\ TileLeased'
    BY <2>1, <2>2, <2>3 DEF LeasedWhen, TileLeased, At, InTile
  <2>5. LoadPlace' /\ KernelPlace' /\ WorkerPlace'
    BY <1>1, <1>2, <2>1 DEF LoadPlace, KernelPlace, WorkerPlace, NoKernel
  <2>6. QED
    BY <2>1, <2>2, <2>4, <2>5 DEF ExecInv, Account, Standing
<1>6. QED
    BY <1>3, <1>4, <1>5

-----------------------------------------------------------------------------
(* Graphs.                                                                 *)
(* A batch is of the tile's assignments. *)
LEMMA BatchMine ==
    ASSUME Tiled, host.tile \in 1..Len(tiles), host.begin \in Nat \ {0}, NEW a \in ToSet(Batch)
    PROVE  /\ Contains(Tile.assignments, a) /\ a \in Mine
           /\ a \in DOMAIN call.ids /\ Contains(Tile.experts, call.ids[a])
<1> DEFINE s == Tile.assignments
           last == IF host.begin + BatchLimit - 1 < Len(s)
                   THEN host.begin + BatchLimit - 1 ELSE Len(s)
<1>1. s \in Seq(Nat) /\ RightTile(Tile, call.ids, Mine)
    BY DEF Tiled, Tile
<1>2. Len(s) \in Nat /\ last \in Int /\ last <= Len(s) /\ DOMAIN s = 1..Len(s)
    BY <1>1, LenProperties, BatchAssumption
<1>3. Batch = SubSeq(s, host.begin, last)
    BY DEF Batch
<1> HIDE DEF s, last
<1>4. \E j \in 1..Len(s) : s[j] = a
  <2> DEFINE r == SubSeq(s, host.begin, last)
  <2>1. host.begin \in Int /\ \A i \in host.begin..last : s[i] \in Nat
    BY <1>1, <1>2, ElementOfSeq
  <2>2. /\ r \in Seq(Nat) /\ Len(r) = IF host.begin <= last THEN last - host.begin + 1 ELSE 0
        /\ \A i \in 1..(last - host.begin + 1) : r[i] = s[host.begin + i - 1]
    BY <1>2, <2>1, SubSeqProperties, SMTT(20)
  <2> HIDE DEF r
  <2>3. PICK i \in 1..Len(r) : r[i] = a
    BY <1>3, <2>2, LenProperties DEF ToSet, r
  <2>4. i \in 1..(last - host.begin + 1) /\ i \in Nat
    BY <1>2, <2>2, <2>3
  <2>5. s[host.begin + i - 1] = a
    BY <2>2, <2>3, <2>4
  <2>6. host.begin + i - 1 \in 1..Len(s)
    BY <1>2, <2>4
  <2>7. QED
    BY <2>5, <2>6
<1>5. Contains(s, a)
    BY <1>4 DEF Contains
<1>6. QED
    BY <1>1, <1>5 DEF RightTile, Mine, s

LEMMA LaunchKeeps ==
    ASSUME ExecInv, NEW ok, Launch(ok)
    PROVE  ExecInv'
<1>1. /\ host.step = "launch"
      /\ UNCHANGED <<vars, call, tiles, leases, worker>> /\ load' = load
    BY DEF Launch, At, vars, storageVars
<1>2. /\ ExecTypeOK /\ InCall /\ LeasedFrom(host.tile) /\ load = Idle
      /\ host.tile \in 1..Len(tiles)
      /\ \A i \in 1..Len(Tile.experts) : Tile.experts[i] \in Leased
    BY <1>1 DEF ExecInv, Account, Standing, LeasedWhen, LoadPlace, TileLeased, InCall, InTile
<1>3. host.tile \in Nat \ {0} /\ host.begin \in Nat \ {0} /\ Tiled /\ call.ids \in Seq(Expert)
    BY <1>1, <1>2, PlannedTiled DEF ExecTypeOK, InCall, InTile, ExecInv, Account
<1>4. \/ Go("sync")
      \/ host.tile < Len(tiles) /\ Go("prefetch")
    BY DEF Launch
<1>5. /\ ExecTypeOK' /\ host'.tile = host.tile /\ host'.step \in {"sync", "prefetch"}
      /\ host'.step = "prefetch" => host.tile < Len(tiles)
    BY <1>1, <1>2, <1>4, HostGoes, LeasesTyped DEF Steps
<1>6. StorageInv' /\ Leases' /\ Planned' /\ Leased' = Leased
    BY <1>1, <1>5, Quiet DEF InTile
<1>7. LeasedWhen' /\ TileLeased'
  <2>1. LeasedFrom(host.tile)' /\ Tile' = Tile
    BY <1>1, <1>2, <1>5, <1>6 DEF LeasedFrom, Tile
  <2>2. QED
    BY <1>1, <1>2, <1>5, <1>6, <2>1 DEF LeasedWhen, TileLeased, At, InTile
<1>8. KernelPlace'
  <2> DEFINE B == ToSet(Batch)
  <2>1. \A a \in B : a \in 1..Len(call.ids) /\ call.ids[a] \in Leased
    <3> SUFFICES ASSUME NEW a \in B PROVE a \in DOMAIN call.ids /\ call.ids[a] \in Leased
      BY <1>3, LenProperties
    <3>1. a \in DOMAIN call.ids /\ Contains(Tile.experts, call.ids[a])
      BY <1>2, <1>3, BatchMine
    <3>2. DOMAIN Tile.experts = 1..Len(Tile.experts)
      BY <1>2, <1>3, LenProperties DEF Tiled, Tile
    <3>3. QED
      BY <1>2, <3>1, <3>2 DEF Contains
  <2> HIDE DEF B
  <2>2. /\ kernel'.key = [a \in B |-> KeyOf(call.ids[a])]
        /\ kernel'.slot = [a \in B |-> leases[call.ids[a]].slot]
    BY DEF Launch, B
  <2>3. QED
    BY <1>1, <1>5, <1>6, <2>1, <2>2 DEF KernelPlace, KeyOf
<1>9. LoadPlace' /\ WorkerPlace'
    BY <1>1, <1>2, <1>5 DEF LoadPlace, WorkerPlace
<1>10. QED
    BY <1>5, <1>6, <1>7, <1>8, <1>9 DEF ExecInv, Account, Standing

(* Steps of the kernel and of the worker, which the host only waits for. *)
LEMMA AsideKeeps ==
    ASSUME ExecInv, UNCHANGED <<vars, host, call, tiles, leases>>,
           \/ kernel' = kernel
           \/ kernel.state = "running" /\ kernel'.state = "done",
           worker' = worker \/ worker.state = "running"
    PROVE  ExecInv'
<1>1. StorageInv' /\ Leases' /\ Planned' /\ Leased' = Leased /\ load' = load
    BY Quiet DEF vars, storageVars
<1>2. ExecTypeOK'
    BY DEF ExecInv, Account, ExecTypeOK, InCall
<1>3. LeasedWhen' /\ TileLeased'
    BY <1>1 DEF ExecInv, Account, Standing, LeasedWhen, TileLeased, LeasedFrom, At, Tile
<1>4. LoadPlace'
    BY <1>1 DEF ExecInv, Account, Standing, LoadPlace, Wanted, At, Tile, KeyOf
<1>5. KernelPlace'
    BY <1>1 DEF ExecInv, Account, Standing, KernelPlace, NoKernel, KeyOf
<1>6. WorkerPlace'
    BY DEF ExecInv, Account, Standing, WorkerPlace, NoWorker
<1>7. QED
    BY <1>1, <1>2, <1>3, <1>4, <1>5, <1>6 DEF ExecInv, Account, Standing

LEMMA OthersKeep ==
    ASSUME ExecInv, Compute \/ WorkerTile \/ WorkerThrows \/ RaiseStop \/ UNCHANGED allVars
    PROVE  ExecInv'
<1>1. CASE Compute
  <2>1. kernel.state = "running" /\ kernel'.state = "done"
    BY <1>1 DEF Compute
  <2>2. QED
    BY <1>1, <2>1, AsideKeeps DEF Compute
<1>2. CASE WorkerTile \/ WorkerThrows
    BY <1>2, AsideKeeps DEF WorkerTile, WorkerThrows
<1>3. CASE RaiseStop \/ UNCHANGED allVars
    BY <1>3, AsideKeeps DEF RaiseStop, allVars, executorVars
<1>4. QED
    BY <1>1, <1>2, <1>3

-----------------------------------------------------------------------------
(* Ways out.                                                               *)
(* The host leaves the tiles for good, with the leases it has. *)
LEMMA Leaves ==
    ASSUME ExecTypeOK, InCall, KernelPlace, UNCHANGED <<call, leases>>,
           StorageInv', Leases', load' = Idle,
           kernel' = kernel \/ kernel' = NoKernel,
           Go("unwind") \/ Go("logic_error")
    PROVE  ExecInv'
<1>1. ExecTypeOK' /\ host'.step \in {"unwind", "logic_error"}
    BY HostGoes, LeasesTyped DEF Steps
<1>2. Leased' = Leased
    BY DEF Leased
<1>3. Planned' /\ LeasedWhen' /\ TileLeased' /\ LoadPlace' /\ WorkerPlace'
    BY <1>1 DEF Planned, LeasedWhen, TileLeased, LoadPlace, WorkerPlace, At, InTile
<1>4. KernelPlace'
    BY <1>1, <1>2 DEF KernelPlace, KeyOf, NoKernel
<1>5. QED
    BY <1>1, <1>3, <1>4 DEF ExecInv, Account, Standing

LEMMA CancelKeeps ==
    ASSUME ExecInv, CancelPoint, Go("unwind"),
           UNCHANGED <<vars, call, tiles, leases, kernel, outputs, worker, stop, calls, touched>>
    PROVE  ExecInv'
<1>1. ExecTypeOK /\ KernelPlace /\ LoadPlace /\ Leases /\ StorageInv
    BY DEF ExecInv, Account, Standing
<1>2. InCall /\ load = Idle
    BY <1>1 DEF CancelPoint, At, InCall, LoadPlace
<1>3. StorageInv' /\ Leases'
    BY <1>1, NextStorage, LeasesKept DEF vars, cacheVars, storageVars
<1>4. QED
    BY <1>1, <1>2, <1>3, Leaves DEF vars, storageVars

LEMMA ReadBackKeeps ==
    ASSUME ExecInv, ReadBack
    PROVE  ExecInv'
<1>1. /\ host.step = "sync" /\ load = Idle /\ kernel' = NoKernel
      /\ UNCHANGED <<vars, call, tiles, leases, worker>> /\ load' = load
    BY DEF ReadBack, At, vars, storageVars
<1>2. /\ ExecTypeOK /\ InCall /\ KernelPlace /\ Leases /\ StorageInv
      /\ LeasedFrom(host.tile) /\ host.tile \in 1..Len(tiles)
      /\ \A i \in 1..Len(Tile.experts) : Tile.experts[i] \in Leased
    BY <1>1 DEF ExecInv, Account, Standing, LeasedWhen, TileLeased, InCall, InTile
<1>3. CASE kernel.state = "failed"
  <2>1. Go("unwind")
    BY <1>3 DEF ReadBack
  <2>2. StorageInv' /\ Leases'
    BY <1>1, <1>2, NextStorage, LeasesKept DEF vars, cacheVars, storageVars
  <2>3. QED
    BY <1>1, <1>2, <2>1, <2>2, Leaves
<1>4. CASE kernel.state # "failed"
  <2>1. /\ host \in [step : Steps, tile : Nat, pos : Nat, begin : Nat]
        /\ host.tile # 0 /\ host.pos # 0 /\ host.begin # 0
    BY <1>2 DEF ExecTypeOK
  <2>2. \/ host' = [step |-> "launch", tile |-> host.tile, pos |-> host.pos,
                    begin |-> host.begin + BatchLimit]
        \/ host' = [step |-> "release", tile |-> host.tile, pos |-> 1, begin |-> host.begin]
    BY <1>4, <2>1 DEF ReadBack
  <2>3. /\ ExecTypeOK' /\ host'.step \in {"launch", "release"} /\ host'.tile = host.tile
        /\ host'.step = "release" => host'.pos = 1
    <3>1. host'.step \in Steps \ {"idle"} /\ leases' \in [Expert -> Ticket \cup {NoTicket}]
      BY <1>1, <1>2, <2>2, LeasesTyped DEF Steps
    <3>2. host.begin + BatchLimit \in Nat \ {0}
      BY <2>1, BatchAssumption
    <3>3. ExecTypeOK'
      BY <1>1, <1>2, <2>1, <2>2, <3>1, <3>2, HostMoves
    <3>4. QED
      BY <2>2, <3>3
  <2>4. StorageInv' /\ Leases' /\ Planned' /\ Leased' = Leased
    BY <1>1, <2>3, Quiet DEF InTile
  <2>5. Tile' = Tile
    BY <1>1, <2>3 DEF Tile
  <2>6. CASE host'.step = "launch"
    <3>1. LeasedFrom(host.tile)'
      BY <1>1, <1>2, <2>3, <2>4 DEF LeasedFrom
    <3>2. LeasedWhen' /\ TileLeased'
      BY <1>1, <1>2, <2>3, <2>4, <2>5, <2>6, <3>1 DEF LeasedWhen, TileLeased, At, InTile
    <3>3. LoadPlace' /\ KernelPlace' /\ WorkerPlace'
      BY <1>1, <2>6 DEF LoadPlace, KernelPlace, WorkerPlace, NoKernel
    <3>4. QED
      BY <2>3, <2>4, <3>2, <3>3 DEF ExecInv, Account, Standing
  <2>7. CASE host'.step = "release"
    <3>1. host'.pos = 1 /\ host.tile \in Nat /\ Tiled
      BY <1>1, <1>2, <2>1, <2>3, <2>7, PlannedTiled DEF InTile, ExecInv, Account
    <3>2. ASSUME NEW e \in Leased
          PROVE  \/ \E u \in (host.tile + 1)..Len(tiles) : Contains(tiles[u].experts, e)
                 \/ \E i \in 1..Len(Tile.experts) : i >= 1 /\ Tile.experts[i] = e
      <4>1. PICK u \in host.tile..Len(tiles) : Contains(tiles[u].experts, e)
        BY <1>2 DEF LeasedFrom
      <4>2. CASE u = host.tile
        <5>1. DOMAIN Tile.experts = 1..Len(Tile.experts)
          BY <1>2, <3>1, LenProperties DEF Tiled, Tile
        <5>2. QED
          BY <4>1, <4>2, <5>1 DEF Contains, Tile
      <4>3. CASE u # host.tile
        <5>1. u \in (host.tile + 1)..Len(tiles)
          BY <3>1, <4>3 DEF Tiled
        <5>2. QED
          BY <4>1, <5>1
      <4>4. QED
        BY <4>2, <4>3
    <3>3. LeasedWhen' /\ TileLeased'
      BY <1>1, <1>2, <2>3, <2>4, <2>5, <2>7, <3>1, <3>2
         DEF LeasedWhen, TileLeased, At, InTile
    <3>4. LoadPlace' /\ KernelPlace' /\ WorkerPlace'
      BY <1>1, <2>7 DEF LoadPlace, KernelPlace, WorkerPlace, NoKernel
    <3>5. QED
      BY <2>3, <2>4, <3>3, <3>4 DEF ExecInv, Account, Standing
  <2>8. QED
    BY <2>3, <2>6, <2>7
<1>5. QED
    BY <1>3, <1>4

(* The call ends. *)
LEMMA ReturnKeeps ==
    ASSUME ExecInv, Rethrow \/ Join
    PROVE  ExecInv'
<1>1. /\ host.step \in {"abandon", "join"} /\ host' = AtRest /\ worker' = NoWorker
      /\ UNCHANGED <<vars, leases, kernel>> /\ load' = load
    BY DEF Rethrow, Join, Return, At, vars, storageVars
<1>2. /\ ExecTypeOK /\ Leases /\ StorageInv /\ Leased = {} /\ load = Idle /\ kernel = NoKernel
    BY <1>1 DEF ExecInv, Account, Standing, LeasedWhen, LoadPlace, KernelPlace
<1>3. StorageInv' /\ Leases' /\ Leased' = Leased
    BY <1>1, <1>2, NextStorage, LeasesKept DEF vars, cacheVars, storageVars
<1>4. ExecTypeOK'
    BY <1>1, <1>2 DEF ExecTypeOK, AtRest, Steps, InCall
<1>5. host'.step = "idle"
    BY <1>1 DEF AtRest
<1>6. Planned' /\ LeasedWhen' /\ TileLeased' /\ LoadPlace' /\ KernelPlace' /\ WorkerPlace'
    BY <1>1, <1>2, <1>3, <1>5 DEF Planned, LeasedWhen, TileLeased, LoadPlace, KernelPlace,
                                  WorkerPlace, NoKernel, At, InTile
<1>7. QED
    BY <1>3, <1>4, <1>6 DEF ExecInv, Account, Standing

-----------------------------------------------------------------------------
(* Giving back.                                                            *)
LEMMA UnpinNext ==
    ASSUME ExecInv, NEW e \in Leased, Unpin(leases[e])
    PROVE  StorageInv' /\ load' = Idle
<1>1. leases[e] \in issued
    BY DEF ExecInv, Account, Leases, LeaseSound
<1>2. [Next]_vars
    BY <1>1 DEF Next
<1>3. QED
    BY <1>2, NextStorage DEF ExecInv, Unpin, storageVars

LEMMA UnwindKeeps ==
    ASSUME ExecInv, Unwind
    PROVE  ExecInv'
<1>1. /\ host.step = "unwind" /\ kernel' = NoKernel /\ UNCHANGED <<call, tiles, worker>>
    BY DEF Unwind, At
<1>2. /\ ExecTypeOK /\ InCall /\ KernelPlace /\ Leases /\ StorageInv /\ CacheTypeOK
      /\ load = Idle
    BY <1>1 DEF ExecInv, Account, Standing, LoadPlace, InCall, StorageInv, Inv
<1>3. CASE Leased = {}
  <2>1. Go("abandon") /\ UNCHANGED <<vars, leases>> /\ load' = load
    BY <1>3 DEF Unwind, vars, storageVars
  <2>2. ExecTypeOK' /\ host'.step = "abandon"
    BY <1>1, <1>2, <2>1, HostGoes, LeasesTyped DEF Steps
  <2>3. StorageInv' /\ Leases' /\ Planned' /\ Leased' = Leased
    BY <1>1, <2>1, <2>2, Quiet DEF InTile
  <2>4. LeasedWhen' /\ TileLeased' /\ LoadPlace' /\ KernelPlace' /\ WorkerPlace'
    BY <1>1, <1>2, <1>3, <2>1, <2>2, <2>3 DEF LeasedWhen, TileLeased, LoadPlace, KernelPlace,
                                         WorkerPlace, NoKernel, At, InTile
  <2>5. QED
    BY <2>2, <2>3, <2>4 DEF ExecInv, Account, Standing
<1>4. CASE Leased # {}
  <2> DEFINE e == CHOOSE e \in Leased : TRUE
  <2>1. e \in Leased /\ Unpin(leases[e]) /\ leases' = [leases EXCEPT ![e] = NoTicket]
        /\ host' = host
    BY <1>4 DEF Unwind
  <2> HIDE DEF e
  <2>2. Leases' /\ leases' \in [Expert -> Ticket \cup {NoTicket}]
    BY <1>1, <1>2, <2>1, LeaseReleased
  <2>3. StorageInv' /\ load' = Idle
    BY <2>1, UnpinNext
  <2>4. ExecTypeOK'
    BY <1>1, <1>2, <2>1, <2>2 DEF ExecTypeOK, InCall
  <2>5. Planned' /\ LeasedWhen' /\ TileLeased' /\ LoadPlace' /\ KernelPlace' /\ WorkerPlace'
    BY <1>1, <2>1, <2>3 DEF Planned, LeasedWhen, TileLeased, LoadPlace, KernelPlace,
                            WorkerPlace, NoKernel, At, InTile
  <2>6. QED
    BY <2>2, <2>3, <2>4, <2>5 DEF ExecInv, Account, Standing
<1>5. QED
    BY <1>3, <1>4

LEMMA ReleaseTileKeeps ==
    ASSUME ExecInv, ReleaseTile
    PROVE  ExecInv'
<1>1. host.step = "release" /\ UNCHANGED <<call, tiles, kernel, worker>>
    BY DEF ReleaseTile, At
<1>2. /\ ExecTypeOK /\ InCall /\ Leases /\ Planned /\ StorageInv /\ CacheTypeOK
      /\ load = Idle /\ kernel = NoKernel /\ host.tile \in 1..Len(tiles)
      /\ \A i \in 1..Len(Tile.experts) : i >= host.pos => Tile.experts[i] \in Leased
      /\ \A e \in Leased :
            \/ \E u \in (host.tile + 1)..Len(tiles) : Contains(tiles[u].experts, e)
            \/ \E i \in 1..Len(Tile.experts) : i >= host.pos /\ Tile.experts[i] = e
    BY <1>1 DEF ExecInv, Account, Standing, LeasedWhen, LoadPlace, KernelPlace, TileLeased,
                InCall, InTile, At, StorageInv, Inv
<1>3. /\ host \in [step : Steps, tile : Nat, pos : Nat, begin : Nat]
      /\ host.tile # 0 /\ host.pos # 0 /\ host.begin # 0
    BY <1>2 DEF ExecTypeOK
<1>4. /\ Tile.experts \in Seq(Expert) /\ IsInjective(Tile.experts)
      /\ DOMAIN Tile.experts = 1..Len(Tile.experts) /\ Len(Tile.experts) \in Nat
  <2>1. Tiled
    BY <1>1, <1>2, PlannedTiled DEF InTile
  <2>2. QED
    BY <1>2, <2>1, LenProperties DEF Tiled, Tile
<1>5. CASE host.pos > Len(Tile.experts)
  <2>1. /\ host' = [step |-> "tile", tile |-> host.tile + 1, pos |-> host.pos,
                    begin |-> host.begin]
        /\ UNCHANGED <<vars, leases>> /\ load' = load
    BY <1>3, <1>5 DEF ReleaseTile, vars, storageVars
  <2>2. ExecTypeOK'
    BY <1>1, <1>2, <1>3, <2>1, HostMoves, LeasesTyped DEF Steps
  <2>3. StorageInv' /\ Leases' /\ Planned' /\ Leased' = Leased
    BY <1>1, <2>1, Quiet DEF InTile
  <2>4. LeasedFrom(host.tile + 1)
    BY <1>2, <1>3, <1>4, <1>5 DEF LeasedFrom
  <2>5. LeasedFrom(host.tile)'
    BY <1>1, <2>1, <2>3, <2>4 DEF LeasedFrom
  <2>6. LeasedWhen' /\ TileLeased' /\ LoadPlace' /\ KernelPlace' /\ WorkerPlace'
    BY <1>1, <1>2, <2>1, <2>5 DEF LeasedWhen, TileLeased, LoadPlace, KernelPlace, WorkerPlace,
                                  NoKernel, At, InTile
  <2>7. QED
    BY <2>2, <2>3, <2>6 DEF ExecInv, Account, Standing
<1>6. CASE ~(host.pos > Len(Tile.experts))
  <2> DEFINE e == Tile.experts[host.pos]
  <2>1. host.pos \in 1..Len(Tile.experts) /\ e \in Leased
    BY <1>2, <1>3, <1>4, <1>6
  <2>2. Unpin(leases[e]) /\ leases' = [leases EXCEPT ![e] = NoTicket] /\ Advance
    BY <1>6 DEF ReleaseTile, Advance
  <2>3. \A i \in 1..Len(Tile.experts) : Tile.experts[i] = e => i = host.pos
    BY <1>4, <2>1 DEF IsInjective
  <2> HIDE DEF e
  <2>4. Leases' /\ Leased' = Leased \ {e} /\ leases' \in [Expert -> Ticket \cup {NoTicket}]
    BY <1>1, <1>2, <2>1, <2>2, LeaseReleased
  <2>5. StorageInv' /\ load' = Idle
    BY <2>1, <2>2, UnpinNext
  <2>6. /\ ExecTypeOK' /\ host'.step = host.step /\ host'.pos = host.pos + 1
        /\ host'.tile = host.tile
    BY <1>1, <1>2, <2>2, <2>4, HostAdvances
  <2>7. Planned'
    BY <1>1, <1>2, <2>6, PlannedKept
  <2>8. Tile' = Tile
    BY <1>1, <2>6 DEF Tile
  <2>9. ASSUME NEW i \in 1..Len(Tile.experts), i >= host.pos + 1
        PROVE  Tile.experts[i] \in Leased \ {e}
    BY <1>2, <1>3, <2>3, <2>9
  <2>10. ASSUME NEW f \in Leased \ {e}
         PROVE  \/ \E u \in (host.tile + 1)..Len(tiles) : Contains(tiles[u].experts, f)
                \/ \E i \in 1..Len(Tile.experts) : i >= host.pos + 1 /\ Tile.experts[i] = f
    <3> SUFFICES ASSUME NEW i \in 1..Len(Tile.experts), i >= host.pos, Tile.experts[i] = f
                 PROVE  i >= host.pos + 1
      BY <1>2
    <3>1. i # host.pos
      BY DEF e
    <3>2. QED
      BY <1>3, <1>4, <3>1
  <2>11. LeasedWhen' /\ TileLeased'
    BY <1>1, <1>2, <2>4, <2>6, <2>8, <2>9, <2>10 DEF LeasedWhen, TileLeased, At, InTile
  <2>12. LoadPlace' /\ KernelPlace' /\ WorkerPlace'
    BY <1>1, <1>2, <2>5, <2>6 DEF LoadPlace, KernelPlace, WorkerPlace, NoKernel
  <2>13. QED
    BY <2>4, <2>5, <2>6, <2>7, <2>11, <2>12 DEF ExecInv, Account, Standing
<1>7. QED
    BY <1>5, <1>6

-----------------------------------------------------------------------------
(* Transfers.                                                              *)
LEMMA TransferKeeps ==
    ASSUME ExecInv, SubmitChunk \/ DrainChunk \/ Abort \/ Device, UNCHANGED executorVars
    PROVE  ExecInv'
<1>1. UNCHANGED <<host, call, tiles, leases, kernel, worker>> /\ UNCHANGED <<slots, issued>>
    BY DEF executorVars, SubmitChunk, DrainChunk, Abort, Device, cacheVars
<1>2. ExecTypeOK /\ Leases /\ Planned /\ Standing /\ StorageInv /\ TypeOK
    BY DEF ExecInv, Account, StorageInv
<1>3. StorageInv'
    BY <1>2, NextStorage DEF Next, LoadStep
<1>4. load' = load \/ (load # Idle /\ load'.ticket = load.ticket)
  <2>1. CASE Device
    BY <2>1 DEF Device
  <2>2. CASE SubmitChunk \/ DrainChunk \/ Abort
    <3>1. load \in Loading
      BY <1>2, <2>2, NotIdle DEF SubmitChunk, DrainChunk, Abort, TypeOK
    <3>2. load'.ticket = load.ticket
      BY <2>2, <3>1 DEF SubmitChunk, DrainChunk, Abort, Loading
    <3>3. load # Idle
      BY <2>2, NotIdle DEF SubmitChunk, DrainChunk, Abort
    <3>4. QED
      BY <3>2, <3>3
  <2>3. QED
    BY <2>1, <2>2
<1>5. CopiesOnly'
  <2>1. CopiesOnly
    BY <1>2 DEF Leases
  <2>2. CASE Device
    <3>1. \A i \in 1..Len(stream') : i + 1 \in 1..Len(stream) /\ stream'[i] = stream[i + 1]
      BY <1>2, <2>2, Dequeued DEF Device
    <3>2. QED
      BY <2>1, <3>1 DEF CopiesOnly
  <2>3. CASE SubmitChunk
    <3> DEFINE w == [op |-> "copy", slot |-> load.ticket.slot, chunk |-> load.chunk,
                     src |-> <<load.ticket.key, load.chunk>>]
    <3>1. w \in Work
      BY <1>2, <2>3, NotIdle DEF SubmitChunk, TypeOK, Loading, Ticket, Work, Copy
    <3>2. Len(stream) < MaxStream /\ stream' = Append(stream, w)
      BY <2>3 DEF SubmitChunk
    <3>3. w.op = "copy"
      OBVIOUS
    <3> HIDE DEF w
    <3>4. \A i \in 1..Len(stream) : stream'[i] = stream[i]
      BY <1>2, <3>1, <3>2, Enqueued
    <3>5. \A i \in 1..Len(stream') : i \in 1..Len(stream) \/ stream'[i] = w
      BY <1>2, <3>1, <3>2, Enqueued
    <3>6. QED
      BY <2>1, <3>3, <3>4, <3>5 DEF CopiesOnly
  <2>4. CASE DrainChunk \/ Abort
    BY <2>1, <2>4 DEF CopiesOnly, DrainChunk, Abort
  <2>5. QED
    BY <2>2, <2>3, <2>4
<1>6. Leased' = Leased /\ LeaseSound' /\ PinsLeased'
  <2>1. Leased' = Leased
    BY <1>1 DEF Leased
  <2>2. QED
    BY <1>1, <1>2, <2>1 DEF Leases, LeaseSound, PinsLeased, Checked, KeyOf
<1>7. ExecTypeOK' /\ Planned'
  <2>1. Planned'
    BY <1>1, <1>2, PlannedKept
  <2>2. QED
    BY <1>1, <1>2, <2>1 DEF ExecTypeOK, InCall
<1>8. LeasedWhen' /\ TileLeased' /\ KernelPlace' /\ WorkerPlace'
    BY <1>1, <1>2, <1>6
       DEF Standing, LeasedWhen, TileLeased, KernelPlace, WorkerPlace, LeasedFrom, At, Tile, KeyOf
<1>9. LoadPlace'
  <2>1. Wanted' = Wanted
    BY <1>1 DEF Wanted, Tile, At
  <2>2. QED
    BY <1>1, <1>2, <1>4, <1>6, <2>1 DEF Standing, LoadPlace, KeyOf
<1>10. QED
    BY <1>3, <1>5, <1>6, <1>7, <1>8, <1>9 DEF ExecInv, Account, Leases, Standing

(* A slot that no lease is on, before and after. *)
LEMMA LeasesApart ==
    ASSUME Leases, CacheTypeOK, NEW s \in Slot, slots[s].status # "in_use",
           slots'[s].status # "in_use", \A u \in Slot \ {s} : slots'[u] = slots[u],
           issued \subseteq issued', UNCHANGED <<stream, leases, call>>
    PROVE  Leases' /\ Leased' = Leased
<1>1. Leased' = Leased
    BY DEF Leased
<1>2. LeaseSound'
  <2> SUFFICES ASSUME NEW f \in Leased
               PROVE  /\ leases[f] \in issued' /\ Checked(leases[f], "in_use")'
                      /\ leases[f].key = KeyOf(f) /\ slots'[leases[f].slot].key = KeyOf(f)
    BY <1>1 DEF LeaseSound, KeyOf
  <2>1. /\ leases[f] \in issued /\ Checked(leases[f], "in_use")
        /\ leases[f].key = KeyOf(f) /\ slots[leases[f].slot].key = KeyOf(f)
    BY DEF Leases, LeaseSound
  <2>2. leases[f].slot \in Slot \ {s}
    BY <2>1 DEF CacheTypeOK, Ticket, Checked
  <2>3. QED
    BY <2>1, <2>2 DEF Checked
<1>3. PinsLeased' /\ CopiesOnly'
    BY <1>1 DEF Leases, PinsLeased, CopiesOnly
<1>4. QED
    BY <1>1, <1>2, <1>3 DEF Leases

LEMMA LoadThrowsKeeps ==
    ASSUME ExecInv, LoadThrows
    PROVE  ExecInv'
<1> DEFINE s == load.ticket.slot
<1>1. /\ FailLoad /\ Go("unwind") /\ UNCHANGED <<call, tiles, leases, kernel, worker>>
      /\ load # Idle /\ load' = Idle /\ UNCHANGED <<stream, issued>>
    BY NotIdle DEF LoadThrows, FailLoad, CompleteLoad
<1>2. /\ ExecTypeOK /\ InCall /\ KernelPlace /\ Leases /\ StorageInv /\ CacheTypeOK
    BY <1>1 DEF ExecInv, Account, Standing, LoadPlace, InCall, StorageInv, Inv
<1>3. s \in Slot /\ slots[s].status = "loading"
    BY <1>1, <1>2 DEF StorageInv, TypeOK, LoadOwnsSlot, Checked, Loading, Ticket
<1>4. slots' = [slots EXCEPT ![s].status = "empty"]
    BY <1>1 DEF FailLoad, CompleteLoad
<1>5. slots'[s].status = "empty" /\ \A u \in Slot \ {s} : slots'[u] = slots[u]
    BY <1>2, <1>3, <1>4 DEF CacheTypeOK, SlotRecord
<1> HIDE DEF s
<1>6. Leases'
    BY <1>1, <1>2, <1>3, <1>5, LeasesApart
<1>7. StorageInv'
    BY <1>1, <1>2, NextStorage DEF Next, LoadStep
<1>8. QED
    BY <1>1, <1>2, <1>6, <1>7, Leaves

-----------------------------------------------------------------------------
(* Loads.                                                                  *)
WantedTile == IF At("prefetch") THEN host.tile + 1 ELSE host.tile

LEMMA WantedTyped ==
    ASSUME ExecInv, host.step \in {"load", "prefetch"}
    PROVE  /\ Wanted = tiles[WantedTile].experts /\ WantedTile \in host.tile..Len(tiles)
           /\ Wanted \in Seq(Expert) /\ Len(Wanted) \in Nat /\ DOMAIN Wanted = 1..Len(Wanted)
           /\ \A i \in 1..Len(Wanted) : Wanted[i] \in Expert
           /\ host.tile \in 1..Len(tiles) /\ Len(tiles) \in Nat
<1>1. /\ ExecTypeOK /\ Planned /\ host.tile \in 1..Len(tiles)
      /\ At("prefetch") => host.tile < Len(tiles)
    BY DEF ExecInv, Account, Standing, TileLeased, InTile
<1>2. Tiled
    BY <1>1, PlannedTiled DEF InTile
<1>3. Wanted = tiles[WantedTile].experts
    BY DEF Wanted, WantedTile, Tile
<1>4. host.tile \in Nat \ {0} /\ Len(tiles) \in Nat
    BY <1>1, <1>2 DEF Tiled
<1>5. WantedTile \in host.tile..Len(tiles)
    BY <1>1, <1>4 DEF WantedTile
<1>6. WantedTile \in 1..Len(tiles)
    BY <1>4, <1>5
<1>7. Wanted \in Seq(Expert)
    BY <1>2, <1>3, <1>6 DEF Tiled
<1> HIDE DEF Wanted
<1>8. QED
    BY <1>1, <1>3, <1>4, <1>5, <1>7, LenProperties, ElementOfSeq

LEMMA StartLoadKeeps ==
    ASSUME ExecInv, host.step \in {"load", "prefetch"}, host.pos \in 1..Len(Wanted),
           Wanted[host.pos] \notin Leased, StartLoad(KeyOf(Wanted[host.pos])),
           UNCHANGED <<host, call, tiles, leases, kernel, worker>>
    PROVE  ExecInv'
<1> DEFINE e == Wanted[host.pos]
           k == KeyOf(e)
<1>1. /\ ExecTypeOK /\ InCall /\ Leases /\ Planned /\ Standing /\ StorageInv
      /\ Inv /\ CacheTypeOK
    BY DEF ExecInv, Account, InCall, StorageInv, Inv
<1>2. e \in Expert
    BY WantedTyped
<1>3. k \in Key
    BY <1>1, <1>2, KeyTypes
<1>4. StartLoad(k) /\ e \notin Leased
    OBVIOUS
<1>5. StorageInv'
  <2> HIDE DEF k, e
  <2>1. [Next]_vars
    BY <1>3, <1>4 DEF Next
  <2>2. QED
    BY <1>1, <2>1, NextStorage
<1>6. PICK s \in Slot :
        /\ slots[s].status \notin Pinned
        /\ slots' = [slots EXCEPT ![s] = [key |-> k, status |-> "loading",
                        generation |-> slots[s].generation + 1,
                        lease |-> serial + 1, last_use |-> serial + 1]]
        /\ load' = [step |-> "check", chunk |-> 1,
                    ticket |-> [slot |-> s, generation |-> slots[s].generation + 1,
                                lease |-> serial + 1, key |-> k]]
  <2> HIDE DEF k
  <2>1. QED
    BY <1>1, <1>3, <1>4, StartedLoad
<1>7. issued \subseteq issued' /\ UNCHANGED stream
    BY <1>4 DEF StartLoad, Load
<1> HIDE DEF k
<1>8. /\ slots[s].status # "in_use" /\ slots'[s].status # "in_use"
      /\ \A u \in Slot \ {s} : slots'[u] = slots[u]
      /\ load'.ticket.key = k
    BY <1>1, <1>6 DEF CacheTypeOK, Pinned
<1>9. Leases' /\ Leased' = Leased
    BY <1>1, <1>7, <1>8, LeasesApart
<1>10. Planned'
    BY <1>1, PlannedKept
<1>11. ExecTypeOK'
    BY <1>1 DEF ExecTypeOK, InCall
<1>12. LeasedWhen' /\ TileLeased' /\ KernelPlace' /\ WorkerPlace'
    BY <1>1, <1>9
       DEF Standing, LeasedWhen, TileLeased, KernelPlace, WorkerPlace, LeasedFrom, At, Tile, KeyOf
<1>13. LoadPlace'
  <2>1. Wanted' = Wanted /\ KeyOf(e)' = k
    BY DEF Wanted, Tile, At, KeyOf, k
  <2>2. QED
    BY <1>4, <1>8, <1>9, <2>1 DEF LoadPlace, k, KeyOf
<1>14. QED
    BY <1>5, <1>9, <1>10, <1>11, <1>12, <1>13 DEF ExecInv, Account, Standing

LEMMA LoadedKeeps ==
    ASSUME ExecInv, Loaded
    PROVE  ExecInv'
<1> DEFINE e == Wanted[host.pos]
           s == load.ticket.slot
<1>0. PICK t : t = load.ticket
    OBVIOUS
<1>1. /\ FinishLoad /\ Advance /\ UNCHANGED <<call, tiles, kernel, worker>>
      /\ load # Idle /\ load' = Idle /\ UNCHANGED <<stream, issued>>
      /\ leases' = [leases EXCEPT ![load.ticket.key[2]] = load.ticket]
    BY NotIdle DEF Loaded, FinishLoad, CompleteLoad, Advance
<1>2. /\ ExecTypeOK /\ Leases /\ Planned /\ Standing /\ StorageInv /\ CacheTypeOK
    BY DEF ExecInv, Account, StorageInv, Inv
<1>3. /\ host.step \in {"load", "prefetch"} /\ InCall /\ host.pos \in 1..Len(Wanted)
      /\ load.ticket.key = KeyOf(e) /\ e \notin Leased
    BY <1>1, <1>2 DEF Standing, LoadPlace, InCall
<1>4. /\ Wanted = tiles[WantedTile].experts /\ WantedTile \in host.tile..Len(tiles)
      /\ e \in Expert
    BY <1>3, WantedTyped
<1>5. load.ticket.key[2] = e
    BY <1>2, <1>3, <1>4, KeyTypes
<1>6. /\ s \in Slot /\ slots[s].status = "loading" /\ load.ticket \in issued
      /\ load.ticket \in Ticket /\ slots[s].key = load.ticket.key
      /\ Checked(load.ticket, "loading")
    BY <1>1, <1>2 DEF StorageInv, TypeOK, LoadOwnsSlot, Checked, Loading, Ticket
<1>7. slots' = [slots EXCEPT ![s].status = "in_use"]
    BY <1>1 DEF FinishLoad, CompleteLoad
<1>8. /\ slots'[s].status = "in_use" /\ slots'[s].key = KeyOf(e)
      /\ \A u \in Slot \ {s} : slots'[u] = slots[u]
      /\ Checked(t, "in_use")'
  <2>1. slots[s] \in SlotRecord /\ slots' \in [Slot -> SlotRecord]
    BY <1>2, <1>6, <1>7 DEF CacheTypeOK, SlotRecord, Status
  <2>2. slots'[s] = [slots[s] EXCEPT !.status = "in_use"]
    BY <1>2, <1>6, <1>7 DEF CacheTypeOK
  <2>3. /\ slots'[s].status = "in_use" /\ slots'[s].key = slots[s].key
        /\ slots'[s].generation = slots[s].generation /\ slots'[s].lease = slots[s].lease
    BY <2>1, <2>2 DEF SlotRecord
  <2>4. Checked(t, "in_use")'
    BY <1>0, <1>6, <2>3 DEF Checked
  <2>5. QED
    BY <1>2, <1>3, <1>6, <1>7, <2>3, <2>4 DEF CacheTypeOK
<1>9. leases' = [leases EXCEPT ![e] = load.ticket]
    BY <1>1, <1>5
<1>10. /\ t \in Ticket /\ t \in issued' /\ t.slot = s /\ t.key = KeyOf(e)
       /\ leases' = [leases EXCEPT ![e] = t]
    BY <1>0, <1>1, <1>3, <1>6, <1>9
<1>11. /\ LeaseSound' /\ PinsLeased' /\ Leased' = Leased \cup {e}
       /\ leases' \in [Expert -> Ticket \cup {NoTicket}]
       /\ \A f \in Leased : leases'[f] = leases[f]
  <2>1. slots[s].status # "in_use" /\ issued \subseteq issued'
    BY <1>1, <1>6
  <2> HIDE DEF s, e
  <2>2. QED
    BY <1>1, <1>2, <1>3, <1>4, <1>6, <1>8, <1>10, <2>1, LeaseAdded
<1>12. CopiesOnly'
    BY <1>1, <1>2 DEF Leases, CopiesOnly
<1>13. StorageInv'
    BY <1>1, <1>2, NextStorage DEF Next, LoadStep
<1>14. /\ ExecTypeOK' /\ host'.step = host.step /\ host'.pos = host.pos + 1
       /\ host'.tile = host.tile
    BY <1>1, <1>2, <1>3, <1>11, HostAdvances
<1>15. Planned' /\ Tile' = Tile
    BY <1>1, <1>2, <1>14, PlannedKept DEF Tile
<1>16. LeasedWhen'
  <2>1. LeasedFrom(host.tile)
    BY <1>2, <1>3 DEF Standing, LeasedWhen
  <2>2. Contains(tiles[WantedTile].experts, e)
    BY <1>3, <1>4, WantedTyped DEF Contains
  <2>3. LeasedFrom(host.tile)'
    BY <1>1, <1>4, <1>11, <1>14, <2>1, <2>2 DEF LeasedFrom
  <2>4. QED
    BY <1>3, <1>14, <2>3 DEF LeasedWhen, At
<1>17. TileLeased'
  <2>1. /\ host.tile \in 1..Len(tiles)
        /\ At("prefetch") => host.tile < Len(tiles)
    BY <1>2, <1>3 DEF Standing, TileLeased, InTile
  <2>2. CASE At("load")
    <3>1. \A i \in 1..Len(Tile.experts) : i < host.pos => Tile.experts[i] \in Leased
      BY <1>2, <2>2 DEF Standing, TileLeased
    <3>2. e = Tile.experts[host.pos] /\ host.pos \in Nat
      BY <1>2, <2>2 DEF Wanted, At, ExecTypeOK
    <3>3. \A i \in 1..Len(Tile.experts) : i < host.pos + 1 => Tile.experts[i] \in Leased \cup {e}
      BY <3>1, <3>2
    <3>4. QED
      BY <1>1, <1>11, <1>14, <1>15, <2>1, <2>2, <3>3 DEF TileLeased, At, InTile
  <2>3. CASE At("prefetch")
    <3>1. \A i \in 1..Len(Tile.experts) : Tile.experts[i] \in Leased
      BY <1>2, <2>3 DEF Standing, TileLeased, At
    <3>2. QED
      BY <1>1, <1>11, <1>14, <1>15, <2>1, <2>3, <3>1 DEF TileLeased, At, InTile
  <2>4. QED
    BY <1>3, <2>2, <2>3 DEF At
<1>18. LoadPlace' /\ WorkerPlace'
    BY <1>1, <1>3, <1>14 DEF LoadPlace, WorkerPlace
<1>19. KernelPlace'
  <2>1. KernelPlace
    BY <1>2 DEF Standing
  <2>2. QED
    BY <1>1, <1>11, <1>14, <2>1 DEF KernelPlace, KeyOf
<1>20. QED
    BY <1>11, <1>12, <1>13, <1>14, <1>15, <1>16, <1>17, <1>18, <1>19
       DEF ExecInv, Account, Leases, Standing

-----------------------------------------------------------------------------
(* The loop over the experts of a tile: the next one, or on to the graph. *)
LEMMA LoadExpertsKeeps ==
    ASSUME ExecInv, NEW step, NEW optional, NEW next, LoadExperts(step, Wanted, optional, next),
           \/ step = "load" /\ optional = FALSE /\ next = "launch"
           \/ step = "prefetch" /\ optional = TRUE /\ next = "sync"
    PROVE  ExecInv'
<1> DEFINE e == Wanted[host.pos]
<1>1. /\ host.step = step /\ step \in {"load", "prefetch"} /\ load = Idle
      /\ UNCHANGED <<call, tiles, leases, kernel, worker>>
    BY DEF LoadExperts, At
<1>2. /\ ExecTypeOK /\ InCall /\ Leases /\ Planned /\ Standing /\ StorageInv
      /\ host.pos \in Nat \ {0} /\ host.tile \in 1..Len(tiles) /\ Len(Wanted) \in Nat
      /\ LeasedFrom(host.tile)
    BY <1>1, WantedTyped DEF ExecInv, Account, InCall, ExecTypeOK, Standing, LeasedWhen
<1>3. /\ step = "load" => /\ Wanted = Tile.experts
                          /\ \A i \in 1..Len(Wanted) : i < host.pos => Wanted[i] \in Leased
      /\ step = "prefetch" => /\ host.tile < Len(tiles)
                              /\ \A i \in 1..Len(Tile.experts) : Tile.experts[i] \in Leased
    BY <1>1, <1>2 DEF Standing, TileLeased, Wanted, At
<1>4. CASE host.pos > Len(Wanted)
  <2>1. Go(next) /\ UNCHANGED vars /\ load' = load
    BY <1>4 DEF LoadExperts, vars, storageVars
  <2>2. ExecTypeOK' /\ host'.step = next /\ host'.tile = host.tile
    BY <1>1, <1>2, <2>1, HostGoes, LeasesTyped DEF Steps
  <2>3. StorageInv' /\ Leases' /\ Planned' /\ Leased' = Leased
    BY <1>1, <2>1, <2>2, Quiet DEF InTile
  <2>4. LeasedFrom(host.tile)' /\ Tile' = Tile
    BY <1>1, <1>2, <2>2, <2>3 DEF LeasedFrom, Tile
  <2>5. \A i \in 1..Len(Tile.experts) : Tile.experts[i] \in Leased
    BY <1>1, <1>2, <1>3, <1>4
  <2>6. LeasedWhen' /\ TileLeased'
    BY <1>1, <1>2, <2>2, <2>3, <2>4, <2>5 DEF LeasedWhen, TileLeased, At, InTile
  <2>7. LoadPlace' /\ WorkerPlace'
    BY <1>1, <2>1, <2>2 DEF LoadPlace, WorkerPlace
  <2>8. KernelPlace'
    BY <1>1, <1>2, <2>2, <2>3 DEF Standing, KernelPlace, KeyOf, NoKernel
  <2>9. QED
    BY <2>2, <2>3, <2>6, <2>7, <2>8 DEF ExecInv, Account, Standing
<1>5. CASE ~(host.pos > Len(Wanted))
  <2>1. host.pos \in 1..Len(Wanted) /\ e \in Expert
    BY <1>1, <1>2, <1>5, WantedTyped
  <2>2. e \in Leased <=> leases[e] # NoTicket
    BY <2>1 DEF Leased
  <2>3. \/ /\ e \in Leased \/ optional = TRUE
           /\ Advance /\ UNCHANGED vars
        \/ /\ e \notin Leased /\ StartLoad(KeyOf(e)) /\ host' = host
        \/ Go("logic_error") /\ UNCHANGED vars
    BY <1>1, <1>5, <2>2 DEF LoadExperts, Advance
  <2>4. CASE (e \in Leased \/ optional = TRUE) /\ Advance /\ UNCHANGED vars
    <3>1. /\ ExecTypeOK' /\ host'.step = host.step /\ host'.pos = host.pos + 1
          /\ host'.tile = host.tile
      BY <1>1, <1>2, <2>4, HostAdvances, LeasesTyped
    <3>2. StorageInv' /\ Leases' /\ Planned' /\ Leased' = Leased
      BY <1>1, <2>4, <3>1, Quiet
    <3>3. LeasedFrom(host.tile)' /\ Tile' = Tile /\ load' = load
      BY <1>1, <1>2, <2>4, <3>1, <3>2 DEF LeasedFrom, Tile, vars, storageVars
    <3>4. step = "load" =>
            \A i \in 1..Len(Wanted) : i < host.pos + 1 => Wanted[i] \in Leased
      BY <1>2, <1>3, <2>4
    <3>5. LeasedWhen' /\ TileLeased'
      BY <1>1, <1>2, <1>3, <3>1, <3>2, <3>3, <3>4 DEF LeasedWhen, TileLeased, At, InTile
    <3>6. LoadPlace' /\ WorkerPlace'
      BY <1>1, <3>1, <3>3 DEF LoadPlace, WorkerPlace
    <3>7. KernelPlace'
      BY <1>1, <1>2, <3>1, <3>2 DEF Standing, KernelPlace, KeyOf
    <3>8. QED
      BY <3>1, <3>2, <3>5, <3>6, <3>7 DEF ExecInv, Account, Standing
  <2>5. CASE e \notin Leased /\ StartLoad(KeyOf(e)) /\ host' = host
    BY <1>1, <2>1, <2>5, StartLoadKeeps
  <2>6. CASE Go("logic_error") /\ UNCHANGED vars
    <3>1. StorageInv' /\ Leases' /\ load' = Idle
      BY <1>1, <1>2, <2>6, NextStorage, LeasesKept DEF vars, cacheVars, storageVars
    <3>2. KernelPlace
      BY <1>2 DEF Standing
    <3>3. QED
      BY <1>1, <1>2, <2>6, <3>1, <3>2, Leaves
  <2>7. QED
    BY <2>3, <2>4, <2>5, <2>6
<1>6. QED
    BY <1>4, <1>5

LEMMA LoadsKeep ==
    ASSUME ExecInv, LoadTile \/ Prefetch
    PROVE  ExecInv'
<1>1. CASE LoadTile
  <2>1. Wanted = Tile.experts
    BY <1>1 DEF LoadTile, LoadExperts, Wanted, At
  <2>2. LoadExperts("load", Wanted, FALSE, "launch")
    BY <1>1, <2>1 DEF LoadTile
  <2>3. QED
    BY <2>2, LoadExpertsKeeps
<1>2. CASE Prefetch
  <2>1. Wanted = tiles[host.tile + 1].experts
    BY <1>2 DEF Prefetch, LoadExperts, Wanted, At
  <2>2. LoadExperts("prefetch", Wanted, TRUE, "sync")
    BY <1>2, <2>1 DEF Prefetch
  <2>3. QED
    BY <2>2, LoadExpertsKeeps
<1>3. QED
    BY <1>1, <1>2

-----------------------------------------------------------------------------
(* Hits and tiles.                                                         *)
(* The ticket of a pin is the one its acquire was given. *)
LEMMA PinnedHit ==
    ASSUME Inv, NEW k \in Key, Pin(k)
    PROVE  \E s \in Slot, t \in Ticket :
              /\ slots[s].status = "ready" /\ slots[s].key = k
              /\ slots'[s].status = "in_use" /\ slots'[s].key = k
              /\ \A u \in Slot \ {s} : slots'[u] = slots[u]
              /\ t \in issued' /\ t.slot = s /\ t.key = k /\ Checked(t, "in_use")'
              /\ issued \subseteq issued' /\ t = CHOOSE u \in issued' : u \notin issued
<1>1. Hit(k) /\ CacheTypeOK /\ OneSlotPerKey
    BY DEF Pin, Inv
<1>2. PICK s \in Slot :
        /\ Holds(s, k)
        /\ slots' = [slots EXCEPT ![s] = [key |-> k, status |-> "in_use",
                        generation |-> slots[s].generation,
                        lease |-> serial + 1, last_use |-> serial + 1]]
        /\ issued' = issued \union {[slot |-> s, generation |-> slots[s].generation,
                                     lease |-> serial + 1, key |-> k]}
    BY <1>1, HitSlot
<1> DEFINE new == [slot |-> s, generation |-> slots[s].generation,
                   lease |-> serial + 1, key |-> k]
<1>3. slots[s].status = "ready" /\ slots[s].key = k
    BY <1>1, <1>2, HitReady DEF Holds
<1>4. new \in Ticket /\ new \notin issued
  <2>1. \A t \in issued : t.lease \in Nat /\ t.lease <= serial
    BY DEF Inv, CacheTypeOK, Ticket, ClockSound
  <2>2. serial \in Nat /\ slots[s].generation \in Nat
    BY SerialAssumption DEF Inv, CacheTypeOK, SlotRecord
  <2>3. QED
    BY <2>1, <2>2 DEF Ticket
<1>5. new = CHOOSE t \in issued' : t \notin issued
  <2>1. new \in issued' /\ \A t \in issued' : t \notin issued <=> t = new
    BY <1>2, <1>4
  <2> HIDE DEF new
  <2>2. QED
    BY <2>1
<1>6. /\ slots'[s] = [key |-> k, status |-> "in_use", generation |-> slots[s].generation,
                      lease |-> serial + 1, last_use |-> serial + 1]
      /\ \A u \in Slot \ {s} : slots'[u] = slots[u]
    BY <1>1, <1>2 DEF CacheTypeOK
<1>7. PICK t : t = new
    OBVIOUS
<1>8. Checked(t, "in_use")'
    BY <1>6, <1>7 DEF Checked
<1>9. /\ t \in issued' /\ t.slot = s /\ t.key = k /\ issued \subseteq issued'
      /\ t \in Ticket /\ t = CHOOSE u \in issued' : u \notin issued
    BY <1>2, <1>4, <1>5, <1>7
<1>10. slots'[s].status = "in_use" /\ slots'[s].key = k
    BY <1>6
<1> HIDE DEF new
<1>11. QED
    BY <1>3, <1>6, <1>8, <1>9, <1>10

LEMMA OrderTyped ==
    ASSUME ExecInv, At("pin")
    PROVE  /\ ExpertsInOrder(tiles) \in Seq(Expert) /\ IsInjective(ExpertsInOrder(tiles))
           /\ \A x : Contains(ExpertsInOrder(tiles), x) <=> Has(tiles, x)
<1> DEFINE E == Named(call.ids)
           rank == FirstIn(call.ids)
<1>1. call.ids \in Seq(Expert)
    BY DEF ExecInv, Account, ExecTypeOK, InCall, At, Calls
<1>2. Plan(tiles, E, call.ids, Mine, TileCap, rank)
    BY DEF ExecInv, Account, Planned, At
<1>3. E \subseteq Expert /\ rank \in [E -> Int]
  <2>1. DOMAIN call.ids = 1..Len(call.ids) /\ \A a \in 1..Len(call.ids) : call.ids[a] \in Expert
    BY <1>1, LenProperties, ElementOfSeq
  <2>2. E \subseteq Expert
    BY <2>1 DEF Named
  <2>3. rank \in [E -> 1..Len(call.ids)] /\ Len(call.ids) \in Nat
    BY <1>1, FirstRanks
  <2> HIDE DEF E, rank
  <2>4. QED
    BY <2>2, <2>3
<1>4. tiles \in Tiles(E) /\ InOrder(tiles, rank)
    BY <1>2 DEF Plan, GoodTiles
<1> HIDE DEF E, rank
<1>5. /\ ExpertsInOrder(tiles) \in Seq(E) /\ Ordered(ExpertsInOrder(tiles), rank)
      /\ \A x : Contains(ExpertsInOrder(tiles), x) <=> Has(tiles, x)
    BY <1>4, OrderHas
<1>6. IsInjective(ExpertsInOrder(tiles))
    BY <1>3, <1>5, OrderedOnce
<1>7. QED
    BY <1>3, <1>5, <1>6, SeqDef

LEMMA PinHitKeeps ==
    ASSUME ExecInv, PinHit
    PROVE  ExecInv'
<1> DEFINE order == ExpertsInOrder(tiles)
           e == order[host.pos]
           k == KeyOf(e)
<1>1. /\ host.step = "pin" /\ host.pos <= Len(order)
      /\ UNCHANGED <<call, tiles, kernel, worker>>
    BY DEF PinHit, At
<1>2. /\ ExecTypeOK /\ InCall /\ Leases /\ Planned /\ StorageInv /\ Inv /\ CacheTypeOK
      /\ load = Idle /\ kernel = NoKernel /\ KernelPlace
      /\ \A f \in Leased : Has(tiles, f)
      /\ host.tile = 1
    BY <1>1 DEF ExecInv, Account, Standing, LeasedWhen, TileLeased, LoadPlace, KernelPlace, InCall,
                At, StorageInv, Inv
<1>3. e \in Expert /\ Has(tiles, e)
  <2>1. host.pos \in Nat \ {0}
    BY <1>2 DEF ExecTypeOK, InCall
  <2>2. order \in Seq(Expert) /\ \A x : Contains(order, x) <=> Has(tiles, x)
    BY <1>1, OrderTyped DEF At
  <2>3. DOMAIN order = 1..Len(order) /\ Len(order) \in Nat
    BY <2>2, LenProperties
  <2> HIDE DEF order
  <2>4. host.pos \in 1..Len(order)
    BY <1>1, <2>1, <2>3
  <2>5. order[host.pos] \in Expert /\ Contains(order, order[host.pos])
    BY <2>2, <2>3, <2>4, ElementOfSeq DEF Contains
  <2>6. QED
    BY <2>2, <2>5
<1>4. k \in Key
    BY <1>2, <1>3, KeyTypes
<1>5. \/ /\ Pin(k) /\ Advance
         /\ leases' = [leases EXCEPT ![e] = CHOOSE t \in issued' : t \notin issued]
      \/ Advance /\ UNCHANGED <<vars, leases>>
      \/ Go("logic_error") /\ UNCHANGED <<vars, leases>>
    BY DEF PinHit, Advance
<1>6. CASE /\ Pin(k) /\ Advance
           /\ leases' = [leases EXCEPT ![e] = CHOOSE t \in issued' : t \notin issued]
  <2> HIDE DEF k, e
  <2>1. PICK s \in Slot, t \in Ticket :
              /\ slots[s].status = "ready" /\ slots[s].key = k
              /\ slots'[s].status = "in_use" /\ slots'[s].key = k
              /\ \A u \in Slot \ {s} : slots'[u] = slots[u]
              /\ t \in issued' /\ t.slot = s /\ t.key = k /\ Checked(t, "in_use")'
              /\ issued \subseteq issued' /\ t = CHOOSE u \in issued' : u \notin issued
    BY <1>2, <1>4, <1>6, PinnedHit
  <2>2. e \notin Leased
    <3> SUFFICES ASSUME e \in Leased PROVE FALSE
      OBVIOUS
    <3>1. /\ leases[e] \in issued /\ slots[leases[e].slot].status = "in_use"
          /\ slots[leases[e].slot].key = k
      BY <1>2 DEF Leases, LeaseSound, Checked, k
    <3>2. leases[e].slot \in Slot
      BY <1>2, <3>1 DEF CacheTypeOK, Ticket
    <3>3. OneSlotPerKey
      BY <1>2 DEF Inv
    <3>4. QED
      BY <2>1, <3>1, <3>2, <3>3 DEF OneSlotPerKey, Occupied, Holds
  <2>3. leases' = [leases EXCEPT ![e] = t] /\ slots[s].status # "in_use"
    BY <1>6, <2>1
  <2>4. slots'[s].key = KeyOf(e) /\ t.key = KeyOf(e)
    BY <2>1 DEF k
  <2>5. /\ LeaseSound' /\ PinsLeased' /\ Leased' = Leased \cup {e}
        /\ leases' \in [Expert -> Ticket \cup {NoTicket}]
    BY <1>1, <1>2, <1>3, <2>1, <2>2, <2>3, <2>4, LeaseAdded
  <2>6. UNCHANGED storageVars
    BY <1>6 DEF Pin
  <2>7. CopiesOnly'
    BY <1>2, <2>6 DEF Leases, CopiesOnly, storageVars
  <2>8. StorageInv'
    BY <1>2, <1>4, <1>6, NextStorage DEF Next
  <2>9. ExecTypeOK' /\ host'.step = host.step /\ host'.tile = host.tile
    BY <1>1, <1>2, <1>6, <2>5, HostAdvances
  <2>10. Planned'
    BY <1>1, <1>2, <2>9, PlannedKept
  <2>11. LeasedWhen' /\ TileLeased'
    BY <1>1, <1>2, <1>3, <2>5, <2>9 DEF LeasedWhen, TileLeased, At, InTile
  <2>12. LoadPlace' /\ KernelPlace' /\ WorkerPlace'
    BY <1>1, <1>2, <2>6, <2>9 DEF LoadPlace, KernelPlace, WorkerPlace, NoKernel, storageVars
  <2>13. QED
    BY <2>5, <2>7, <2>8, <2>9, <2>10, <2>11, <2>12 DEF ExecInv, Account, Leases, Standing
<1>7. CASE Advance /\ UNCHANGED <<vars, leases>>
  <2>1. ExecTypeOK' /\ host'.step = host.step /\ host'.tile = host.tile
    BY <1>1, <1>2, <1>7, HostAdvances, LeasesTyped
  <2>2. StorageInv' /\ Leases' /\ Planned' /\ Leased' = Leased
    BY <1>1, <1>7, <2>1, Quiet
  <2>3. LeasedWhen' /\ TileLeased'
    BY <1>1, <1>2, <2>1, <2>2 DEF LeasedWhen, TileLeased, At, InTile
  <2>4. LoadPlace' /\ KernelPlace' /\ WorkerPlace'
    BY <1>1, <1>2, <1>7, <2>1 DEF LoadPlace, KernelPlace, WorkerPlace, NoKernel, vars,
                                  storageVars
  <2>5. QED
    BY <2>1, <2>2, <2>3, <2>4 DEF ExecInv, Account, Standing
<1>8. CASE Go("logic_error") /\ UNCHANGED <<vars, leases>>
  <2>1. StorageInv' /\ Leases' /\ load' = Idle
    BY <1>1, <1>2, <1>8, NextStorage, LeasesKept DEF vars, cacheVars, storageVars
  <2>2. QED
    BY <1>1, <1>2, <1>8, <2>1, Leaves
<1>9. QED
    BY <1>5, <1>6, <1>7, <1>8

LEMMA RetilePlans ==
    ASSUME ExecInv, Retile
    PROVE  /\ Plan(tiles', Named(call.ids), call.ids, Mine, TileCap,
                   HitRank(FirstIn(call.ids), Leased, Named(call.ids), Len(call.ids)))
           /\ \A x : Has(tiles', x) <=> Has(tiles, x)
<1> DEFINE ids == call.ids
<1>1. /\ host.step = "pin" /\ tiles' = Retiled(HitsThenMisses(tiles, Leased), ids, TileCap)
    BY DEF Retile, At
<1>2. ids \in Seq(Expert)
    BY <1>1 DEF ExecInv, Account, ExecTypeOK, InCall, Calls
<1>3. Plan(tiles, Named(ids), ids, Mine, TileCap, FirstIn(ids))
    BY <1>1 DEF ExecInv, Account, Planned
<1>4. /\ Mine \subseteq 1..Len(ids)
      /\ \A a \in 1..Len(ids) : (\E b \in Mine : ids[b] = ids[a]) => a \in Mine
    BY <1>2, LenProperties DEF Mine
<1>5. Plan(tiles', Named(ids), ids, Mine, TileCap,
           HitRank(FirstIn(ids), Leased, Named(ids), Len(ids)))
    BY <1>1, <1>2, <1>3, <1>4, CapPositive, RetiledFirst
<1>6. \A x : Has(tiles', x) <=> Has(tiles, x)
    BY <1>3, <1>5 DEF Plan
<1>7. QED
    BY <1>5, <1>6

LEMMA RetileKeeps ==
    ASSUME ExecInv, Retile
    PROVE  ExecInv'
<1>1. /\ host.step = "pin" /\ Go("tile") /\ UNCHANGED <<vars, call, leases, kernel, worker>>
      /\ load' = load
    BY DEF Retile, At, vars, storageVars
<1>2. /\ ExecTypeOK /\ InCall /\ Leases /\ StorageInv
      /\ load = Idle /\ kernel = NoKernel /\ \A e \in Leased : Has(tiles, e)
    BY <1>1 DEF ExecInv, Account, Standing, LeasedWhen, LoadPlace, KernelPlace, InCall, At
<1>3. ExecTypeOK' /\ host'.step = "tile" /\ host'.tile = host.tile
    BY <1>1, <1>2, HostGoes, LeasesTyped DEF Steps
<1>4. StorageInv' /\ Leases' /\ Leased' = Leased
    BY <1>1, <1>2, NextStorage, LeasesKept DEF vars, cacheVars, storageVars
<1>5. Planned'
  <2>1. Mine' = Mine
    BY <1>1 DEF Mine
  <2>2. QED
    BY <1>1, <1>3, <2>1, RetilePlans DEF Planned
<1>6. LeasedFrom(host.tile)'
  <2>1. host.tile = 1
    BY <1>1 DEF ExecInv, Account, Standing, TileLeased
  <2>2. \A e \in Leased : \E u \in 1..Len(tiles') : Contains(tiles'[u].experts, e)
    BY <1>2, RetilePlans DEF Has
  <2>3. QED
    BY <1>3, <1>4, <2>1, <2>2 DEF LeasedFrom
<1>7. LeasedWhen' /\ TileLeased'
    BY <1>3, <1>6 DEF LeasedWhen, TileLeased, At, InTile
<1>8. LoadPlace' /\ KernelPlace' /\ WorkerPlace'
    BY <1>1, <1>2, <1>3 DEF LoadPlace, KernelPlace, WorkerPlace, NoKernel
<1>9. QED
    BY <1>3, <1>4, <1>5, <1>7, <1>8 DEF ExecInv, Account, Standing

-----------------------------------------------------------------------------
(* A call begins with the plan of the assignments the CPU does not take. *)
LEMMA RoutingTyped ==
    ASSUME NEW ids, ids \in Routings
    PROVE  /\ ids \in Seq(Expert) /\ ids \in Seq(Named(ids)) /\ Named(ids) \subseteq Expert
           /\ DOMAIN ids = 1..Len(ids) /\ Len(ids) \in Nat \ {0}
           /\ Cardinality(Expert) \in Nat \ {0}
<1>1. PICK n \in 1..MaxAssignments : ids \in [1..n -> Expert]
    BY DEF Routings
<1>2. n \in Nat \ {0}
    BY <1>1, RoutingAssumption
<1>3. ids \in Seq(Expert) /\ Len(ids) = n
    BY <1>1, <1>2, LenProperties
<1>4. /\ DOMAIN ids = 1..Len(ids) /\ Len(ids) \in Nat \ {0} /\ ids \in Seq(Named(ids))
    BY <1>2, <1>3, FirstRanks
<1>5. Named(ids) \subseteq Expert
    BY <1>1 DEF Named
<1>6. Expert # {}
    BY <1>1, <1>2
<1>7. Cardinality(Expert) \in Nat \ {0}
    BY <1>6, RoutingAssumption, FS_CardinalityType, FS_EmptySet
<1>8. QED
    BY <1>3, <1>4, <1>5, <1>7

(* The misses of a call, in the router's order, and the CPU's share of them. *)
Missing(layer, ids) ==
    Filter(ExpertsInOrder(PlanRoutes(ids, Cardinality(Expert))),
           {e \in Expert : ~Resident(<<layer, e>>)})

LEMMA MissingTyped ==
    ASSUME NEW layer, NEW ids, ids \in Routings
    PROVE  /\ Missing(layer, ids) \in Seq(Expert) /\ Len(Missing(layer, ids)) \in Nat
           /\ \A e : Contains(Missing(layer, ids), e) => ~Resident(<<layer, e>>)
<1> DEFINE E == Named(ids)
           all == PlanRoutes(ids, Cardinality(Expert))
           order == ExpertsInOrder(all)
           keep == {e \in Expert : ~Resident(<<layer, e>>)}
<1>1. /\ ids \in Seq(Expert) /\ ids \in Seq(E) /\ E \subseteq Expert
      /\ Cardinality(Expert) \in Nat \ {0}
    BY RoutingTyped
<1>2. Plan(all, E, ids, 1..Len(ids), Cardinality(Expert), FirstIn(ids))
    BY <1>1, PlanRoutesFirst
<1>3. all \in Tiles(E)
    BY <1>2 DEF Plan, GoodTiles
<1> HIDE DEF E, all
<1>4. order \in Seq(E)
    BY <1>3, OrderHas
<1>5. order \in Seq(Expert)
    BY <1>1, <1>4
<1> HIDE DEF order, keep
<1>6. /\ Filter(order, keep) \in Seq(Expert)
      /\ \A x : Contains(Filter(order, keep), x) <=> Contains(order, x) /\ x \in keep
    BY <1>5, FilterHas
<1>7. Missing(layer, ids) = Filter(order, keep)
    BY DEF Missing, order, all, keep
<1>8. QED
    BY <1>6, <1>7, LenProperties DEF keep

LEMMA ExecuteTyped ==
    ASSUME NEW layer \in Layer, NEW ids, ids \in Routings, Execute(layer, ids)
    PROVE  \E cpu \in Seq(Expert) :
              /\ call' = [reply |-> "none", layer |-> layer, ids |-> ids, cpu |-> cpu]
              /\ tiles' = KeepSelected(PlanRoutes(ids, TileCap), ids, Expert \ ToSet(cpu))
              /\ \A e \in ToSet(cpu) : ~Resident(<<layer, e>>)
<1> DEFINE misses == Missing(layer, ids)
<1>1. PICK count \in IF Hybrid THEN 0..Len(misses) ELSE {0} :
        LET cpu == SubSeq(misses, 1, count) IN
        /\ call' = [reply |-> "none", layer |-> layer, ids |-> ids, cpu |-> cpu]
        /\ tiles' = KeepSelected(PlanRoutes(ids, TileCap), ids, Expert \ ToSet(cpu))
    BY DEF Execute, Missing
<1>2. /\ misses \in Seq(Expert) /\ Len(misses) \in Nat
      /\ \A e : Contains(misses, e) => ~Resident(<<layer, e>>)
    BY MissingTyped
<1> DEFINE cpu == SubSeq(misses, 1, count)
<1> HIDE DEF misses
<1>3. count \in 0..Len(misses)
    BY <1>2
<1>4. \A i \in 1..count : misses[i] \in Expert /\ Contains(misses, misses[i])
    BY <1>2, <1>3, ElementOfSeq, LenProperties DEF Contains
<1>5. /\ cpu \in Seq(Expert) /\ Len(cpu) = count
      /\ \A i \in 1..count : cpu[i] = misses[i]
    BY <1>3, <1>4, SubSeqProperties
<1> HIDE DEF cpu
<1>6. \A e \in ToSet(cpu) : ~Resident(<<layer, e>>)
    BY <1>2, <1>4, <1>5, LenProperties DEF ToSet
<1>7. QED
    BY <1>1, <1>5, <1>6 DEF cpu

LEMMA ExecuteKeeps ==
    ASSUME ExecInv, NEW layer \in Layer, NEW ids, ids \in Routings, Execute(layer, ids)
    PROVE  ExecInv'
<1>1. /\ host.step = "idle"
      /\ host' = [step |-> "start", tile |-> 1, pos |-> 1, begin |-> 1]
      /\ UNCHANGED <<vars, leases, kernel, worker>> /\ load' = load
    BY DEF Execute, At, vars, storageVars
<1>2. /\ ids \in Seq(Expert) /\ ids \in Seq(Named(ids)) /\ Named(ids) \subseteq Expert
      /\ DOMAIN ids = 1..Len(ids) /\ Len(ids) \in Nat
      /\ Cardinality(Expert) \in Nat \ {0}
    BY RoutingTyped
<1>3. PICK cpu \in Seq(Expert) :
        /\ call' = [reply |-> "none", layer |-> layer, ids |-> ids, cpu |-> cpu]
        /\ tiles' = KeepSelected(PlanRoutes(ids, TileCap), ids, Expert \ ToSet(cpu))
    BY ExecuteTyped
<1>4. Mine' = Chosen(1..Len(ids), ids, Expert \ ToSet(cpu))
  <2>1. \A a \in 1..Len(ids) : ids[a] \in Expert
    BY <1>2, ElementOfSeq
  <2>2. QED
    BY <1>2, <1>3, <2>1 DEF Mine, Chosen
<1>5. Plan(tiles', Named(ids), ids, Mine', TileCap, FirstIn(ids))
  <2>1. Plan(PlanRoutes(ids, TileCap), Named(ids), ids, 1..Len(ids), TileCap, FirstIn(ids))
    BY <1>2, CapPositive, PlanRoutesFirst
  <2> DEFINE all == PlanRoutes(ids, TileCap)
             A == 1..Len(ids)
             cap == TileCap
             E == Named(ids)
             rank == FirstIn(ids)
             selected == Expert \ ToSet(cpu)
  <2>2. /\ ids \in Seq(E) /\ A \subseteq 1..Len(ids) /\ cap \in Nat
        /\ Plan(all, E, ids, A, cap, rank)
    BY <1>2, <2>1, CapPositive
  <2>3. tiles' = KeepSelected(all, ids, selected) /\ Mine' = Chosen(A, ids, selected)
    BY <1>3, <1>4
  <2> HIDE DEF all, A, cap, E, rank, selected
  <2>4. Plan(KeepSelected(all, ids, selected), E, ids, Chosen(A, ids, selected), cap, rank)
    BY <2>2, KeepSelectedPlans
  <2>5. QED
    BY <2>3, <2>4 DEF cap, E, rank
<1>6. /\ ExecTypeOK /\ Leases /\ StorageInv /\ Leased = {} /\ load = Idle /\ kernel = NoKernel
      /\ worker = NoWorker
    BY <1>1 DEF ExecInv, Account, Standing, LeasedWhen, LoadPlace, KernelPlace, WorkerPlace
<1>7. StorageInv' /\ Leases' /\ Leased' = Leased
    BY <1>1, <1>6, NextStorage, LeasesKept DEF vars, cacheVars, storageVars
<1>8. ExecTypeOK'
  <2>1. call' \in Calls
    BY <1>2, <1>3 DEF Calls
  <2>2. host' \in [step : Steps, tile : Nat, pos : Nat, begin : Nat]
    BY <1>1 DEF Steps
  <2>3. QED
    BY <1>1, <1>6, <2>1, <2>2 DEF ExecTypeOK, InCall
<1>9. Planned'
  <2>1. call'.ids = ids
    BY <1>3
  <2>2. QED
    BY <1>1, <1>5, <2>1 DEF Planned, InTile
<1>10. LeasedWhen' /\ TileLeased' /\ LoadPlace' /\ KernelPlace' /\ WorkerPlace'
    BY <1>1, <1>6, <1>7 DEF LeasedWhen, TileLeased, LoadPlace, KernelPlace, WorkerPlace,
                             NoKernel, At, InTile
<1>11. QED
    BY <1>7, <1>8, <1>9, <1>10 DEF ExecInv, Account, Standing

-----------------------------------------------------------------------------
LEMMA InitExec == ExecutorInit => ExecInv
<1> SUFFICES ASSUME ExecutorInit PROVE ExecInv
    OBVIOUS
<1>1. StorageInv
    BY InitStorage DEF ExecutorInit
<1>2. /\ host = AtRest /\ leases = [e \in Expert |-> NoTicket] /\ kernel = NoKernel
      /\ worker = NoWorker /\ load = Idle /\ stream = <<>>
      /\ \A s \in Slot : slots[s].status = "empty"
    BY DEF ExecutorInit, Init, CacheInit
<1>3. Leased = {}
    BY <1>2 DEF Leased
<1>4. host.step = "idle" /\ ExecTypeOK
    BY <1>2 DEF AtRest, ExecTypeOK, Steps, InCall
<1>5. Leases
    BY <1>2, <1>3 DEF Leases, LeaseSound, PinsLeased, CopiesOnly
<1>6. Planned /\ Standing
    BY <1>2, <1>3, <1>4 DEF Planned, Standing, LeasedWhen, TileLeased, LoadPlace, KernelPlace,
                            WorkerPlace, NoKernel, At, InTile
<1>7. QED
    BY <1>1, <1>4, <1>5, <1>6 DEF ExecInv, Account

LEMMA NextExec == ExecInv /\ [ExecutorNext]_allVars => ExecInv'
<1> SUFFICES ASSUME ExecInv, [ExecutorNext]_allVars PROVE ExecInv'
    OBVIOUS
<1>1. CASE \E layer \in Layer, ids \in Routings : Execute(layer, ids)
    BY <1>1, ExecuteKeeps
<1>2. CASE StartWorker \/ PinHit \/ Retile \/ NextTile \/ LoadTile \/ Prefetch
    BY <1>2, StartWorkerKeeps, PinHitKeeps, RetileKeeps, NextTileKeeps, LoadsKeep
<1>3. CASE Loaded \/ LoadThrows \/ ReadBack \/ ReleaseTile \/ Unwind \/ Rethrow \/ Join
    BY <1>3, LoadedKeeps, LoadThrowsKeeps, ReadBackKeeps, ReleaseTileKeeps, UnwindKeeps,
       ReturnKeeps
<1>4. CASE Transfer \/ DeviceCopies
    BY <1>4, TransferKeeps DEF Transfer, DeviceCopies
<1>5. CASE Launch(TRUE) \/ Launch(FALSE)
    BY <1>5, LaunchKeeps
<1>6. CASE Cancel
    BY <1>6, CancelKeeps, TransferKeeps DEF Cancel
<1>7. CASE WorkerTile \/ WorkerThrows \/ Compute \/ RaiseStop \/ UNCHANGED allVars
    BY <1>7, OthersKeep
<1>8. QED
    BY <1>1, <1>2, <1>3, <1>4, <1>5, <1>6, <1>7 DEF ExecutorNext, HostStep

LEMMA ExecInductive == ExecutorSpec => []ExecInv
BY InitExec, NextExec, PTL DEF ExecutorSpec

-----------------------------------------------------------------------------
(* The executor works its storage only through the storage's operations. *)
LEMMA StorageStep ==
    ASSUME ExecInv, [ExecutorNext]_allVars
    PROVE  [Next]_vars
<1>1. CASE PinHit
  <2> DEFINE e == ExpertsInOrder(tiles)[host.pos]
  <2>1. Pin(KeyOf(e)) \/ UNCHANGED vars
    BY <1>1 DEF PinHit
  <2>2. host.pos \in Nat \ {0} /\ host.pos <= Len(ExpertsInOrder(tiles)) /\ At("pin")
    BY <1>1 DEF PinHit, ExecInv, Account, ExecTypeOK, InCall, At
  <2>3. e \in Expert
    BY <2>2, OrderTyped, LenProperties, ElementOfSeq
  <2>4. KeyOf(e) \in Key
    BY <2>2, <2>3, KeyTypes DEF ExecInv, Account, InCall, At
  <2> HIDE DEF e
  <2>5. QED
    BY <2>1, <2>4 DEF Next
<1>2. CASE LoadTile \/ Prefetch
  <2> DEFINE e == Wanted[host.pos]
  <2>1. /\ host.step \in {"load", "prefetch"}
        /\ UNCHANGED vars \/ (~(host.pos > Len(Wanted)) /\ StartLoad(KeyOf(e)))
    <3>1. CASE LoadTile
      <4>1. Wanted = Tile.experts
        BY <3>1 DEF LoadTile, LoadExperts, Wanted, At
      <4>2. QED
        BY <3>1, <4>1 DEF LoadTile, LoadExperts, At
    <3>2. CASE Prefetch
      <4>1. Wanted = tiles[host.tile + 1].experts
        BY <3>2 DEF Prefetch, LoadExperts, Wanted, At
      <4>2. QED
        BY <3>2, <4>1 DEF Prefetch, LoadExperts, At
    <3>3. QED
      BY <1>2, <3>1, <3>2
  <2>2. host.pos \in Nat \ {0} /\ InCall /\ ExecTypeOK
    BY <2>1 DEF ExecInv, Account, ExecTypeOK, InCall
  <2>3. ~(host.pos > Len(Wanted)) => KeyOf(e) \in Key
    BY <2>1, <2>2, WantedTyped, KeyTypes
  <2> HIDE DEF e
  <2>4. QED
    BY <2>1, <2>3 DEF Next
<1>3. CASE ReleaseTile \/ Unwind
  <2>1. UNCHANGED vars \/ \E e \in Leased : Unpin(leases[e])
    <3>1. CASE Unwind
      BY <3>1 DEF Unwind
    <3>2. CASE ReleaseTile
      <4>1. /\ host.pos \in Nat \ {0} /\ Len(Tile.experts) \in Nat
            /\ \A i \in 1..Len(Tile.experts) : i >= host.pos => Tile.experts[i] \in Leased
        <5>1. host.step = "release"
          BY <3>2 DEF ReleaseTile, At
        <5>2. Tiled /\ host.tile \in 1..Len(tiles)
          BY <5>1, PlannedTiled DEF ExecInv, Account, Standing, TileLeased, InTile
        <5>3. QED
          BY <5>1, <5>2, LenProperties
             DEF ExecInv, Account, Standing, TileLeased, ExecTypeOK, InCall, At, Tiled, Tile
      <4>2. QED
        BY <3>2, <4>1 DEF ReleaseTile
    <3>3. QED
      BY <1>3, <3>1, <3>2
  <2>2. \A e \in Leased : leases[e] \in issued
    BY DEF ExecInv, Account, Leases, LeaseSound
  <2>3. QED
    BY <2>1, <2>2 DEF Next
<1>4. CASE Loaded \/ LoadThrows \/ Transfer \/ DeviceCopies \/ Cancel
  BY <1>4 DEF Loaded, LoadThrows, Transfer, DeviceCopies, Cancel, Next, LoadStep
<1>5. CASE \/ StartWorker \/ Retile \/ NextTile \/ ReadBack \/ RaiseStop \/ Rethrow \/ Join
           \/ \E ok \in BOOLEAN : Launch(ok)
  BY <1>5 DEF StartWorker, Retile, NextTile, ReadBack, RaiseStop, Rethrow, Join, Launch
<1>6. CASE \/ WorkerTile \/ WorkerThrows \/ Compute \/ UNCHANGED allVars
           \/ \E layer \in Layer, ids \in Routings : Execute(layer, ids)
  BY <1>6 DEF WorkerTile, WorkerThrows, Compute, allVars, Execute
<1>7. QED
  BY <1>1, <1>2, <1>3, <1>4, <1>5, <1>6 DEF ExecutorNext, HostStep

(* The executor pins, loads and releases only by the storage's operations, in
   states and with tickets they allow: what is proved of the storage, and of
   its slot table, holds while a call is under way. *)
THEOREM ExecutorUsesStorage == ExecutorSpec => Spec
<1>1. ExecutorInit => Init
    BY DEF ExecutorInit
<1>2. ExecInv /\ [ExecutorNext]_allVars => [Next]_vars
    BY StorageStep
<1>3. QED
    BY <1>1, <1>2, ExecInductive, PTL DEF ExecutorSpec, Spec

(* However a call ended - normally, cancelled, after a failed transfer, graph
   or worker - nothing of it is left. *)
THEOREM CallsLeaveNothing == ExecutorSpec => []NothingLeftBehind
<1>1. ASSUME ExecInv, At("idle")
      PROVE  /\ \A s \in Slot : slots[s].status \notin Pinned
             /\ \A e \in Expert : leases[e] = NoTicket
             /\ load = Idle /\ stream = <<>> /\ kernel = NoKernel /\ worker = NoWorker
  <2>1. Leased = {} /\ load = Idle /\ kernel = NoKernel /\ worker = NoWorker
    BY <1>1 DEF ExecInv, Account, Standing, LeasedWhen, LoadPlace, KernelPlace, WorkerPlace, At
  <2>2. \A e \in Expert : leases[e] = NoTicket
    BY <2>1 DEF Leased
  <2>3. \A s \in Slot : slots[s].status \notin Pinned
    BY <1>1, <2>1 DEF ExecInv, Account, Leases, PinsLeased, StorageInv, LoadOwnsSlot, Pinned
  <2>4. \A i \in 1..Len(stream) : FALSE
    BY <1>1, <2>1 DEF ExecInv, Account, Leases, CopiesOnly, StorageInv, QueueSound, CopySound
  <2>5. stream \in Seq(Work)
    BY <1>1 DEF ExecInv, StorageInv, TypeOK, Work
  <2>6. stream = <<>>
    BY <2>4, <2>5, EmptySeq, LenProperties
  <2>7. QED
    BY <2>1, <2>2, <2>3, <2>6
<1>2. ExecInv => NothingLeftBehind
    BY <1>1 DEF NothingLeftBehind
<1>3. QED
    BY <1>2, ExecInductive, PTL

-----------------------------------------------------------------------------
(* What has been computed.  Every row of the tiles behind the host, and of the
   batches read back of its tile, is right; a graph in flight was given its
   batch; the worker has computed the rows of the experts it has behind it. *)
Right(a) == outputs[a] = KeyOf(call.ids[a])
Done(t, n) == \A i \in 1..n : Right(tiles[t].assignments[i])
AfterPin == InTile \cup {"pin", "tile", "join"}

Rows ==
    /\ InCall => DOMAIN outputs = DOMAIN call.ids
    /\ At("idle") /\ call.reply = "ok" => \A a \in DOMAIN outputs : Right(a)
TilesDone ==
    /\ host.step \in InTile \cup {"tile"} =>
          \A t \in 1..Len(tiles) : t < host.tile => Done(t, Len(tiles[t].assignments))
    /\ At("load") => host.begin = 1
    /\ host.step \in {"launch", "prefetch", "sync"} => Done(host.tile, host.begin - 1)
    /\ At("release") => Done(host.tile, Len(Tile.assignments))
    /\ At("join") => \A a \in Mine : Right(a)
KernelRows == host.step \in {"prefetch", "sync"} =>
    /\ kernel.state = "running" => DOMAIN kernel.slot = ToSet(Batch)
    /\ kernel.state = "done" => /\ DOMAIN kernel.out = ToSet(Batch)
                                /\ \A a \in ToSet(Batch) : kernel.out[a] = KeyOf(call.ids[a])
WorkerRows ==
    /\ worker.state \in {"running", "finished"} =>
          /\ worker = [state |-> worker.state, left |-> worker.left, rows |-> worker.rows]
          /\ worker.left \in Seq(Expert) /\ DOMAIN worker.rows = DOMAIN call.ids
          /\ \A a \in DOMAIN call.ids : Contains(call.cpu, call.ids[a]) =>
                \/ worker.rows[a] = KeyOf(call.ids[a])
                \/ Contains(worker.left, call.ids[a])
    /\ worker.state = "finished" => worker.left = <<>>
    /\ worker.state = "none" /\ host.step \in AfterPin => call.cpu = <<>>
Results == Rows /\ TilesDone /\ KernelRows /\ WorkerRows

(* Moves of the host that compute nothing. *)
Moved ==
    \/ host'.step = host.step
    \/ host'.step \in {"unwind", "abandon", "logic_error"}
    \/ host.step = "start" /\ host'.step = "pin"
    \/ host.step = "load" /\ host'.step = "launch"
    \/ host.step = "launch" /\ host'.step \in {"prefetch", "sync"}
    \/ host.step = "prefetch" /\ host'.step = "sync"

LEMMA RowsKept ==
    ASSUME ExecInv, Rows, TilesDone, UNCHANGED <<call, tiles, outputs>>,
           host'.tile = host.tile, host'.begin = host.begin, Moved,
           InCall \/ host' = host
    PROVE  Rows' /\ TilesDone'
<1>1. \A a : Right(a)' <=> Right(a)
    BY DEF Right, KeyOf
<1>2. \A t, n : Done(t, n)' <=> Done(t, n)
    BY <1>1 DEF Done
<1>3. Tile' = Tile /\ Mine' = Mine
    BY DEF Tile, Mine
<1>4. Rows'
    BY <1>1 DEF Rows, Moved, InCall, At
<1>5. \A t : Done(t, 0)
    BY DEF Done
<1>6. At("load") => Done(host.tile, host.begin - 1)
    BY <1>5 DEF TilesDone
<1>7. TilesDone'
    BY <1>1, <1>2, <1>3, <1>6 DEF TilesDone, Moved, InTile, At
<1>8. QED
    BY <1>4, <1>7

LEMMA KernelRowsKept ==
    ASSUME KernelRows, UNCHANGED <<call, tiles, kernel>>, host'.tile = host.tile,
           host'.begin = host.begin,
           host'.step \in {"prefetch", "sync"} => host.step \in {"prefetch", "sync"}
    PROVE  KernelRows'
<1>1. Batch' = Batch
    BY DEF Batch, Tile
<1>2. QED
    BY <1>1 DEF KernelRows, KeyOf

LEMMA WorkerRowsKept ==
    ASSUME WorkerRows, UNCHANGED <<call, worker>>,
           host'.step \in AfterPin => host.step \in AfterPin
    PROVE  WorkerRows'
BY DEF WorkerRows, KeyOf

(* The host moves on, computing nothing: through the loads, or out. *)
LEMMA MovesKeepResults ==
    ASSUME ExecInv, ExecInv', Results,
           \/ PinHit \/ LoadTile \/ Prefetch \/ Loaded \/ LoadThrows \/ Unwind \/ Cancel
           \/ Transfer \/ DeviceCopies \/ RaiseStop \/ UNCHANGED allVars
    PROVE  Results'
<1>1. /\ UNCHANGED <<call, tiles, outputs, worker>>
      /\ kernel' = kernel \/ Unwind
    BY DEF PinHit, LoadTile, Prefetch, LoadExperts, Loaded, LoadThrows, Unwind, Cancel, Transfer,
           DeviceCopies, RaiseStop, allVars, executorVars
<1>2. ExecTypeOK /\ leases' \in [Expert -> Ticket \cup {NoTicket}]
    BY DEF ExecInv, Account, ExecTypeOK
<1>3. InCall /\ Advance => host'.tile = host.tile /\ host'.begin = host.begin
                           /\ host'.step = host.step
    BY <1>1, <1>2, HostAdvances
<1>4. ASSUME NEW s, s \in Steps, s # "idle", InCall, Go(s)
      PROVE  host'.tile = host.tile /\ host'.begin = host.begin /\ host'.step = s
    BY <1>1, <1>2, <1>4, HostGoes
<1>5. /\ host'.tile = host.tile /\ host'.begin = host.begin
      /\ Moved /\ (InCall \/ host' = host)
      /\ host'.step \in {"prefetch", "sync"} => host.step \in {"prefetch", "sync"}
      /\ host'.step \in AfterPin => host.step \in AfterPin
  <2>1. CASE host' = host
    BY <2>1 DEF Moved
  <2>2. CASE InCall /\ Advance
    BY <1>3, <2>2 DEF Moved
  <2>3. CASE InCall /\ Go("unwind")
    BY <1>4, <2>3 DEF Moved, Steps, AfterPin, InTile
  <2>4. CASE InCall /\ Go("abandon")
    BY <1>4, <2>4 DEF Moved, Steps, AfterPin, InTile
  <2>5. CASE InCall /\ Go("logic_error")
    BY <1>4, <2>5 DEF Moved, Steps, AfterPin, InTile
  <2>6. CASE host.step = "load" /\ Go("launch")
    BY <1>4, <2>6 DEF Moved, Steps, AfterPin, InTile, InCall
  <2>7. CASE host.step = "prefetch" /\ Go("sync")
    BY <1>4, <2>7 DEF Moved, Steps, AfterPin, InTile, InCall
  <2>8. CASE PinHit
    BY <2>2, <2>5, <2>8 DEF PinHit, Advance, At, InCall
  <2>9. CASE LoadTile
    BY <2>1, <2>2, <2>5, <2>6, <2>9 DEF LoadTile, LoadExperts, Advance, At, InCall
  <2>10. CASE Prefetch
    BY <2>1, <2>2, <2>5, <2>7, <2>10 DEF Prefetch, LoadExperts, Advance, At, InCall
  <2>11. CASE Loaded \/ LoadThrows
    <3>1. InCall
      BY <2>11, NotIdle DEF Loaded, LoadThrows, FinishLoad, FailLoad, ExecInv, Account, Standing,
                            LoadPlace, InCall
    <3>2. QED
      BY <2>2, <2>3, <2>11, <3>1 DEF Loaded, LoadThrows, Advance
  <2>12. CASE Unwind
    BY <2>1, <2>4, <2>12 DEF Unwind, At, InCall
  <2>13. CASE Cancel
    BY <2>1, <2>3, <2>13 DEF Cancel, CancelPoint, At, InCall, executorVars
  <2>14. CASE Transfer \/ DeviceCopies \/ RaiseStop \/ UNCHANGED allVars
    BY <2>1, <2>14 DEF Transfer, DeviceCopies, RaiseStop, allVars, executorVars
  <2>15. QED
    BY <2>8, <2>9, <2>10, <2>11, <2>12, <2>13, <2>14
<1>6. Rows' /\ TilesDone'
    BY <1>1, <1>5, RowsKept DEF Results
<1>7. KernelRows'
  <2>1. CASE Unwind
    BY <1>5, <2>1 DEF KernelRows, Unwind, At
  <2>2. CASE kernel' = kernel
    BY <1>1, <1>5, <2>2, KernelRowsKept DEF Results
  <2>3. QED
    BY <1>1, <2>1, <2>2
<1>8. WorkerRows'
    BY <1>1, <1>5, WorkerRowsKept DEF Results
<1>9. QED
    BY <1>6, <1>7, <1>8 DEF Results

LEMMA ExecuteResults ==
    ASSUME ExecInv', NEW layer, NEW ids, Execute(layer, ids), ExecInv
    PROVE  Results'
<1>1. /\ host' = [step |-> "start", tile |-> 1, pos |-> 1, begin |-> 1]
      /\ host.step = "idle" /\ outputs' = [a \in DOMAIN ids |-> NoRow] /\ worker' = worker
      /\ call'.ids = ids
    BY DEF Execute, At
<1>2. worker = NoWorker
    BY <1>1 DEF ExecInv, Account, Standing, WorkerPlace
<1>3. QED
    BY <1>1, <1>2 DEF Results, Rows, TilesDone, KernelRows, WorkerRows, NoWorker, InCall, At,
                      InTile, AfterPin

LEMMA StartWorkerResults ==
    ASSUME ExecInv, ExecInv', Results, StartWorker
    PROVE  Results'
<1>1. /\ host.step = "start" /\ Go("pin") /\ UNCHANGED <<call, tiles, leases, outputs, kernel>>
      /\ worker' = IF call.cpu = <<>> THEN NoWorker
                   ELSE [state |-> "running", left |-> call.cpu,
                         rows |-> [a \in DOMAIN call.ids |-> NoRow]]
    BY DEF StartWorker, At
<1>2. ExecTypeOK /\ InCall /\ leases' \in [Expert -> Ticket \cup {NoTicket}]
      /\ call.cpu \in Seq(Expert)
    BY <1>1 DEF ExecInv, Account, ExecTypeOK, InCall, Calls
<1>3. host'.step = "pin" /\ host'.tile = host.tile /\ host'.begin = host.begin
    BY <1>1, <1>2, HostGoes DEF Steps
<1>4. Rows' /\ TilesDone'
    BY <1>1, <1>2, <1>3, RowsKept DEF Results, Moved
<1>5. KernelRows'
    BY <1>3 DEF KernelRows
<1>6. WorkerRows'
  <2>1. CASE call.cpu = <<>>
    BY <1>1, <2>1 DEF WorkerRows, NoWorker
  <2>2. CASE call.cpu # <<>>
    <3>1. /\ worker'.state = "running" /\ worker'.left = call.cpu
          /\ DOMAIN worker'.rows = DOMAIN call.ids
          /\ worker' = [state |-> worker'.state, left |-> worker'.left, rows |-> worker'.rows]
      BY <1>1, <2>2
    <3>2. QED
      BY <1>1, <1>2, <3>1 DEF WorkerRows
  <2>3. QED
    BY <2>1, <2>2
<1>7. QED
    BY <1>4, <1>5, <1>6 DEF Results

LEMMA RetileResults ==
    ASSUME ExecInv, ExecInv', Results, Retile
    PROVE  Results'
<1>1. /\ host.step = "pin" /\ Go("tile") /\ UNCHANGED <<call, leases, outputs, worker>>
    BY DEF Retile, At
<1>2. /\ ExecTypeOK /\ InCall /\ leases' \in [Expert -> Ticket \cup {NoTicket}]
      /\ host.tile = 1 /\ Len(tiles') \in Nat
  <2>1. ExecTypeOK' /\ Planned' /\ host'.step = "tile"
    BY <1>1 DEF ExecInv, Account, Go, ExecTypeOK
  <2>2. Len(tiles') \in Nat
    BY <2>1, PlannedTiled DEF Tiled
  <2>3. QED
    BY <1>1, <2>2 DEF ExecInv, Account, ExecTypeOK, InCall, Standing, TileLeased
<1>3. host'.step = "tile" /\ host'.tile = 1
    BY <1>1, <1>2, HostGoes DEF Steps
<1>4. Rows' /\ WorkerRows'
    BY <1>1, <1>2, <1>3 DEF Results, Rows, WorkerRows, InCall, At, KeyOf, AfterPin, InTile
<1>5. TilesDone' /\ KernelRows'
    BY <1>2, <1>3 DEF TilesDone, KernelRows, At, InTile
<1>6. QED
    BY <1>4, <1>5 DEF Results

(* When the last tile is behind, every assignment of the GPU is computed. *)
LEMMA TilesCover ==
    ASSUME ExecInv, NEW a \in Mine, host.step \in {"tile"} \cup InTile
    PROVE  \E t \in 1..Len(tiles) : \E i \in 1..Len(tiles[t].assignments) :
              tiles[t].assignments[i] = a
<1>1. /\ ExecTypeOK /\ Planned /\ InCall
    BY DEF ExecInv, Account, InCall, InTile
<1>2. call.ids \in Seq(Expert)
    BY <1>1 DEF ExecTypeOK, Calls
<1>3. PICK hits : Plan(tiles, Named(call.ids), call.ids, Mine, TileCap,
               HitRank(FirstIn(call.ids), hits, Named(call.ids), Len(call.ids)))
    BY <1>1 DEF Planned
<1> DEFINE rank == HitRank(FirstIn(call.ids), hits, Named(call.ids), Len(call.ids))
           E == Named(call.ids)
           x == call.ids[a]
<1> HIDE DEF rank, E
<1>4. Plan(tiles, E, call.ids, Mine, TileCap, rank)
    BY <1>3 DEF E, rank
<1>5. /\ \A t \in 1..Len(tiles) : /\ RightTile(tiles[t], call.ids, Mine)
                                  /\ tiles[t].assignments \in Seq(Nat)
      /\ Has(tiles, x)
    BY <1>2, <1>4, PlanHas
<1>6. PICK t \in 1..Len(tiles) : Contains(tiles[t].experts, x)
    BY <1>5 DEF Has
<1>7. Contains(tiles[t].assignments, a)
    BY <1>5, <1>6 DEF RightTile
<1>8. QED
    BY <1>5, <1>7, LenProperties DEF Contains

LEMMA NextTileResults ==
    ASSUME ExecInv, ExecInv', Results, NextTile
    PROVE  Results'
<1>1. /\ host.step = "tile" /\ UNCHANGED <<call, tiles, leases, outputs, kernel, worker>>
    BY DEF NextTile, At
<1>2. /\ ExecTypeOK /\ InCall /\ host.tile \in Nat \ {0} /\ Len(tiles) \in Nat
      /\ leases' \in [Expert -> Ticket \cup {NoTicket}]
    BY <1>1, PlannedTiled DEF ExecInv, Account, ExecTypeOK, InCall, Tiled
<1>3. \A a : Right(a)' <=> Right(a)
    BY <1>1 DEF Right, KeyOf
<1>4. \A t, n : Done(t, n)' <=> Done(t, n)
    BY <1>1, <1>3 DEF Done
<1>5. \A t \in 1..Len(tiles) : t < host.tile => Done(t, Len(tiles[t].assignments))
    BY <1>1 DEF Results, TilesDone
<1>6. WorkerRows' /\ (InCall' => Rows')
  <2>1. host'.step \in {"load", "join"}
    BY <1>1, <1>2, HostGoes DEF NextTile, Steps, ExecTypeOK
  <2>2. QED
    BY <1>1, <1>2, <2>1, WorkerRowsKept DEF Results, Rows, InCall, At, AfterPin, InTile
<1>7. CASE host.tile <= Len(tiles)
  <2>1. host'.step = "load" /\ host'.tile = host.tile /\ host'.begin = 1
    BY <1>2, <1>7 DEF NextTile, ExecTypeOK
  <2>2. TilesDone' /\ KernelRows' /\ InCall'
    BY <1>1, <1>4, <1>5, <2>1 DEF TilesDone, KernelRows, InCall, At, InTile
  <2>3. QED
    BY <1>6, <2>2 DEF Results
<1>8. CASE host.tile > Len(tiles)
  <2>1. host'.step = "join"
    BY <1>1, <1>2, <1>8, HostGoes DEF NextTile, Steps
  <2>2. \A a \in Mine : Right(a)
    <3> SUFFICES ASSUME NEW a \in Mine PROVE Right(a)
      OBVIOUS
    <3>1. PICK t \in 1..Len(tiles) : \E i \in 1..Len(tiles[t].assignments) :
             tiles[t].assignments[i] = a
      BY <1>1, TilesCover
    <3>2. Done(t, Len(tiles[t].assignments))
      BY <1>2, <1>5, <1>8
    <3>3. QED
      BY <3>1, <3>2 DEF Done
  <2>3. Mine' = Mine
    BY <1>1 DEF Mine
  <2>4. TilesDone' /\ KernelRows' /\ InCall'
    BY <1>3, <2>1, <2>2, <2>3 DEF TilesDone, KernelRows, InCall, At, InTile
  <2>5. QED
    BY <1>6, <2>4 DEF Results
<1>9. QED
    BY <1>2, <1>7, <1>8

LEMMA LaunchResults ==
    ASSUME ExecInv, ExecInv', Results, NEW ok, Launch(ok)
    PROVE  Results'
<1>1. /\ host.step = "launch" /\ UNCHANGED <<call, tiles, leases, outputs, worker>>
      /\ Go("sync") \/ Go("prefetch")
    BY DEF Launch, At
<1>2. ExecTypeOK /\ InCall /\ leases' \in [Expert -> Ticket \cup {NoTicket}]
    BY <1>1 DEF ExecInv, Account, ExecTypeOK, InCall
<1>3. /\ host'.step \in {"sync", "prefetch"} /\ host'.tile = host.tile
      /\ host'.begin = host.begin
    BY <1>1, <1>2, HostGoes DEF Steps
<1>4. Rows' /\ TilesDone' /\ WorkerRows'
    BY <1>1, <1>2, <1>3, RowsKept, WorkerRowsKept DEF Results, Moved, AfterPin, InTile
<1>5. KernelRows'
  <2>1. Batch' = Batch
    BY <1>1, <1>3 DEF Batch, Tile
  <2>2. kernel'.state \in {"running", "failed"} /\ DOMAIN kernel'.slot = ToSet(Batch)
    BY DEF Launch
  <2>3. QED
    BY <2>1, <2>2 DEF KernelRows
<1>6. QED
    BY <1>4, <1>5 DEF Results

(* What a graph computes is what its slots were leased for. *)
LEMMA ExecUndisturbed == ExecInv => KernelUndisturbed
<1>1. ASSUME ExecInv, kernel.state = "running", NEW a \in DOMAIN kernel.slot
      PROVE  /\ \A c \in Chunk : arena[kernel.slot[a]][c] = <<kernel.key[a], c>>
             /\ \A i \in DOMAIN stream : stream[i].slot # kernel.slot[a]
  <2>1. PICK e \in Leased : kernel.slot[a] = leases[e].slot /\ kernel.key[a] = KeyOf(e)
    BY <1>1 DEF ExecInv, Account, Standing, KernelPlace
  <2> DEFINE s == kernel.slot[a]
  <2>2. s \in Slot /\ slots[s].status = "in_use" /\ slots[s].key = kernel.key[a]
    <3>1. /\ leases[e] \in issued /\ slots[leases[e].slot].status = "in_use"
          /\ slots[leases[e].slot].key = KeyOf(e)
      BY <1>1 DEF ExecInv, Account, Leases, LeaseSound, Checked
    <3>2. QED
      BY <1>1, <2>1, <3>1 DEF ExecInv, StorageInv, Inv, CacheTypeOK, Ticket
  <2>3. \A c \in Chunk : arena[s][c] = <<kernel.key[a], c>>
    BY <1>1, <2>2 DEF ExecInv, StorageInv, ContentIsExpert
  <2>4. ASSUME NEW i \in DOMAIN stream PROVE stream[i].slot # s
    <3>1. i \in 1..Len(stream)
      BY <1>1, LenProperties DEF ExecInv, StorageInv, TypeOK
    <3>2. CopySound(stream[i])
      BY <1>1, <3>1 DEF ExecInv, Account, Leases, CopiesOnly, StorageInv, QueueSound
    <3>3. slots[stream[i].slot].status = "loading"
      BY <1>1, <3>2 DEF ExecInv, StorageInv, LoadOwnsSlot, CopySound, Checked
    <3>4. QED
      BY <2>2, <3>3
  <2>5. QED
    BY <2>3, <2>4
<1>2. QED
    BY <1>1 DEF KernelUndisturbed

LEMMA ComputeResults ==
    ASSUME ExecInv, ExecInv', Results, Compute
    PROVE  Results'
<1>1. /\ UNCHANGED <<host, call, tiles, outputs, worker>> /\ kernel.state = "running"
    BY DEF Compute
<1>2. Rows' /\ TilesDone' /\ WorkerRows'
    BY <1>1, RowsKept, WorkerRowsKept DEF Results, Moved
<1> DEFINE Whole(slot) == {k \in Key : \A c \in Chunk : arena[slot][c] = <<k, c>>}
           Row(a) == IF Whole(kernel.slot[a]) = {} THEN Mixed
                     ELSE CHOOSE k \in Whole(kernel.slot[a]) : TRUE
<1>3. kernel' = [state |-> "done", out |-> [a \in DOMAIN kernel.slot |-> Row(a)]]
    BY DEF Compute
<1>4. ASSUME NEW a \in DOMAIN kernel.slot PROVE Row(a) = KeyOf(call.ids[a])
  <2>1. PICK k \in Key : /\ k = KeyOf(call.ids[a])
                         /\ \A c \in Chunk : arena[kernel.slot[a]][c] = <<k, c>>
    <3>1. call.ids[a] \in Leased /\ kernel.key[a] = KeyOf(call.ids[a])
      BY <1>1, <1>4 DEF ExecInv, Account, Standing, KernelPlace
    <3>2. KeyOf(call.ids[a]) \in Key
      <4>1. host.step \in {"prefetch", "sync", "unwind", "logic_error"}
        BY <1>1 DEF ExecInv, Account, Standing, KernelPlace, NoKernel
      <4>2. InCall /\ ExecTypeOK /\ call.ids[a] \in Expert
        BY <3>1, <4>1 DEF InCall, Leased, ExecInv, Account
      <4>3. QED
        BY <4>2, KeyTypes
    <3>3. QED
      BY <1>1, <3>1, <3>2, ExecUndisturbed DEF KernelUndisturbed
  <2>2. 1 \in Chunk
    BY ChunksAssumption DEF Chunk
  <2>3. Whole(kernel.slot[a]) = {k}
    BY <2>1, <2>2
  <2>4. QED
    BY <2>1, <2>3
<1>5. KernelRows'
  <2>1. Batch' = Batch
    BY <1>1 DEF Batch, Tile
  <2>2. /\ kernel'.state = "done" /\ DOMAIN kernel'.out = DOMAIN kernel.slot
        /\ \A a \in DOMAIN kernel.slot : kernel'.out[a] = KeyOf(call.ids[a])
    BY <1>3, <1>4
  <2>3. host.step \in {"prefetch", "sync"} => DOMAIN kernel.slot = ToSet(Batch)
    BY <1>1 DEF Results, KernelRows
  <2>4. QED
    BY <1>1, <2>1, <2>2, <2>3 DEF KernelRows, KeyOf
<1>6. QED
    BY <1>2, <1>5 DEF Results

(* A batch is all of the tile's assignments from its first one on. *)
LEMMA BatchCovers ==
    ASSUME Tiled, host.tile \in 1..Len(tiles), host.begin \in Nat \ {0},
           NEW i \in 1..Len(Tile.assignments), i >= host.begin, i < host.begin + BatchLimit
    PROVE  Tile.assignments[i] \in ToSet(Batch)
<1> DEFINE s == Tile.assignments
           last == IF host.begin + BatchLimit - 1 < Len(s)
                   THEN host.begin + BatchLimit - 1 ELSE Len(s)
           r == SubSeq(s, host.begin, last)
<1>1. s \in Seq(Nat)
    BY DEF Tiled, Tile
<1>2. /\ Len(s) \in Nat /\ last \in Int /\ last <= Len(s) /\ i <= last /\ host.begin <= last
      /\ \A j \in 1..Len(s) : s[j] \in Nat
  <2>1. Len(s) \in Nat /\ \A j \in 1..Len(s) : s[j] \in Nat
    BY <1>1, LenProperties, ElementOfSeq
  <2>2. i \in Int /\ i <= Len(s)
    BY <2>1
  <2> HIDE DEF s
  <2>3. QED
    BY <2>1, <2>2, BatchAssumption
<1>3. Batch = r
    BY DEF Batch
<1> HIDE DEF s, last
<1>4. \A j \in host.begin..last : s[j] \in Nat
    BY <1>1, <1>2
<1>5. /\ r \in Seq(Nat) /\ Len(r) = last - host.begin + 1
      /\ \A j \in 1..(last - host.begin + 1) : r[j] = s[host.begin + j - 1]
    BY <1>2, <1>4, SubSeqProperties, SMTT(20)
<1> HIDE DEF r
<1> DEFINE j == i - host.begin + 1
<1>6. j \in 1..(last - host.begin + 1) /\ host.begin + j - 1 = i
    BY <1>2
<1>7. j \in DOMAIN r /\ r[j] = s[i]
  <2> HIDE DEF j
  <2>1. QED
    BY <1>5, <1>6, LenProperties
<1>8. QED
    BY <1>3, <1>7 DEF ToSet, s

(* While a graph is in flight, every slot it was given holds its expert whole
   and no transfer is queued for it. *)
THEOREM KernelsUndisturbed == ExecutorSpec => []KernelUndisturbed
BY ExecUndisturbed, ExecInductive, PTL

LEMMA ReadBackResults ==
    ASSUME ExecInv, ExecInv', Results, ReadBack
    PROVE  Results'
<1>1. /\ host.step = "sync" /\ UNCHANGED <<call, tiles, leases, worker>>
      /\ kernel.state \in {"done", "failed"}
    BY DEF ReadBack, At
<1>2. /\ ExecTypeOK /\ InCall /\ leases' \in [Expert -> Ticket \cup {NoTicket}]
      /\ host.tile \in 1..Len(tiles) /\ host.begin \in Nat \ {0} /\ host.tile \in Nat
      /\ Tiled /\ Planned
    BY <1>1, PlannedTiled DEF ExecInv, Account, ExecTypeOK, InCall, Standing, TileLeased, InTile
<1>3. /\ DOMAIN outputs = DOMAIN call.ids /\ WorkerRows /\ KernelRows
      /\ \A t \in 1..Len(tiles) : t < host.tile => Done(t, Len(tiles[t].assignments))
      /\ Done(host.tile, host.begin - 1)
    BY <1>1, <1>2 DEF Results, Rows, TilesDone, InTile
<1>4. CASE kernel.state = "failed"
  <2>1. host'.step = "unwind"
    BY <1>1, <1>2, <1>4, HostGoes DEF ReadBack, Steps
  <2>2. outputs' = outputs
    BY <1>4 DEF ReadBack
  <2>3. Rows' /\ TilesDone' /\ KernelRows'
    BY <1>1, <1>3, <2>1, <2>2 DEF Rows, TilesDone, KernelRows, At, InTile
  <2>4. WorkerRows'
    BY <1>1, <1>3, <2>1, WorkerRowsKept DEF AfterPin, InTile
  <2>5. QED
    BY <2>3, <2>4 DEF Results
<1>5. CASE kernel.state # "failed"
  <2> DEFINE B == ToSet(Batch)
             m == Len(Tile.assignments)
  <2>1. /\ kernel.state = "done" /\ DOMAIN kernel.out = B
        /\ \A a \in B : kernel.out[a] = KeyOf(call.ids[a])
    BY <1>1, <1>3, <1>5 DEF KernelRows
  <2>2. outputs' = [a \in DOMAIN outputs |->
                       IF a \in DOMAIN kernel.out THEN kernel.out[a] ELSE outputs[a]]
    BY <1>5 DEF ReadBack
  <2>3. Tile.assignments \in Seq(Nat) /\ m \in Nat
    BY <1>2, LenProperties DEF Tiled, Tile
  <2>4. /\ DOMAIN outputs' = DOMAIN call.ids
        /\ \A a \in DOMAIN call.ids : Right(a) \/ a \in B => Right(a)'
    <3> HIDE DEF B
    <3>1. QED
      BY <1>1, <1>3, <2>1, <2>2 DEF Right, KeyOf
  <2>5. host'.tile = host.tile /\ Tile' = Tile
    BY <1>1, <1>2, <1>5 DEF ReadBack, ExecTypeOK, Tile
  <2>6. \A t \in 1..Len(tiles) : \A i \in 1..Len(tiles[t].assignments) :
           tiles[t].assignments[i] \in DOMAIN call.ids
    <3> SUFFICES ASSUME NEW t \in 1..Len(tiles), NEW i \in 1..Len(tiles[t].assignments)
                 PROVE  tiles[t].assignments[i] \in DOMAIN call.ids
      OBVIOUS
    <3>1. RightTile(tiles[t], call.ids, Mine) /\ tiles[t].assignments \in Seq(Nat)
      BY <1>2 DEF Tiled
    <3>2. Contains(tiles[t].assignments, tiles[t].assignments[i])
      BY <3>1, LenProperties DEF Contains
    <3>3. QED
      BY <3>1, <3>2 DEF RightTile, Mine
  <2>7. \A t \in 1..Len(tiles) : t < host.tile => Done(t, Len(tiles[t].assignments))'
    BY <1>1, <1>3, <2>4, <2>6 DEF Done, Right
  <2>8. ASSUME NEW i \in 1..m, i < host.begin + BatchLimit
        PROVE  Right(Tile.assignments[i])'
    <3>1. Tile.assignments[i] \in DOMAIN call.ids
      BY <1>2, <2>6 DEF Tile
    <3>2. CASE i >= host.begin
      <4>1. Tile.assignments[i] \in B
        BY <1>2, <2>8, <3>2, BatchCovers
      <4>2. QED
        BY <2>5, <2>4, <3>1, <4>1 DEF Right
    <3>3. CASE ~(i >= host.begin)
      <4>1. i \in 1..(host.begin - 1)
        BY <1>2, <2>3, <3>3
      <4>2. Right(Tile.assignments[i])
        BY <1>3, <4>1 DEF Done, Tile
      <4>3. QED
        BY <2>5, <2>4, <3>1, <4>2 DEF Right
    <3>4. QED
      BY <3>2, <3>3
  <2>9. /\ host \in [step : Steps, tile : Nat, pos : Nat, begin : Nat]
        /\ BatchLimit \in Nat \ {0}
    BY <1>2, BatchAssumption DEF ExecTypeOK
  <2>10. CASE host.begin + BatchLimit <= m
    <3>1. host' = [step |-> "launch", tile |-> host.tile, pos |-> host.pos,
                   begin |-> host.begin + BatchLimit]
      BY <1>5, <2>9, <2>10 DEF ReadBack
    <3>2. \A i \in 1..(host.begin + BatchLimit - 1) :
             Right(Tile.assignments[i])'
      <4> SUFFICES ASSUME NEW i \in 1..(host.begin + BatchLimit - 1)
                   PROVE  i \in 1..m /\ i < host.begin + BatchLimit
        BY <2>8
      <4>1. host.begin \in Nat /\ BatchLimit \in Nat /\ m \in Nat
        BY <1>2, <2>3, <2>9
      <4>2. host.begin + BatchLimit <= m
        BY <2>10
      <4> HIDE DEF m
      <4>3. QED
        BY <4>1, <4>2
    <3>3. Done(host.tile, host.begin - 1)'
      <4>1. host'.tile = host.tile /\ host'.begin - 1 = host.begin + BatchLimit - 1
        BY <1>2, <2>9, <3>1
      <4>2. QED
        BY <1>1, <3>2, <4>1 DEF Done, Right, Tile
    <3>4. TilesDone' /\ KernelRows' /\ Rows'
      BY <1>1, <2>4, <2>7, <3>1, <3>3 DEF TilesDone, KernelRows, Rows, At, InTile
    <3>5. WorkerRows'
      BY <1>1, <1>3, <3>1, WorkerRowsKept DEF AfterPin, InTile
    <3>6. QED
      BY <3>4, <3>5 DEF Results
  <2>11. CASE ~(host.begin + BatchLimit <= m)
    <3>1. host' = [step |-> "release", tile |-> host.tile, pos |-> 1, begin |-> host.begin]
      BY <1>5, <2>9, <2>11 DEF ReadBack
    <3>2. \A i \in 1..m : Right(Tile.assignments[i])'
      BY <1>2, <2>3, <2>8, <2>9, <2>11
    <3>3. Done(host.tile, Len(Tile.assignments))'
      <4>1. Tile' = Tile /\ host'.tile = host.tile
        BY <1>1, <3>1 DEF Tile
      <4>2. QED
        BY <1>1, <3>2, <4>1 DEF Done, Right, Tile
    <3>4. TilesDone' /\ KernelRows' /\ Rows'
      BY <1>1, <2>4, <2>7, <3>1, <3>3 DEF TilesDone, KernelRows, Rows, At, InTile
    <3>5. WorkerRows'
      BY <1>1, <1>3, <3>1, WorkerRowsKept DEF AfterPin, InTile
    <3>6. QED
      BY <3>4, <3>5 DEF Results
  <2>12. QED
    BY <2>10, <2>11
<1>6. QED
    BY <1>4, <1>5

LEMMA ReleaseTileResults ==
    ASSUME ExecInv, ExecInv', Results, ReleaseTile
    PROVE  Results'
<1>1. host.step = "release" /\ UNCHANGED <<call, tiles, kernel, outputs, worker>>
    BY DEF ReleaseTile, At
<1>2. /\ ExecTypeOK /\ InCall /\ leases' \in [Expert -> Ticket \cup {NoTicket}]
      /\ host.tile \in Nat /\ Len(tiles) \in Nat
    BY <1>1, PlannedTiled DEF ExecInv, Account, ExecTypeOK, InCall, InTile, Tiled
<1>3. CASE host.pos > Len(Tile.experts)
  <2>1. host' = [step |-> "tile", tile |-> host.tile + 1, pos |-> host.pos,
                 begin |-> host.begin]
    BY <1>2, <1>3 DEF ReleaseTile, ExecTypeOK
  <2>2. \A t \in 1..Len(tiles) : t < host.tile + 1 => Done(t, Len(tiles[t].assignments))
    <3>1. /\ \A t \in 1..Len(tiles) : t < host.tile => Done(t, Len(tiles[t].assignments))
          /\ Done(host.tile, Len(Tile.assignments))
      BY <1>1 DEF Results, TilesDone, InTile, At
    <3>2. QED
      BY <1>2, <3>1 DEF Tile
  <2>3. \A t, n : Done(t, n)' <=> Done(t, n)
    BY <1>1 DEF Done, Right, KeyOf
  <2>4. TilesDone' /\ KernelRows' /\ Rows'
    BY <1>1, <1>2, <2>1, <2>2, <2>3 DEF Results, TilesDone, KernelRows, Rows, InCall, At, InTile
  <2>5. WorkerRows'
    BY <1>1, <2>1, WorkerRowsKept DEF Results, AfterPin, InTile
  <2>6. QED
    BY <2>4, <2>5 DEF Results
<1>4. CASE ~(host.pos > Len(Tile.experts))
  <2>1. Advance
    BY <1>4 DEF ReleaseTile, Advance
  <2>2. host'.step = host.step /\ host'.tile = host.tile /\ host'.begin = host.begin
    BY <1>1, <1>2, <2>1, HostAdvances
  <2>3. QED
    BY <1>1, <1>2, <2>2, RowsKept, KernelRowsKept, WorkerRowsKept DEF Results, Moved
<1>5. QED
    BY <1>3, <1>4

(* The rows of both branches together are the call's. *)
LEMMA ReturnResults ==
    ASSUME ExecInv, ExecInv', Results, Rethrow \/ Join
    PROVE  Results'
<1>1. /\ host.step \in {"abandon", "join"} /\ host' = AtRest /\ worker' = NoWorker
    BY DEF Rethrow, Join, Return, At
<1>2. host'.step = "idle"
    BY <1>1 DEF AtRest
<1>3. /\ InCall /\ call \in Calls /\ DOMAIN outputs = DOMAIN call.ids
      /\ host.step = "join" => \A a \in Mine : Right(a)
    BY <1>1 DEF InCall, ExecInv, Account, ExecTypeOK, Results, Rows, TilesDone, At
<1>4. call'.layer = call.layer /\ call'.ids = call.ids
    BY <1>3 DEF Rethrow, Join, Return, Calls
<1>5. ASSUME call'.reply = "ok" PROVE \A a \in DOMAIN outputs' : Right(a)'
  <2>1. Join /\ host.step = "join"
    BY <1>3, <1>5 DEF Rethrow, Join, Return, Calls, At
  <2>2. \A a \in DOMAIN call.ids : Right(a) \/ Contains(call.cpu, call.ids[a])
    <3>1. call.cpu \in Seq(Expert)
      BY <1>3 DEF Calls
    <3>2. QED
      BY <1>3, <2>1, <3>1, LenProperties DEF Mine, ToSet, Contains
  <2>3. CASE worker.state = "none" /\ outputs' = outputs
    <3>1. call.cpu = <<>>
      BY <2>1, <2>3 DEF Results, WorkerRows, AfterPin
    <3>2. \A x : ~Contains(call.cpu, x)
      BY <3>1 DEF Contains
    <3>3. QED
      BY <1>3, <1>4, <2>2, <2>3, <3>2 DEF Right, KeyOf
  <2>4. CASE /\ worker.state = "finished"
             /\ outputs' = [a \in DOMAIN outputs |->
                    IF Contains(call.cpu, call.ids[a]) THEN worker.rows[a] ELSE outputs[a]]
    <3>1. \A a \in DOMAIN call.ids : Contains(call.cpu, call.ids[a]) =>
             worker.rows[a] = KeyOf(call.ids[a])
      <4>1. \A x : ~Contains(worker.left, x)
        BY <2>4 DEF Results, WorkerRows, Contains
      <4>2. QED
        BY <2>4, <4>1 DEF Results, WorkerRows
    <3>2. QED
      BY <1>3, <1>4, <2>2, <2>4, <3>1 DEF Right, KeyOf
  <2>5. QED
    BY <1>3, <1>5, <2>1, <2>3, <2>4 DEF Join, Return, Calls
<1>6. Rows' /\ TilesDone' /\ KernelRows'
    BY <1>2, <1>5 DEF Rows, TilesDone, KernelRows, InCall, InTile, At
<1>7. WorkerRows'
    BY <1>1, <1>2 DEF WorkerRows, NoWorker, AfterPin, InTile
<1>8. QED
    BY <1>6, <1>7 DEF Results

LEMMA WorkerResults ==
    ASSUME ExecInv, ExecInv', Results, WorkerTile \/ WorkerThrows
    PROVE  Results'
<1>1. /\ worker.state = "running"
      /\ UNCHANGED <<host, call, tiles, leases, kernel, outputs>>
    BY DEF WorkerTile, WorkerThrows
<1>2. /\ worker = [state |-> "running", left |-> worker.left, rows |-> worker.rows]
      /\ worker.left \in Seq(Expert) /\ DOMAIN worker.rows = DOMAIN call.ids
      /\ \A a \in DOMAIN call.ids : Contains(call.cpu, call.ids[a]) =>
            \/ worker.rows[a] = KeyOf(call.ids[a])
            \/ Contains(worker.left, call.ids[a])
    BY <1>1 DEF Results, WorkerRows
<1>3. Rows' /\ TilesDone' /\ KernelRows'
    BY <1>1, RowsKept, KernelRowsKept DEF Results, Moved
<1>4. WorkerRows'
  <2>1. CASE worker' = [worker EXCEPT !.state = "threw"]
    BY <1>2, <2>1 DEF WorkerRows
  <2>2. CASE worker.left = <<>> /\ worker' = [worker EXCEPT !.state = "finished"]
    <3>1. worker' = [state |-> "finished", left |-> worker.left, rows |-> worker.rows]
      BY <1>2, <2>2
    <3>2. QED
      BY <1>1, <1>2, <2>2, <3>1 DEF WorkerRows, KeyOf
  <2>3. CASE worker.left # <<>>
             /\ worker' = [worker EXCEPT !.left = Tail(@),
                  !.rows = [a \in DOMAIN @ |->
                      IF call.ids[a] = Head(worker.left) THEN KeyOf(call.ids[a]) ELSE @[a]]]
    <3> DEFINE left == Tail(worker.left)
               rows == [a \in DOMAIN worker.rows |->
                      IF call.ids[a] = Head(worker.left) THEN KeyOf(call.ids[a])
                                                         ELSE worker.rows[a]]
    <3>1. worker' = [state |-> "running", left |-> left, rows |-> rows]
      <4>1. worker' = [worker EXCEPT !.left = left, !.rows = rows]
        BY <2>3
      <4>2. PICK l, r : worker = [state |-> "running", left |-> l, rows |-> r]
        BY <1>2
      <4> HIDE DEF left, rows
      <4>3. QED
        BY <4>1, <4>2
    <3>2. left \in Seq(Expert) /\ \A x : Contains(worker.left, x) =>
             x = Head(worker.left) \/ Contains(left, x)
      <4> DEFINE s == worker.left
      <4>1. s \in Seq(Expert) /\ s # <<>>
        BY <1>2, <2>3
      <4> HIDE DEF s
      <4>2. /\ left \in Seq(Expert) /\ Len(left) = Len(s) - 1 /\ Head(s) = s[1]
            /\ \A i \in 1..Len(left) : left[i] = s[i + 1]
        BY <4>1, HeadTailProperties DEF s
      <4> HIDE DEF left
      <4>3. ASSUME NEW i \in 1..Len(s), i # 1
            PROVE  i - 1 \in 1..Len(left) /\ left[i - 1] = s[i]
        <5>1. i - 1 \in 1..Len(left) /\ (i - 1) + 1 = i
          BY <4>1, <4>2, <4>3, LenProperties
        <5>2. QED
          BY <4>2, <5>1
      <4>4. ASSUME NEW x, Contains(s, x) PROVE x = Head(s) \/ Contains(left, x)
        BY <4>1, <4>2, <4>3, <4>4, LenProperties DEF Contains
      <4>5. QED
        BY <4>2, <4>4 DEF s
    <3>3. \A a \in DOMAIN call.ids : Contains(call.cpu, call.ids[a]) =>
            \/ rows[a] = KeyOf(call.ids[a])
            \/ Contains(left, call.ids[a])
      BY <1>2, <3>2
    <3>4. DOMAIN rows = DOMAIN call.ids
      BY <1>2
    <3> HIDE DEF left, rows
    <3>5. QED
      BY <1>1, <3>1, <3>2, <3>3, <3>4 DEF WorkerRows, KeyOf
  <2>4. QED
    BY <2>1, <2>2, <2>3 DEF WorkerTile, WorkerThrows
<1>5. QED
    BY <1>3, <1>4 DEF Results

LEMMA InitResults == ExecutorInit => Results
<1> SUFFICES ASSUME ExecutorInit PROVE Results
    OBVIOUS
<1>1. /\ host.step = "idle" /\ call.reply = "none" /\ worker = NoWorker
    BY DEF ExecutorInit, AtRest
<1>2. QED
    BY <1>1 DEF Results, Rows, TilesDone, KernelRows, WorkerRows, NoWorker, InCall, At, InTile,
                AfterPin

LEMMA NextResults ==
    ExecInv /\ ExecInv' /\ Results /\ [ExecutorNext]_allVars => Results'
<1> SUFFICES ASSUME ExecInv, ExecInv', Results, [ExecutorNext]_allVars PROVE Results'
    OBVIOUS
<1>1. CASE \E layer \in Layer, ids \in Routings : Execute(layer, ids)
    BY <1>1, ExecuteResults
<1>2. CASE StartWorker \/ Retile \/ NextTile \/ Compute
    BY <1>2, StartWorkerResults, RetileResults, NextTileResults, ComputeResults
<1>3. CASE \/ PinHit \/ LoadTile \/ Prefetch \/ Loaded \/ LoadThrows \/ Unwind \/ Cancel
           \/ Transfer \/ DeviceCopies \/ RaiseStop \/ UNCHANGED allVars
    BY <1>3, MovesKeepResults
<1>4. CASE Launch(TRUE) \/ Launch(FALSE)
    BY <1>4, LaunchResults
<1>5. CASE ReadBack \/ ReleaseTile
    BY <1>5, ReadBackResults, ReleaseTileResults
<1>6. CASE Rethrow \/ Join
    BY <1>6, ReturnResults
<1>7. CASE WorkerTile \/ WorkerThrows
    BY <1>7, WorkerResults
<1>8. QED
    BY <1>1, <1>2, <1>3, <1>4, <1>5, <1>6, <1>7 DEF ExecutorNext, HostStep

(* A call that returns normally has computed every assignment with the expert
   the router chose: whichever branch took it, in whatever tile, batch and slot,
   and whatever was evicted, prefetched or transferred meanwhile. *)
THEOREM CallsComputeRight == ExecutorSpec => []OutputsRight
<1>1. Results => OutputsRight
    BY DEF Results, Rows, OutputsRight, Right
<1>2. ExecutorSpec => []Results
    BY ExecInductive, InitResults, NextResults, PTL DEF ExecutorSpec
<1>3. QED
    BY <1>1, <1>2, PTL

-----------------------------------------------------------------------------
(* What is transferred.  The experts resident at the start are pinned before
   the tiles are made, so no load can evict them; from then on an expert of
   the tiles to come that is not leased is not resident either, and neither
   was at the start nor has been loaded since.  Leases of the tiles further
   ahead, which the prefetch has not reached, are those first pins. *)
InLoop == host.step \in InTile \cup {"tile"}
Incoming == IF load = Idle THEN {} ELSE {load.ticket.key[2]}
Ahead(t) == t > host.tile \/ (t = host.tile /\ host.step \in {"tile", "load"})
Far(t) == t > host.tile + 1 \/ (t = host.tile + 1 /\ host.step \in {"tile", "load"})

TouchedTypeOK == touched \in [hits : SUBSET Expert, loads : SUBSET Expert]
HitsKnown == host.step \in {"start", "pin"} =>
    /\ touched.loads = {}
    /\ \A x \in Expert : Has(tiles, x) => (Resident(KeyOf(x)) <=> x \in touched.hits)
    /\ \A e \in touched.hits : Has(tiles, e)
HitsPinned == At("pin") =>
    /\ Leased \subseteq touched.hits
    /\ \A i \in 1..Len(ExpertsInOrder(tiles)) :
          /\ i < host.pos /\ ExpertsInOrder(tiles)[i] \in touched.hits
                => ExpertsInOrder(tiles)[i] \in Leased
          /\ i >= host.pos => ExpertsInOrder(tiles)[i] \notin Leased
HitsAhead == InLoop =>
    Plan(tiles, Named(call.ids), call.ids, Mine, TileCap,
         HitRank(FirstIn(call.ids), touched.hits, Named(call.ids), Len(call.ids)))
Unspent(x) == /\ x \notin touched.hits
              /\ x \in touched.loads => x \in Incoming
              /\ ~Resident(KeyOf(x))
Spared == InLoop => \A t \in 1..Len(tiles) : \A x \in Expert : Contains(tiles[t].experts, x) =>
    /\ Ahead(t) /\ x \notin Leased => Unspent(x)
    /\ Far(t) /\ x \in Leased => x \in touched.hits
Transfers == TouchedTypeOK /\ HitsKnown /\ HitsPinned /\ HitsAhead /\ Spared /\ NoLogicError

(* Residency, step by step. *)
LEMMA ResidentKept ==
    ASSUME UNCHANGED slots, NEW k
    PROVE  Resident(k)' <=> Resident(k)
BY DEF Resident

LEMMA ResidentPinned ==
    ASSUME Inv, NEW k0 \in Key, Pin(k0), NEW k
    PROVE  Resident(k)' <=> Resident(k)
<1>1. PICK s \in Slot :
         /\ slots[s].status = "ready" /\ slots'[s].status = "in_use"
         /\ slots'[s].key = slots[s].key
         /\ \A u \in Slot \ {s} : slots'[u] = slots[u]
    BY PinnedHit
<1>2. QED
    BY <1>1 DEF Resident

LEMMA ResidentStarted ==
    ASSUME Inv, NEW k0 \in Key, StartLoad(k0), NEW k, Resident(k)'
    PROVE  Resident(k)
<1>1. PICK s \in Slot :
        slots' = [slots EXCEPT ![s] = [key |-> k0, status |-> "loading",
                        generation |-> slots[s].generation + 1,
                        lease |-> serial + 1, last_use |-> serial + 1]]
    BY StartedLoad DEF Inv
<1>2. slots'[s].status = "loading" /\ \A u \in Slot \ {s} : slots'[u] = slots[u]
    BY <1>1 DEF Inv, CacheTypeOK
<1>3. QED
    BY <1>2 DEF Resident

LEMMA ResidentFinished ==
    ASSUME StorageInv, FinishLoad, NEW k, Resident(k)'
    PROVE  Resident(k) \/ k = load.ticket.key
<1>1. PICK s : s = load.ticket.slot
    OBVIOUS
<1>2. /\ slots' = [slots EXCEPT ![s].status = "in_use"] /\ load # Idle
      /\ slots \in [Slot -> SlotRecord]
    BY <1>1, NotIdle DEF FinishLoad, CompleteLoad, StorageInv, Inv, CacheTypeOK
<1>3. slots[s].key = load.ticket.key
    BY <1>1, <1>2 DEF StorageInv, LoadOwnsSlot
<1>4. \A u \in Slot : slots'[u].key = slots[u].key /\ (u # s => slots'[u] = slots[u])
    BY <1>2 DEF SlotRecord
<1>5. QED
    BY <1>3, <1>4 DEF Resident

LEMMA ResidentReleased ==
    ASSUME StorageInv, NEW t \in issued, Unpin(t), NEW k
    PROVE  Resident(k)' <=> Resident(k)
<1>1. /\ slots[t.slot].status = "in_use"
      /\ slots' = [slots EXCEPT ![t.slot] = [@ EXCEPT !.status = "ready", !.last_use = serial']]
      /\ slots \in [Slot -> SlotRecord] /\ t.slot \in Slot
    BY DEF Unpin, Release, Checked, StorageInv, Inv, CacheTypeOK, Ticket
<1>2. \A u \in Slot : slots'[u].key = slots[u].key /\ (u # t.slot => slots'[u] = slots[u])
    BY <1>1 DEF SlotRecord
<1>3. slots'[t.slot].status = "ready"
    BY <1>1 DEF SlotRecord
<1>4. QED
    BY <1>1, <1>2, <1>3 DEF Resident


(* Steps that leave the table, the call, its tiles and its leases alone. *)
LEMMA TransfersKept ==
    ASSUME ExecInv, Transfers, UNCHANGED <<slots, call, tiles, leases, touched>>,
           Incoming' = Incoming, host'.step # "logic_error",
           host'.step \in {"start", "pin"} =>
              \/ host'.step = host.step /\ host'.pos = host.pos
              \/ host.step = "start" /\ host'.step = "pin" /\ host'.pos = 1,
           InLoop' => InLoop /\ \A t \in 1..Len(tiles) : /\ Ahead(t)' => Ahead(t)
                                                         /\ Far(t)' => Far(t)
    PROVE  Transfers'
<1>1. /\ \A x : Resident(KeyOf(x))' <=> Resident(KeyOf(x))
      /\ Leased' = Leased /\ Mine' = Mine
    BY DEF Resident, KeyOf, Leased, Mine
<1>2. TouchedTypeOK' /\ NoLogicError'
    BY DEF Transfers, TouchedTypeOK, NoLogicError, At
<1>3. HitsKnown'
    BY <1>1 DEF Transfers, HitsKnown
<1>4. HitsPinned'
  <2>1. CASE host'.step = "pin" /\ host.step = "pin" /\ host'.pos = host.pos
    BY <1>1, <2>1 DEF Transfers, HitsPinned, At
  <2>2. CASE host.step = "start" /\ host'.step = "pin" /\ host'.pos = 1
    <3>1. Leased = {}
      BY <2>2 DEF ExecInv, Account, Standing, LeasedWhen
    <3>2. \A i \in 1..Len(ExpertsInOrder(tiles)) : ~(i < 1)
      OBVIOUS
    <3>3. QED
      BY <1>1, <2>2, <3>1, <3>2 DEF HitsPinned, At
  <2>3. QED
    BY <2>1, <2>2 DEF HitsPinned, At
<1>5. HitsAhead'
    BY <1>1 DEF Transfers, HitsAhead
<1>6. ASSUME InLoop', NEW x, Unspent(x) PROVE Unspent(x)'
    BY <1>1, <1>6 DEF Unspent
<1>7. Spared'
    BY <1>1, <1>6 DEF Transfers, Spared
<1>8. QED
    BY <1>2, <1>3, <1>4, <1>5, <1>7 DEF Transfers

LEMMA ExecuteTransfers ==
    ASSUME ExecInv, ExecInv', NEW layer \in Layer, NEW ids, ids \in Routings,
           Execute(layer, ids)
    PROVE  Transfers'
<1> DEFINE hits == {e \in Routed(ids) : Resident(<<layer, e>>)}
<1>1. PICK cpu \in Seq(Expert) :
        /\ call' = [reply |-> "none", layer |-> layer, ids |-> ids, cpu |-> cpu]
        /\ \A e \in ToSet(cpu) : ~Resident(<<layer, e>>)
    BY ExecuteTyped
<1>2. /\ host' = [step |-> "start", tile |-> 1, pos |-> 1, begin |-> 1]
      /\ touched' = [hits |-> hits, loads |-> {}] /\ UNCHANGED slots
    BY DEF Execute, vars, cacheVars
<1>3. DOMAIN ids = 1..Len(ids) /\ Routed(ids) = Named(ids) /\ Named(ids) \subseteq Expert
    BY RoutingTyped DEF Routed, Named
<1>4. \A x : Has(tiles', x) <=> \E a \in Mine' : ids[a] = x
    BY <1>1, <1>2 DEF ExecInv, Account, Planned, Plan
<1>5. Mine' = {a \in DOMAIN ids : ids[a] \notin ToSet(cpu)}
    BY <1>1 DEF Mine
<1>6. \A x : Resident(KeyOf(x))' <=> Resident(<<layer, x>>)
    BY <1>1, <1>2 DEF KeyOf, Resident
<1>7. TouchedTypeOK' /\ NoLogicError'
    BY <1>2, <1>3 DEF TouchedTypeOK, NoLogicError, At
<1>8. HitsKnown'
  <2>1. ASSUME NEW x \in Expert, Has(tiles', x) PROVE Resident(<<layer, x>>) <=> x \in hits
    BY <1>3, <1>4, <1>5, <2>1 DEF Named
  <2>2. ASSUME NEW e \in hits PROVE Has(tiles', e)
    BY <1>1, <1>3, <1>4, <1>5 DEF Named
  <2> HIDE DEF hits
  <2>3. touched'.hits = hits /\ touched'.loads = {}
    BY <1>2
  <2>4. QED
    BY <1>6, <2>1, <2>2, <2>3 DEF HitsKnown
<1>9. HitsPinned' /\ HitsAhead' /\ Spared'
    BY <1>2 DEF HitsPinned, HitsAhead, Spared, InLoop, InTile, At
<1>10. QED
    BY <1>7, <1>8, <1>9 DEF Transfers

LEMMA StartWorkerTransfers ==
    ASSUME ExecInv, Transfers, StartWorker
    PROVE  Transfers'
<1>1. /\ host.step = "start" /\ Go("pin") /\ UNCHANGED <<vars, call, tiles, leases, touched>>
    BY DEF StartWorker, At
<1>2. ExecTypeOK /\ InCall /\ leases' \in [Expert -> Ticket \cup {NoTicket}]
    BY <1>1 DEF ExecInv, Account, ExecTypeOK, InCall
<1>3. host'.step = "pin" /\ host'.pos = 1
    BY <1>1, <1>2, HostGoes DEF Steps
<1>4. UNCHANGED slots /\ Incoming' = Incoming
    BY <1>1 DEF vars, cacheVars, storageVars, Incoming
<1>5. QED
    BY <1>1, <1>3, <1>4, TransfersKept DEF InLoop, InTile

(* Between two loads the table answers for an expert that is not leased by
   what is resident: nothing is pending and nothing else is busy. *)
LEMMA AnswersIdle ==
    ASSUME ExecInv, InCall, load = Idle, NEW e, e \in Expert, e \notin Leased, NEW existing
    PROVE  /\ Resident(KeyOf(e)) => Answer(KeyOf(e), existing) = "hit"
           /\ ~Resident(KeyOf(e)) => Answer(KeyOf(e), existing) =
                  IF existing THEN "miss"
                  ELSE IF \E s \in Slot : Victim(s) THEN "load" ELSE "full"
<1> DEFINE k == KeyOf(e)
<1>1. k \in Key /\ \A f \in Expert : KeyOf(f) = k => f = e
    BY KeyTypes DEF ExecInv, Account
<1>2. ASSUME NEW s \in Slot, Holds(s, k) PROVE slots[s].status = "ready"
  <2>1. slots[s].status \in Status \ {"empty"} /\ slots[s].key = k
    BY <1>2 DEF Holds, ExecInv, StorageInv, Inv, CacheTypeOK, SlotRecord
  <2>2. slots[s].status # "loading"
    BY DEF ExecInv, StorageInv, LoadOwnsSlot
  <2>3. slots[s].status # "in_use"
    <3> SUFFICES ASSUME slots[s].status = "in_use" PROVE FALSE
      OBVIOUS
    <3>1. PICK f \in Leased : leases[f].slot = s
      BY DEF ExecInv, Account, Leases, PinsLeased
    <3>2. slots[s].key = KeyOf(f) /\ f \in Expert
      BY <3>1 DEF ExecInv, Account, Leases, LeaseSound, Leased
    <3>3. QED
      BY <1>1, <2>1, <3>1, <3>2
  <2>4. QED
    BY <2>1, <2>2, <2>3 DEF Status
<1>3. Resident(k) <=> \E s \in Slot : Holds(s, k)
    BY <1>2 DEF Resident, Holds
<1>4. (\E s \in Slot : Holds(s, k)) => slots[CHOOSE s \in Slot : Holds(s, k)].status = "ready"
    BY <1>2
<1>5. QED
    BY <1>3, <1>4 DEF Answer

LEMMA PinHitTransfers ==
    ASSUME ExecInv, ExecInv', Transfers, PinHit
    PROVE  Transfers'
<1> DEFINE order == ExpertsInOrder(tiles)
           e == order[host.pos]
           k == KeyOf(e)
<1>1. /\ host.step = "pin" /\ host.pos <= Len(order) /\ UNCHANGED <<call, tiles, touched>>
    BY DEF PinHit, At
<1>2. /\ ExecTypeOK /\ InCall /\ Inv /\ load = Idle /\ host.pos \in Nat \ {0}
      /\ HitsKnown /\ HitsPinned /\ TouchedTypeOK
    BY <1>1 DEF ExecInv, Account, ExecTypeOK, Standing, LoadPlace, InCall, StorageInv, Transfers
<1>3. /\ order \in Seq(Expert) /\ IsInjective(order) /\ DOMAIN order = 1..Len(order)
      /\ Len(order) \in Nat /\ \A x : Contains(order, x) <=> Has(tiles, x)
    BY <1>1, OrderTyped, LenProperties DEF At
<1> HIDE DEF order
<1>4. /\ host.pos \in 1..Len(order) /\ e \in Expert /\ Has(tiles, e) /\ e \notin Leased
      /\ \A i \in 1..Len(order) : order[i] = e => i = host.pos
  <2>1. host.pos \in 1..Len(order)
    BY <1>1, <1>2, <1>3
  <2>2. e \in Expert /\ Contains(order, e)
    BY <1>3, <2>1, ElementOfSeq DEF Contains
  <2>3. e \notin Leased
    BY <1>1, <1>2, <2>1 DEF HitsPinned, At, order
  <2>4. QED
    BY <1>3, <2>1, <2>2, <2>3 DEF IsInjective
<1>5. k \in Key /\ (Resident(k) <=> e \in touched.hits)
    BY <1>1, <1>2, <1>4, KeyTypes DEF HitsKnown
<1>6. /\ Resident(k) => Answer(k, TRUE) = "hit"
      /\ ~Resident(k) => Answer(k, TRUE) = "miss"
    BY <1>2, <1>4, AnswersIdle
<1>7. host'.step = "pin" /\ host'.pos = host.pos + 1
  <2>1. Advance
    BY <1>6 DEF PinHit, Advance, order
  <2>2. leases' \in [Expert -> Ticket \cup {NoTicket}]
    BY DEF ExecInv, Account, ExecTypeOK
  <2>3. QED
    BY <1>1, <1>2, <2>1, <2>2, HostAdvances
<1>8. /\ Leased' = IF e \in touched.hits THEN Leased \cup {e} ELSE Leased
      /\ \A x : Resident(KeyOf(x))' <=> Resident(KeyOf(x))
  <2>1. CASE Resident(k)
    <3>1. Pin(k) /\ leases' = [leases EXCEPT ![e] = CHOOSE t \in issued' : t \notin issued]
      BY <1>6, <2>1 DEF PinHit, order
    <3> HIDE DEF k, e
    <3>2. PICK t \in Ticket : leases' = [leases EXCEPT ![e] = t]
      BY <1>2, <1>5, <3>1, PinnedHit
    <3>3. t # NoTicket
      BY <3>2 DEF Ticket, NoTicket, Slot
    <3>4. Leased' = Leased \cup {e}
      BY <1>2, <1>4, <3>2, <3>3 DEF Leased, ExecTypeOK
    <3>5. \A x : Resident(KeyOf(x))' <=> Resident(KeyOf(x))
      <4> SUFFICES ASSUME NEW x PROVE Resident(KeyOf(x))' <=> Resident(KeyOf(x))
        OBVIOUS
      <4>1. PICK q : q = KeyOf(x)
        OBVIOUS
      <4>2. KeyOf(x)' = q
        BY <1>1, <4>1 DEF KeyOf
      <4>3. Resident(q)' <=> Resident(q)
        BY <1>2, <1>5, <3>1, ResidentPinned
      <4>4. QED
        BY <4>1, <4>2, <4>3 DEF Resident
    <3>6. QED
      BY <1>5, <2>1, <3>4, <3>5
  <2>2. CASE ~Resident(k)
    <3>1. UNCHANGED <<vars, leases>>
      BY <1>6, <2>2 DEF PinHit, order
    <3>2. QED
      BY <1>1, <1>5, <2>2, <3>1 DEF Leased, Resident, KeyOf, vars, cacheVars
  <2>3. QED
    BY <2>1, <2>2
<1>9. TouchedTypeOK' /\ NoLogicError'
    BY <1>1, <1>2, <1>7 DEF TouchedTypeOK, NoLogicError, At
<1>10. HitsKnown'
    BY <1>1, <1>2, <1>8 DEF HitsKnown
<1>11. HitsPinned'
  <2>1. Leased \subseteq touched.hits
    BY <1>1, <1>2 DEF HitsPinned, At
  <2>2. ASSUME NEW i \in 1..Len(order), i < host.pos + 1, order[i] \in touched.hits
        PROVE  order[i] \in Leased'
    <3>1. i < host.pos => order[i] \in Leased
      BY <1>1, <1>2, <2>2 DEF HitsPinned, At, order
    <3>2. i < host.pos \/ i = host.pos
      BY <1>2, <1>3, <2>2
    <3>3. QED
      BY <1>8, <2>2, <3>1, <3>2
  <2>3. ASSUME NEW i \in 1..Len(order), i >= host.pos + 1
        PROVE  order[i] \notin Leased'
    <3>1. i >= host.pos /\ i # host.pos
      BY <1>2, <1>3, <2>3
    <3>2. order[i] \notin Leased
      BY <1>1, <1>2, <3>1 DEF HitsPinned, At, order
    <3>3. QED
      BY <1>4, <1>8, <3>1, <3>2
  <2>4. order' = order
    BY <1>1 DEF order
  <2>5. Leased' \subseteq touched.hits
    BY <1>8, <2>1
  <2>6. QED
    BY <1>1, <1>7, <2>2, <2>3, <2>4, <2>5 DEF HitsPinned, order
<1>12. HitsAhead' /\ Spared'
    BY <1>7 DEF HitsAhead, Spared, InLoop, InTile
<1>13. QED
    BY <1>9, <1>10, <1>11, <1>12 DEF Transfers

LEMMA RetileTransfers ==
    ASSUME ExecInv, ExecInv', Transfers, Retile
    PROVE  Transfers'
<1> DEFINE order == ExpertsInOrder(tiles)
<1>1. /\ host.step = "pin" /\ Go("tile") /\ UNCHANGED <<vars, call, leases, touched>>
      /\ host.pos > Len(order)
    BY DEF Retile, At
<1>2. /\ ExecTypeOK /\ InCall /\ HitsKnown /\ HitsPinned /\ TouchedTypeOK
      /\ leases' \in [Expert -> Ticket \cup {NoTicket}] /\ host.tile = 1 /\ host.pos \in Nat
    BY <1>1 DEF ExecInv, Account, ExecTypeOK, InCall, Transfers, Standing, TileLeased
<1>3. host'.step = "tile" /\ host'.tile = 1
    BY <1>1, <1>2, HostGoes DEF Steps
<1>4. Leased = touched.hits
  <2>1. /\ order \in Seq(Expert) /\ DOMAIN order = 1..Len(order) /\ Len(order) \in Nat
        /\ \A x : Contains(order, x) <=> Has(tiles, x)
    BY <1>1, OrderTyped, LenProperties DEF At
  <2> HIDE DEF order
  <2>2. ASSUME NEW e \in touched.hits PROVE e \in Leased
    <3>1. PICK i \in 1..Len(order) : order[i] = e
      BY <1>1, <1>2, <2>1 DEF HitsKnown, Contains
    <3>2. i < host.pos
      BY <1>1, <1>2, <2>1
    <3>3. QED
      BY <1>1, <1>2, <3>1, <3>2 DEF HitsPinned, At, order
  <2>3. QED
    BY <1>1, <1>2, <2>2 DEF HitsPinned, At
<1>5. HitsAhead'
  <2>1. Mine' = Mine
    BY <1>1 DEF Mine
  <2>2. QED
    BY <1>1, <1>4, <2>1, RetilePlans DEF HitsAhead
<1>6. Spared'
  <2>1. Leased' = Leased /\ \A x : Resident(KeyOf(x))' <=> Resident(KeyOf(x))
    BY <1>1 DEF Leased, Resident, KeyOf, vars, cacheVars
  <2>2. \A x : Has(tiles', x) <=> Has(tiles, x)
    BY RetilePlans
  <2>3. ASSUME NEW x \in Expert, Has(tiles, x), x \notin Leased PROVE Unspent(x)'
    BY <1>1, <1>2, <1>4, <2>1, <2>3 DEF Unspent, HitsKnown
  <2>4. QED
    BY <1>1, <1>4, <2>1, <2>2, <2>3 DEF Spared, Has
<1>7. QED
    BY <1>1, <1>2, <1>3, <1>5, <1>6
       DEF Transfers, TouchedTypeOK, HitsKnown, HitsPinned, NoLogicError, At

(* Out of the loop, what is still wanted no longer matters. *)
LEMMA TransfersOut ==
    ASSUME Transfers, touched' = touched,
           host'.step \in {"join", "unwind", "abandon", "idle"}
    PROVE  Transfers'
<1>1. TouchedTypeOK' /\ NoLogicError'
    BY DEF Transfers, TouchedTypeOK, NoLogicError, At
<1>2. HitsKnown' /\ HitsPinned' /\ HitsAhead' /\ Spared'
    BY DEF HitsKnown, HitsPinned, HitsAhead, Spared, InLoop, InTile, At
<1>3. QED
    BY <1>1, <1>2 DEF Transfers

LEMMA EndsTransfers ==
    ASSUME ExecInv, Transfers, LoadThrows \/ Unwind \/ Rethrow \/ Join
    PROVE  Transfers'
<1>1. touched' = touched
    BY DEF LoadThrows, Unwind, Rethrow, Join
<1>2. CASE LoadThrows
  <2>1. load # Idle /\ Go("unwind") /\ UNCHANGED <<call, leases>>
    BY <1>2, NotIdle DEF LoadThrows, FailLoad
  <2>2. ExecTypeOK /\ InCall
    BY <2>1 DEF ExecInv, Account, Standing, LoadPlace, InCall
  <2>3. host'.step = "unwind"
    BY <2>1, <2>2, HostGoes, LeasesTyped DEF Steps
  <2>4. QED
    BY <1>1, <2>3, TransfersOut
<1>3. CASE Unwind
  <2>1. host.step = "unwind" /\ ExecTypeOK /\ InCall
    BY <1>3 DEF Unwind, At, ExecInv, Account, InCall
  <2>2. host' = host \/ (Go("abandon") /\ UNCHANGED <<call, leases>>)
    BY <1>3 DEF Unwind
  <2>3. host'.step \in {"unwind", "abandon"}
    BY <2>1, <2>2, HostGoes, LeasesTyped DEF Steps
  <2>4. QED
    BY <1>1, <2>3, TransfersOut
<1>4. CASE Rethrow \/ Join
  <2>1. host'.step = "idle"
    BY <1>4 DEF Rethrow, Join, Return, AtRest
  <2>2. QED
    BY <1>1, <2>1, TransfersOut
<1>5. QED
    BY <1>2, <1>3, <1>4

LEMMA CancelTransfers ==
    ASSUME ExecInv, Transfers, CancelPoint, Go("unwind"), UNCHANGED <<call, leases, touched>>
    PROVE  Transfers'
<1>1. ExecTypeOK /\ InCall
    BY DEF ExecInv, Account, CancelPoint, At, InCall
<1>2. host'.step = "unwind"
    BY <1>1, HostGoes, LeasesTyped DEF Steps
<1>3. QED
    BY <1>2, TransfersOut

LEMMA NextTileTransfers ==
    ASSUME ExecInv, Transfers, NextTile
    PROVE  Transfers'
<1>1. /\ host.step = "tile" /\ UNCHANGED <<vars, call, tiles, leases, touched>>
    BY DEF NextTile, At
<1>2. ExecTypeOK /\ InCall /\ InLoop
    BY <1>1 DEF ExecInv, Account, InCall, InLoop
<1>3. host'.step \in {"load", "join"} /\ host'.tile = host.tile
  <2>1. CASE host.tile <= Len(tiles)
    <3>1. host' = [host EXCEPT !.step = "load", !.pos = 1, !.begin = 1]
      BY <2>1 DEF NextTile
    <3>2. host \in [step : Steps, tile : Nat, pos : Nat, begin : Nat]
      BY <1>2 DEF ExecTypeOK
    <3>3. QED
      BY <3>1, <3>2
  <2>2. CASE ~(host.tile <= Len(tiles))
    <3>1. Go("join")
      BY <2>2 DEF NextTile
    <3>2. QED
      BY <1>1, <1>2, <3>1, HostGoes, LeasesTyped DEF Steps
  <2>3. QED
    BY <2>1, <2>2
<1>4. UNCHANGED slots /\ Incoming' = Incoming
    BY <1>1 DEF vars, cacheVars, storageVars, Incoming
<1>5. \A t \in 1..Len(tiles) : (Ahead(t)' => Ahead(t)) /\ (Far(t)' => Far(t))
    BY <1>1, <1>3 DEF Ahead, Far
<1>6. QED
    BY <1>1, <1>2, <1>3, <1>4, <1>5, TransfersKept

LEMMA GraphTransfers ==
    ASSUME ExecInv, Transfers, ReadBack \/ \E ok \in BOOLEAN : Launch(ok)
    PROVE  Transfers'
<1>1. /\ host.step \in {"sync", "launch"} /\ UNCHANGED <<vars, call, tiles, leases, touched>>
    BY DEF ReadBack, Launch, At
<1>2. ExecTypeOK /\ InCall /\ InLoop
    BY <1>1 DEF ExecInv, Account, InCall, InLoop, InTile
<1>3. host \in [step : Steps, tile : Nat, pos : Nat, begin : Nat]
    BY <1>2 DEF ExecTypeOK
<1>4. /\ host'.step \in {"prefetch", "sync", "unwind", "launch", "release"}
      /\ host'.tile = host.tile
  <2>1. CASE ReadBack
    <3>1. \/ Go("unwind")
          \/ host' = [host EXCEPT !.step = "launch", !.begin = @ + BatchLimit]
          \/ host' = [host EXCEPT !.step = "release", !.pos = 1]
      BY <2>1 DEF ReadBack
    <3>2. QED
      BY <1>3, <3>1 DEF Go
  <2>2. CASE \E ok \in BOOLEAN : Launch(ok)
    <3>1. Go("prefetch") \/ Go("sync")
      BY <2>2 DEF Launch
    <3>2. QED
      BY <1>3, <3>1 DEF Go
  <2>3. QED
    BY <2>1, <2>2
<1>5. UNCHANGED slots /\ Incoming' = Incoming
    BY <1>1 DEF vars, cacheVars, storageVars, Incoming
<1>6. \A t \in 1..Len(tiles) : (Ahead(t)' => Ahead(t)) /\ (Far(t)' => Far(t))
    BY <1>1, <1>4 DEF Ahead, Far
<1>7. QED
    BY <1>1, <1>2, <1>4, <1>5, <1>6, TransfersKept

LEMMA AsideTransfers ==
    ASSUME ExecInv, Transfers,
           \/ SubmitChunk \/ DrainChunk \/ Abort \/ Device \/ UNCHANGED vars,
           UNCHANGED <<host, call, tiles, leases, touched>>
    PROVE  Transfers'
<1>1. UNCHANGED slots
    BY DEF SubmitChunk, DrainChunk, Abort, Device, vars, cacheVars
<1>2. Incoming' = Incoming
  <2>1. CASE Device \/ UNCHANGED vars
    BY <2>1 DEF Device, vars, storageVars, Incoming
  <2>2. CASE SubmitChunk \/ DrainChunk \/ Abort
    <3>1. load \in Loading /\ load # Idle
      BY <2>2, NotIdle DEF SubmitChunk, DrainChunk, Abort, ExecInv, StorageInv, TypeOK
    <3>2. load'.ticket = load.ticket /\ load'.step \in {"check", "drain", "finish", "failed"}
      BY <2>2, <3>1 DEF SubmitChunk, DrainChunk, Abort, Loading
    <3>3. load' # Idle
      BY <3>2 DEF Idle
    <3>4. QED
      BY <3>1, <3>2, <3>3 DEF Incoming
  <2>3. QED
    BY <2>1, <2>2
<1>3. host.step # "logic_error"
    BY DEF Transfers, NoLogicError, At
<1>4. InLoop' => InLoop /\ \A t \in 1..Len(tiles) : (Ahead(t)' => Ahead(t)) /\ (Far(t)' => Far(t))
    BY DEF InLoop, Ahead, Far
<1>5. QED
    BY <1>1, <1>2, <1>3, <1>4, TransfersKept


LEMMA ReleaseTransfers ==
    ASSUME ExecInv, Transfers, ReleaseTile
    PROVE  Transfers'
<1>1. host.step = "release" /\ UNCHANGED <<call, tiles, touched>>
    BY DEF ReleaseTile, At
<1>2. /\ ExecTypeOK /\ InCall /\ InLoop /\ Leases /\ StorageInv /\ CacheTypeOK
      /\ load = Idle /\ host.tile \in 1..Len(tiles) /\ Tiled
      /\ \A i \in 1..Len(Tile.experts) : i >= host.pos => Tile.experts[i] \in Leased
    BY <1>1, PlannedTiled DEF ExecInv, Account, Standing, LoadPlace, TileLeased,
                InCall, InLoop, InTile, At, StorageInv, Inv
<1>3. /\ host \in [step : Steps, tile : Nat, pos : Nat, begin : Nat]
      /\ host.pos # 0 /\ Len(tiles) \in Nat
    BY <1>2 DEF ExecTypeOK, Tiled
<1>4. /\ DOMAIN Tile.experts = 1..Len(Tile.experts) /\ Len(Tile.experts) \in Nat
    BY <1>2, LenProperties DEF Tiled, Tile
<1>5. CASE host.pos > Len(Tile.experts)
  <2>1. host'.step = "tile" /\ host'.tile = host.tile + 1 /\ UNCHANGED <<vars, leases>>
    BY <1>3, <1>5 DEF ReleaseTile
  <2>2. UNCHANGED slots /\ Incoming' = Incoming
    BY <2>1 DEF vars, cacheVars, storageVars, Incoming
  <2>3. \A t \in 1..Len(tiles) : (Ahead(t)' => Ahead(t)) /\ (Far(t)' => Far(t))
    BY <1>1, <1>3, <2>1 DEF Ahead, Far
  <2>4. QED
    BY <1>1, <1>2, <2>1, <2>2, <2>3, TransfersKept
<1>6. CASE ~(host.pos > Len(Tile.experts))
  <2> DEFINE e == Tile.experts[host.pos]
  <2>1. host.pos \in 1..Len(Tile.experts) /\ e \in Leased
    BY <1>2, <1>3, <1>4, <1>6
  <2>2. Unpin(leases[e]) /\ leases' = [leases EXCEPT ![e] = NoTicket] /\ Advance
    BY <1>6 DEF ReleaseTile, Advance
  <2>3. \A t \in 1..Len(tiles) : t > host.tile => ~Contains(tiles[t].experts, e)
    BY <1>2, <1>4, <2>1 DEF Tiled, Contains, Tile
  <2> HIDE DEF e
  <2>4. Leased' = Leased \ {e} /\ leases' \in [Expert -> Ticket \cup {NoTicket}]
    BY <1>1, <1>2, <2>1, <2>2, LeaseReleased
  <2>5. host'.step = host.step /\ host'.tile = host.tile
    BY <1>1, <1>2, <2>2, <2>4, HostAdvances
  <2>6. ASSUME NEW x PROVE Resident(KeyOf(x))' <=> Resident(KeyOf(x))
    <3>1. PICK q : q = KeyOf(x)
      OBVIOUS
    <3>2. KeyOf(x)' = q
      BY <1>1, <3>1 DEF KeyOf
    <3>3. Resident(q)' <=> Resident(q)
      BY <1>2, <2>1, <2>2, ResidentReleased DEF Leases, LeaseSound
    <3>4. QED
      BY <3>1, <3>2, <3>3 DEF Resident
  <2>7. Incoming' = Incoming
    BY <2>2 DEF Unpin, storageVars, Incoming
  <2>8. TouchedTypeOK' /\ NoLogicError' /\ HitsKnown' /\ HitsPinned'
    BY <1>1, <2>5 DEF Transfers, TouchedTypeOK, NoLogicError, HitsKnown, HitsPinned, At
  <2>9. HitsAhead'
    <3>1. Mine' = Mine
      BY <1>1 DEF Mine
    <3>2. QED
      BY <1>1, <1>2, <3>1 DEF Transfers, HitsAhead
  <2>10. Spared'
    <3> SUFFICES ASSUME NEW t \in 1..Len(tiles), NEW x \in Expert,
                        Contains(tiles[t].experts, x)
                 PROVE  /\ Ahead(t)' /\ x \notin Leased' => Unspent(x)'
                        /\ Far(t)' /\ x \in Leased' => x \in touched.hits
      BY <1>1 DEF Spared
    <3>1. /\ Ahead(t) /\ x \notin Leased => Unspent(x)
          /\ Far(t) /\ x \in Leased => x \in touched.hits
      BY <1>2 DEF Transfers, Spared
    <3>2. (Ahead(t)' => t > host.tile /\ Ahead(t)) /\ (Far(t)' => Far(t))
      BY <1>1, <2>5 DEF Ahead, Far
    <3>3. Ahead(t)' => x # e
      BY <2>3, <3>2
    <3>4. Unspent(x) => Unspent(x)'
      BY <1>1, <2>6, <2>7 DEF Unspent
    <3>5. QED
      BY <1>1, <2>4, <3>1, <3>2, <3>3, <3>4
  <2>11. QED
    BY <2>8, <2>9, <2>10 DEF Transfers
<1>7. QED
    BY <1>5, <1>6

(* An expert of a tile to come is incoming, then it is leased. *)
LEMMA LoadedTransfers ==
    ASSUME ExecInv, ExecInv', Transfers, Loaded
    PROVE  Transfers'
<1> DEFINE e == Wanted[host.pos]
           w == WantedTile
<1>1. /\ FinishLoad /\ Advance /\ UNCHANGED <<call, tiles, touched>>
      /\ load # Idle /\ load' = Idle
      /\ leases' = [leases EXCEPT ![load.ticket.key[2]] = load.ticket]
    BY NotIdle DEF Loaded, FinishLoad, Advance
<1>2. /\ ExecTypeOK /\ InCall /\ host.step \in {"load", "prefetch"} /\ StorageInv
      /\ host.pos \in 1..Len(Wanted) /\ load.ticket.key = KeyOf(e) /\ InLoop
    BY <1>1 DEF ExecInv, Account, Standing, LoadPlace, InCall, InLoop, InTile
<1>3. /\ e \in Expert /\ w \in 1..Len(tiles) /\ Contains(tiles[w].experts, e)
      /\ Len(tiles) \in Nat /\ host.tile \in Nat /\ Tiled
  <2>1. Tiled
    BY <1>2, PlannedTiled DEF ExecInv, Account, InTile
  <2>2. QED
    BY <1>2, <2>1, WantedTyped DEF Contains
<1>4. KeyOf(e)[2] = e /\ Incoming = {e} /\ Incoming' = {}
    BY <1>1, <1>2, <1>3, KeyTypes DEF Incoming
<1>5. host'.step = host.step /\ host'.tile = host.tile
  <2>1. leases' \in [Expert -> Ticket \cup {NoTicket}]
    BY DEF ExecInv, Account, ExecTypeOK
  <2>2. QED
    BY <1>1, <1>2, <2>1, HostAdvances
<1> HIDE DEF e
<1>6. Leased' = Leased \cup {e}
  <2>1. load.ticket.slot \in Slot
    BY <1>1, <1>2 DEF StorageInv, TypeOK, Loading, Ticket
  <2>2. load.ticket # NoTicket
    BY <2>1 DEF NoTicket, Slot
  <2>3. leases' = [leases EXCEPT ![e] = load.ticket]
    BY <1>1, <1>2, <1>4
  <2>4. QED
    BY <1>2, <1>3, <2>2, <2>3 DEF Leased, ExecTypeOK
<1>7. ASSUME NEW x \in Expert, x # e PROVE Resident(KeyOf(x))' => Resident(KeyOf(x))
  <2>1. PICK q : q = KeyOf(x)
    OBVIOUS
  <2>2. KeyOf(x)' = q
    BY <1>1, <2>1 DEF KeyOf
  <2>3. Resident(q)' => Resident(q) \/ q = load.ticket.key
    BY <1>1, <1>2, ResidentFinished
  <2>4. q # load.ticket.key
    BY <1>2, <1>3, <1>7, <2>1, KeyTypes
  <2>5. QED
    BY <2>1, <2>2, <2>3, <2>4 DEF Resident
<1>8. TouchedTypeOK' /\ NoLogicError' /\ HitsKnown' /\ HitsPinned'
    BY <1>1, <1>2, <1>5 DEF Transfers, TouchedTypeOK, NoLogicError, HitsKnown, HitsPinned, At
<1>9. HitsAhead'
  <2>1. Mine' = Mine
    BY <1>1 DEF Mine
  <2>2. QED
    BY <1>1, <1>2, <2>1 DEF Transfers, HitsAhead
<1>10. Spared'
  <2> SUFFICES ASSUME NEW t \in 1..Len(tiles), NEW x \in Expert,
                      Contains(tiles[t].experts, x)
               PROVE  /\ Ahead(t)' /\ x \notin Leased' => Unspent(x)'
                      /\ Far(t)' /\ x \in Leased' => x \in touched.hits
    BY <1>1 DEF Spared
  <2>1. /\ Ahead(t) /\ x \notin Leased => Unspent(x)
        /\ Far(t) /\ x \in Leased => x \in touched.hits
    BY <1>2 DEF Transfers, Spared
  <2>2. (Ahead(t)' <=> Ahead(t)) /\ (Far(t)' <=> Far(t))
    BY <1>5 DEF Ahead, Far
  <2>3. x # e /\ Unspent(x) => Unspent(x)'
    BY <1>1, <1>4, <1>7 DEF Unspent
  <2>4. Far(t) => x # e
    <3>1. Far(t) => w < t
      BY <1>2, <1>3 DEF Far, WantedTile, At
    <3>2. QED
      BY <1>3, <3>1 DEF Tiled
  <2>5. QED
    BY <1>1, <1>6, <2>1, <2>2, <2>3, <2>4
<1>11. QED
    BY <1>8, <1>9, <1>10 DEF Transfers


-----------------------------------------------------------------------------
(* A miss of the tile finds a slot.                                        *)
(* With none to evict, every slot is busy. *)
LEMMA NoneToEvict ==
    ASSUME CacheTypeOK, \A s \in Slot : ~Victim(s), NEW s \in Slot
    PROVE  slots[s].status \in {"loading", "in_use"}
<1>1. Slot \subseteq Nat /\ \A t \in Slot : slots[t] \in SlotRecord
    BY DEF CacheTypeOK, Slot
<1>2. StatusOf("empty") = {}
  <2> SUFFICES ASSUME StatusOf("empty") # {} PROVE FALSE
    OBVIOUS
  <2>1. StatusOf("empty") \subseteq Nat
    BY <1>1 DEF StatusOf
  <2>2. PICK v \in StatusOf("empty") : \A t \in StatusOf("empty") : v <= t
    BY <2>1, LeastElement
  <2>3. QED
    BY <2>2 DEF Victim, StatusOf
<1>3. StatusOf("ready") = {}
  <2> SUFFICES ASSUME StatusOf("ready") # {} PROVE FALSE
    OBVIOUS
  <2> DEFINE uses == {slots[t].last_use : t \in StatusOf("ready")}
  <2>1. uses \subseteq Nat /\ uses # {}
    <3>1. \A t \in StatusOf("ready") : slots[t].last_use \in Nat
      BY <1>1 DEF StatusOf, SlotRecord
    <3>2. QED
      BY <3>1
  <2>2. PICK m \in uses : \A n \in uses : m <= n
    BY <2>1, LeastElement
  <2> DEFINE oldest == {t \in StatusOf("ready") : slots[t].last_use = m}
  <2>3. oldest \subseteq Nat /\ oldest # {}
    BY <1>1, <2>2 DEF StatusOf
  <2>4. PICK v \in oldest : \A t \in oldest : v <= t
    BY <2>3, LeastElement
  <2>5. ASSUME NEW t \in StatusOf("ready") \ {v}
        PROVE  \/ slots[v].last_use < slots[t].last_use
               \/ slots[v].last_use = slots[t].last_use /\ v < t
    <3>1. m \in Nat /\ slots[t].last_use \in Nat /\ m <= slots[t].last_use
      BY <2>1, <2>2
    <3>2. slots[t].last_use = m => v <= t
      BY <2>4
    <3>3. v \in Nat /\ t \in Nat /\ v # t /\ slots[v].last_use = m
      BY <1>1, <2>4 DEF StatusOf
    <3>4. QED
      BY <3>1, <3>2, <3>3
  <2>6. Victim(v)
    BY <1>2, <2>4, <2>5 DEF Victim, StatusOf
  <2>7. QED
    BY <2>4, <2>6 DEF StatusOf
<1>4. QED
    BY <1>1, <1>2, <1>3 DEF StatusOf, SlotRecord, Status

(* An expert the host still waits for is to come. *)
LEMMA WantedUnspent ==
    ASSUME ExecInv, Transfers, host.step \in {"load", "prefetch"},
           host.pos \in 1..Len(Wanted), Wanted[host.pos] \notin Leased
    PROVE  Unspent(Wanted[host.pos])
<1>1. /\ Wanted = tiles[WantedTile].experts /\ WantedTile \in 1..Len(tiles)
      /\ Wanted[host.pos] \in Expert /\ host.tile \in Nat /\ Len(tiles) \in Nat
    BY WantedTyped
<1>2. Contains(tiles[WantedTile].experts, Wanted[host.pos])
    BY <1>1 DEF Contains
<1>3. Ahead(WantedTile)
    BY <1>1 DEF Ahead, WantedTile, At
<1>4. QED
    BY <1>1, <1>2, <1>3 DEF Transfers, Spared, InLoop, InTile

(* While a miss is awaited, the leases of the tiles to come are hits, which the
   plan puts before every miss: so there are none, and what is leased is of
   this tile. *)
LEMMA LeasedHere ==
    ASSUME ExecInv, Transfers, host.step = "load", host.pos \in 1..Len(Tile.experts),
           Tile.experts[host.pos] \notin Leased
    PROVE  /\ Len(Tile.experts) \in 1..TileCap
           /\ \A f \in Leased : \E i \in (1..Len(Tile.experts)) \ {host.pos} :
                 Tile.experts[i] = f
<1> DEFINE e == Tile.experts[host.pos]
           ids == call.ids
           rank == HitRank(FirstIn(ids), touched.hits, Named(ids), Len(ids))
<1>1. /\ Wanted = Tile.experts /\ e \in Expert /\ host.tile \in 1..Len(tiles)
      /\ Len(tiles) \in Nat
    BY WantedTyped DEF Wanted, At
<1>2. e \notin touched.hits
    BY <1>1, WantedUnspent DEF Unspent
<1>3. ids \in Seq(Expert) /\ LeasedFrom(host.tile)
    BY DEF ExecInv, Account, Standing, LeasedWhen, ExecTypeOK, InCall, Calls
<1>4. Plan(tiles, Named(ids), ids, Mine, TileCap, rank)
    BY DEF Transfers, HitsAhead, InLoop, InTile
<1>5. /\ InOrder(tiles, rank) /\ tiles \in Tiles(Named(ids))
      /\ \A t \in 1..Len(tiles) :
            Len(tiles[t].experts) \in 1..TileCap /\ tiles[t].experts \in Seq(Named(ids))
  <2> HIDE DEF rank
  <2>1. QED
    BY <1>3, <1>4, PlanHas
<1>6. ASSUME NEW f \in Leased, NEW u \in host.tile..Len(tiles), u # host.tile,
             Contains(tiles[u].experts, f)
      PROVE  FALSE
  <2>1. host.tile \in Nat /\ u \in 1..Len(tiles) /\ host.tile < u
    <3> HIDE DEF rank, e
    <3>1. host.tile \in 1..Len(tiles) /\ Len(tiles) \in Nat
      BY <1>1
    <3>2. QED
      BY <1>6, <3>1
  <2>2. f \in touched.hits
    <3>1. Far(u) /\ f \in Expert
      BY <2>1 DEF Far, Leased
    <3>2. QED
      BY <1>6, <2>1, <3>1 DEF Transfers, Spared, InLoop, InTile
  <2>3. Contains(tiles[host.tile].experts, e)
    BY DEF Contains, Tile
  <2>4. rank[e] < rank[f]
    <3> HIDE DEF rank, e
    <3>1. QED
      BY <1>1, <1>5, <1>6, <2>1, <2>3 DEF InOrder
  <2>5. e \in Named(ids) /\ f \in Named(ids)
    <3>1. \A t \in 1..Len(tiles) : \A i \in 1..Len(tiles[t].experts) :
             tiles[t].experts[i] \in Named(ids)
      BY <1>5, ElementOfSeq
    <3>2. QED
      BY <1>1, <1>6, <2>1, <3>1 DEF Contains, Tile
  <2>6. FirstIn(ids) \in [Named(ids) -> 1..Len(ids)] /\ Len(ids) \in Nat
    BY <1>3, FirstRanks
  <2>7. rank[f] = FirstIn(ids)[f] /\ rank[e] = FirstIn(ids)[e] + Len(ids)
    BY <1>2, <2>2, <2>5 DEF HitRank
  <2>8. FirstIn(ids)[f] \in 1..Len(ids) /\ FirstIn(ids)[e] \in 1..Len(ids)
    BY <2>5, <2>6
  <2> HIDE DEF rank, e
  <2>9. QED
    BY <2>4, <2>6, <2>7, <2>8
<1>7. ASSUME NEW f \in Leased
      PROVE  \E i \in (1..Len(Tile.experts)) \ {host.pos} : Tile.experts[i] = f
  <2>1. PICK u \in host.tile..Len(tiles) : Contains(tiles[u].experts, f)
    BY <1>3 DEF LeasedFrom
  <2>2. Contains(Tile.experts, f)
    BY <1>6, <2>1 DEF Tile
  <2>3. QED
    BY <2>2 DEF Contains
<1>8. QED
    BY <1>1, <1>5, <1>7 DEF Tile

(* A tile's miss always finds a slot: fewer experts are leased than a tile
   holds, and a tile holds at most as many as there are slots. *)
LEMMA MissFindsSlot ==
    ASSUME ExecInv, Transfers, host.step = "load", load = Idle,
           host.pos \in 1..Len(Tile.experts), Tile.experts[host.pos] \notin Leased
    PROVE  \E s \in Slot : Victim(s)
<1> DEFINE n == Len(Tile.experts)
           J == (1..n) \ {host.pos}
           at == [s \in Slot |-> CHOOSE i \in J : leases[Tile.experts[i]].slot = s]
<1> SUFFICES ASSUME \A s \in Slot : ~Victim(s) PROVE FALSE
    OBVIOUS
<1>1. CacheTypeOK /\ PinsLeased /\ LoadOwnsSlot
    BY DEF ExecInv, Account, Leases, StorageInv, Inv
<1>2. ASSUME NEW s \in Slot PROVE \E i \in J : leases[Tile.experts[i]].slot = s
  <2>1. slots[s].status = "in_use"
    BY <1>1, NoneToEvict DEF LoadOwnsSlot
  <2>2. PICK f \in Leased : leases[f].slot = s
    BY <1>1, <2>1 DEF PinsLeased
  <2>3. QED
    BY <2>2, LeasedHere
<1>3. at \in [Slot -> J] /\ \A s \in Slot : leases[Tile.experts[at[s]]].slot = s
    BY <1>2
<1>4. n \in 1..TileCap /\ TileCap \in Nat /\ TileCap <= Capacity
  <2>1. TileCap \in Nat /\ TileCap <= Capacity
    BY CapacityAssumption, OptionsAssumption DEF TileCap, TileCapacity
  <2>2. QED
    BY <2>1, LeasedHere
<1> HIDE DEF n, J, at
<1>5. /\ IsFiniteSet(1..n) /\ Cardinality(1..n) = n
      /\ IsFiniteSet(Slot) /\ Cardinality(Slot) = Capacity
  <2>1. 1 \in Int /\ n \in Int /\ ~(1 > n) /\ n - 1 + 1 = n
    BY <1>4
  <2>2. IsFiniteSet(1..n) /\ Cardinality(1..n) = IF 1 > n THEN 0 ELSE n - 1 + 1
    BY <2>1, FS_Interval
  <2>3. IsFiniteSet(Slot) /\ Cardinality(Slot) = Capacity
    BY SlotCount
  <2>4. QED
    BY <2>1, <2>2, <2>3
<1>6. IsFiniteSet(J) /\ Cardinality(J) = n - 1
    BY <1>5, FS_RemoveElement DEF J, n
<1>7. \E s, t \in Slot : s # t /\ at[s] = at[t]
  <2>1. Cardinality(J) < Cardinality(Slot)
    BY <1>4, <1>5, <1>6, CapacityAssumption
  <2>2. QED
    BY <1>3, <1>5, <1>6, <2>1, FS_PigeonHole
<1>8. QED
    BY <1>3, <1>7


LEMMA StartLoadTransfers ==
    ASSUME ExecInv, Transfers, host.step \in {"load", "prefetch"},
           host.pos \in 1..Len(Wanted), Wanted[host.pos] \notin Leased,
           StartLoad(KeyOf(Wanted[host.pos])), UNCHANGED <<host, call, tiles, leases>>,
           touched' = [touched EXCEPT !.loads = @ \cup {Wanted[host.pos]}]
    PROVE  Transfers'
<1> DEFINE e == Wanted[host.pos]
           k == KeyOf(e)
<1>1. ExecTypeOK /\ InCall /\ InLoop /\ Inv /\ TouchedTypeOK /\ e \in Expert
    BY WantedTyped DEF ExecInv, Account, InCall, StorageInv, Transfers, InLoop, InTile
<1>2. k \in Key /\ k[2] = e /\ StartLoad(k)
    BY <1>1, KeyTypes
<1>3. touched' = [touched EXCEPT !.loads = @ \cup {e}]
    OBVIOUS
<1> HIDE DEF k
<1>4. Incoming = {} /\ Incoming' = {e}
  <2>1. PICK s \in Slot : load' = [step |-> "check", chunk |-> 1,
                ticket |-> [slot |-> s, generation |-> slots[s].generation + 1,
                            lease |-> serial + 1, key |-> k]]
    BY <1>1, <1>2, StartedLoad
  <2>2. load' # Idle /\ load'.ticket.key = k
    BY <2>1 DEF Idle
  <2>3. load = Idle
    BY <1>2 DEF StartLoad
  <2>4. QED
    BY <1>2, <2>2, <2>3 DEF Incoming
<1> HIDE DEF e
<1>5. /\ touched'.hits = touched.hits /\ touched'.loads = touched.loads \cup {e}
      /\ TouchedTypeOK' /\ NoLogicError' /\ HitsKnown' /\ HitsPinned'
    BY <1>1, <1>3 DEF TouchedTypeOK, NoLogicError, HitsKnown, HitsPinned, At
<1>6. ASSUME NEW x PROVE Resident(KeyOf(x))' => Resident(KeyOf(x))
  <2>1. PICK q : q = KeyOf(x)
    OBVIOUS
  <2>2. KeyOf(x)' = q
    BY <2>1 DEF KeyOf
  <2>3. Resident(q)' => Resident(q)
    BY <1>1, <1>2, ResidentStarted
  <2>4. QED
    BY <2>1, <2>2, <2>3 DEF Resident
<1>7. Leased' = Leased /\ Mine' = Mine
    BY DEF Leased, Mine
<1>8. HitsAhead'
    BY <1>1, <1>5, <1>7 DEF Transfers, HitsAhead
<1>9. Spared'
  <2> SUFFICES ASSUME NEW t \in 1..Len(tiles), NEW x \in Expert,
                      Contains(tiles[t].experts, x)
               PROVE  /\ Ahead(t) /\ x \notin Leased => Unspent(x)'
                      /\ Far(t) /\ x \in Leased => x \in touched.hits
    BY <1>5, <1>7 DEF Spared, Ahead, Far
  <2>1. /\ Ahead(t) /\ x \notin Leased => Unspent(x)
        /\ Far(t) /\ x \in Leased => x \in touched.hits
    BY <1>1 DEF Transfers, Spared
  <2>2. Unspent(x) => Unspent(x)'
    BY <1>4, <1>5, <1>6 DEF Unspent
  <2>3. QED
    BY <2>1, <2>2
<1>10. QED
    BY <1>5, <1>8, <1>9 DEF Transfers

(* The table never answers the loop what it cannot go on with. *)
LEMMA LoadExpertsTransfers ==
    ASSUME ExecInv, Transfers, NEW step, NEW optional, NEW next,
           LoadExperts(step, Wanted, optional, next),
           \/ step = "load" /\ optional = FALSE /\ next = "launch"
           \/ step = "prefetch" /\ optional = TRUE /\ next = "sync"
    PROVE  Transfers'
<1> DEFINE e == Wanted[host.pos]
           k == KeyOf(e)
<1>1. /\ host.step = step /\ step \in {"load", "prefetch"} /\ load = Idle
      /\ UNCHANGED <<call, tiles, leases>>
    BY DEF LoadExperts, At
<1>2. /\ ExecTypeOK /\ InCall /\ InLoop /\ host.pos \in Nat \ {0} /\ Len(Wanted) \in Nat
    BY <1>1, WantedTyped DEF ExecInv, Account, InCall, ExecTypeOK, InLoop, InTile
<1>3. CASE /\ UNCHANGED <<vars, touched>>
           /\ host'.tile = host.tile /\ host'.step \in {host.step, "launch", "sync"}
  <2>1. UNCHANGED slots /\ Incoming' = Incoming
    BY <1>3 DEF vars, cacheVars, storageVars, Incoming
  <2>2. \A t \in 1..Len(tiles) : (Ahead(t)' => Ahead(t)) /\ (Far(t)' => Far(t))
    BY <1>1, <1>3 DEF Ahead, Far
  <2>3. QED
    BY <1>1, <1>2, <1>3, <2>1, <2>2, TransfersKept
<1>4. CASE host.pos > Len(Wanted)
  <2>1. Go(next) /\ UNCHANGED <<vars, touched>>
    BY <1>4 DEF LoadExperts
  <2>2. host'.step = next /\ host'.tile = host.tile
    BY <1>1, <1>2, <2>1, HostGoes, LeasesTyped DEF Steps
  <2>3. QED
    BY <1>3, <2>1, <2>2
<1>5. CASE ~(host.pos > Len(Wanted))
  <2>1. host.pos \in 1..Len(Wanted) /\ e \in Expert
    BY <1>1, <1>2, <1>5, WantedTyped
  <2>2. e \in Leased <=> leases[e] # NoTicket
    BY <2>1 DEF Leased
  <2>3. e \notin Leased => Answer(k, FALSE) \in {"load", "full"}
    <3> SUFFICES ASSUME e \notin Leased PROVE Answer(k, FALSE) \in {"load", "full"}
      OBVIOUS
    <3>1. ~Resident(k)
      BY <1>1, <2>1, WantedUnspent DEF Unspent
    <3> HIDE DEF e
    <3>2. Answer(k, FALSE) = IF \E s \in Slot : Victim(s) THEN "load" ELSE "full"
      BY <1>1, <1>2, <2>1, <3>1, AnswersIdle
    <3>3. QED
      BY <3>2
  <2>4. e \notin Leased /\ step = "load" => Answer(k, FALSE) = "load"
    <3> SUFFICES ASSUME e \notin Leased, step = "load" PROVE Answer(k, FALSE) = "load"
      OBVIOUS
    <3>1. Wanted = Tile.experts
      BY <1>1 DEF Wanted, At
    <3>2. \E s \in Slot : Victim(s)
      BY <1>1, <2>1, <3>1, MissFindsSlot
    <3>3. ~Resident(k)
      BY <1>1, <2>1, WantedUnspent DEF Unspent
    <3> HIDE DEF e
    <3>4. Answer(k, FALSE) = IF \E s \in Slot : Victim(s) THEN "load" ELSE "full"
      BY <1>1, <1>2, <2>1, <3>3, AnswersIdle
    <3>5. QED
      BY <3>2, <3>4
  <2>5. \/ Advance /\ UNCHANGED <<vars, touched>>
        \/ /\ e \notin Leased /\ StartLoad(k) /\ host' = host
           /\ touched' = [touched EXCEPT !.loads = @ \cup {e}]
    <3>1. \/ leases[e] # NoTicket \/ (optional /\ Answer(k, FALSE) = "full")
          \/ leases[e] = NoTicket /\ Answer(k, FALSE) = "load"
      BY <2>2, <2>3, <2>4
    <3>2. CASE leases[e] # NoTicket \/ (optional /\ Answer(k, FALSE) = "full")
      BY <1>5, <3>2 DEF LoadExperts, Advance
    <3>3. CASE /\ leases[e] = NoTicket /\ Answer(k, FALSE) = "load"
               /\ ~(leases[e] # NoTicket \/ (optional /\ Answer(k, FALSE) = "full"))
      BY <1>5, <2>2, <3>3 DEF LoadExperts
    <3>4. QED
      BY <3>1, <3>2, <3>3
  <2>6. CASE Advance /\ UNCHANGED <<vars, touched>>
    <3>1. host'.step = host.step /\ host'.tile = host.tile
      BY <1>1, <1>2, <2>6, HostAdvances, LeasesTyped
    <3>2. QED
      BY <1>3, <2>6, <3>1
  <2>7. CASE /\ e \notin Leased /\ StartLoad(k) /\ host' = host
             /\ touched' = [touched EXCEPT !.loads = @ \cup {e}]
    BY <1>1, <2>1, <2>7, StartLoadTransfers
  <2>8. QED
    BY <2>5, <2>6, <2>7
<1>6. QED
    BY <1>4, <1>5

LEMMA LoadsTransfers ==
    ASSUME ExecInv, Transfers, LoadTile \/ Prefetch
    PROVE  Transfers'
<1>1. CASE LoadTile
  <2>1. Wanted = Tile.experts
    BY <1>1 DEF LoadTile, LoadExperts, Wanted, At
  <2>2. LoadExperts("load", Wanted, FALSE, "launch")
    BY <1>1, <2>1 DEF LoadTile
  <2>3. QED
    BY <2>2, LoadExpertsTransfers
<1>2. CASE Prefetch
  <2>1. Wanted = tiles[host.tile + 1].experts
    BY <1>2 DEF Prefetch, LoadExperts, Wanted, At
  <2>2. LoadExperts("prefetch", Wanted, TRUE, "sync")
    BY <1>2, <2>1 DEF Prefetch
  <2>3. QED
    BY <2>2, LoadExpertsTransfers
<1>3. QED
    BY <1>1, <1>2

LEMMA InitTransfers == ExecutorInit => Transfers
<1> SUFFICES ASSUME ExecutorInit PROVE Transfers
    OBVIOUS
<1>1. host.step = "idle" /\ touched = [hits |-> {}, loads |-> {}]
    BY DEF ExecutorInit, AtRest
<1>2. QED
    BY <1>1 DEF Transfers, TouchedTypeOK, HitsKnown, HitsPinned, HitsAhead, Spared, InLoop,
                InTile, NoLogicError, At

LEMMA NextTransfers ==
    ExecInv /\ ExecInv' /\ Transfers /\ [ExecutorNext]_allVars => Transfers'
<1> SUFFICES ASSUME ExecInv, ExecInv', Transfers, [ExecutorNext]_allVars PROVE Transfers'
    OBVIOUS
<1>1. CASE \E layer \in Layer, ids \in Routings : Execute(layer, ids)
    BY <1>1, ExecuteTransfers
<1>2. CASE StartWorker \/ PinHit \/ Retile \/ NextTile \/ LoadTile \/ Prefetch \/ Loaded
    BY <1>2, StartWorkerTransfers, PinHitTransfers, RetileTransfers, NextTileTransfers,
       LoadsTransfers, LoadedTransfers
<1>3. CASE LoadThrows \/ Unwind \/ Rethrow \/ Join \/ ReleaseTile
    BY <1>3, EndsTransfers, ReleaseTransfers
<1>4. CASE ReadBack \/ Launch(TRUE) \/ Launch(FALSE)
    BY <1>4, GraphTransfers
<1>5. CASE Cancel
    BY <1>5, CancelTransfers, AsideTransfers DEF Cancel, executorVars
<1>6. CASE Transfer \/ DeviceCopies
    BY <1>6, AsideTransfers DEF Transfer, DeviceCopies, executorVars
<1>7. CASE WorkerTile \/ WorkerThrows \/ Compute \/ RaiseStop \/ UNCHANGED allVars
    BY <1>7, AsideTransfers DEF WorkerTile, WorkerThrows, Compute, RaiseStop, allVars,
                                executorVars
<1>8. QED
    BY <1>1, <1>2, <1>3, <1>4, <1>5, <1>6, <1>7 DEF ExecutorNext, HostStep

LEMMA TransfersInductive == ExecutorSpec => []Transfers
BY ExecInductive, InitTransfers, NextTransfers, PTL DEF ExecutorSpec

(* The executor's two logic_errors cannot happen: prioritize_hits never meets a
   routed expert that is pending or busy, and a tile's miss always finds a
   slot, whatever is pinned for its own tile, for later tiles or by the
   prefetch. *)
THEOREM LogicErrorsUnreachable == ExecutorSpec => []NoLogicError
<1>1. Transfers => NoLogicError
    BY DEF Transfers
<1>2. QED
    BY <1>1, TransfersInductive, PTL



(* A load begins only for an expert the loop waits for. *)
LEMMA LoadBegins ==
    ASSUME ExecInv, NEW step, NEW optional, NEW next,
           LoadExperts(step, Wanted, optional, next), step \in {"load", "prefetch"},
           load' # Idle
    PROVE  /\ host.step = step /\ host.pos \in 1..Len(Wanted)
           /\ Wanted[host.pos] \notin Leased /\ StartLoad(KeyOf(Wanted[host.pos]))
<1>1. /\ host.step = step /\ load = Idle /\ ~UNCHANGED vars
    BY DEF LoadExperts, At, vars, storageVars
<1>2. ~(host.pos > Len(Wanted)) /\ host.pos \in Nat \ {0} /\ Len(Wanted) \in Nat
    BY <1>1, WantedTyped DEF LoadExperts, ExecInv, Account, ExecTypeOK, InCall
<1>3. host.pos \in 1..Len(Wanted) /\ Wanted[host.pos] \in Expert
    BY <1>1, <1>2, WantedTyped
<1>4. leases[Wanted[host.pos]] = NoTicket /\ StartLoad(KeyOf(Wanted[host.pos]))
    BY <1>1, <1>2 DEF LoadExperts
<1>5. QED
    BY <1>1, <1>3, <1>4 DEF Leased

LEMMA LoadsOnlyThere ==
    ASSUME ExecInv, [ExecutorNext]_allVars, load = Idle, load' # Idle
    PROVE  /\ host.step \in {"load", "prefetch"} /\ host.pos \in 1..Len(Wanted)
           /\ Wanted[host.pos] \notin Leased /\ StartLoad(KeyOf(Wanted[host.pos]))
<1>1. CASE LoadTile
  <2>1. Wanted = Tile.experts
    BY <1>1 DEF LoadTile, LoadExperts, Wanted, At
  <2>2. LoadExperts("load", Wanted, FALSE, "launch")
    BY <1>1, <2>1 DEF LoadTile
  <2>3. QED
    BY <2>2, LoadBegins
<1>2. CASE Prefetch
  <2>1. Wanted = tiles[host.tile + 1].experts
    BY <1>2 DEF Prefetch, LoadExperts, Wanted, At
  <2>2. LoadExperts("prefetch", Wanted, TRUE, "sync")
    BY <1>2, <2>1 DEF Prefetch
  <2>3. QED
    BY <2>2, LoadBegins
<1>3. CASE Loaded \/ LoadThrows \/ Transfer \/ DeviceCopies \/ Cancel
  <2>1. load' = load \/ load # Idle \/ load' = Idle
    BY <1>3, NotIdle DEF Loaded, LoadThrows, FinishLoad, FailLoad, Transfer, SubmitChunk,
             DrainChunk, DeviceCopies, Device, Cancel, Abort, vars, storageVars
  <2>2. QED
    BY <2>1
<1>4. CASE PinHit \/ ReleaseTile \/ Unwind
  <2>1. load' = load
    BY <1>4 DEF PinHit, ReleaseTile, Unwind, Pin, Unpin, vars, storageVars
  <2>2. QED
    BY <2>1
<1>5. CASE \/ StartWorker \/ Retile \/ NextTile \/ ReadBack \/ RaiseStop \/ Rethrow \/ Join
           \/ \E ok \in BOOLEAN : Launch(ok)
    BY <1>5 DEF StartWorker, Retile, NextTile, ReadBack, RaiseStop, Rethrow, Join, Launch,
                vars, storageVars
<1>6. CASE \/ WorkerTile \/ WorkerThrows \/ Compute \/ UNCHANGED allVars
           \/ \E layer \in Layer, ids \in Routings : Execute(layer, ids)
    BY <1>6 DEF WorkerTile, WorkerThrows, Compute, allVars, Execute, vars, storageVars
<1>7. QED
    BY <1>1, <1>2, <1>3, <1>4, <1>5, <1>6 DEF ExecutorNext, HostStep

(* A call transfers no expert that was resident when it began, and none twice:
   a miss early in the router's order cannot evict a hit that a later tile
   needs, nor can the prefetch evict what the call still needs. *)
THEOREM TransfersNeeded == ExecutorSpec => NoNeedlessTransfer
<1>1. ASSUME ExecInv, Transfers, [ExecutorNext]_allVars, load = Idle, load' # Idle
      PROVE  load'.ticket.key[2] \notin touched.hits \union touched.loads
  <2> DEFINE e == Wanted[host.pos]
             k == KeyOf(e)
  <2>1. /\ host.step \in {"load", "prefetch"} /\ host.pos \in 1..Len(Wanted)
        /\ e \notin Leased /\ StartLoad(k) /\ Inv
    BY <1>1, LoadsOnlyThere DEF ExecInv, StorageInv
  <2>2. k \in Key /\ k[2] = e
    BY <1>1, <2>1, WantedTyped, KeyTypes DEF ExecInv, Account, InCall
  <2>3. e \notin touched.hits /\ e \notin touched.loads
    BY <1>1, <2>1, WantedUnspent DEF Unspent, Incoming
  <2> HIDE DEF k, e
  <2>4. load'.ticket.key = k
    <3>1. \E s \in Slot : load' = [step |-> "check", chunk |-> 1,
                ticket |-> [slot |-> s, generation |-> slots[s].generation + 1,
                            lease |-> serial + 1, key |-> k]]
      BY <2>1, <2>2, StartedLoad
    <3>2. QED
      BY <3>1
  <2>5. QED
    BY <2>2, <2>3, <2>4
<1>2. QED
    BY <1>1, ExecInductive, TransfersInductive, PTL DEF ExecutorSpec, NoNeedlessTransfer

=============================================================================
