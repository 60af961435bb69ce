--------------------------- MODULE MoeCacheProofs ---------------------------
(***************************************************************************)
(* What the expert cache guarantees for every number of slots, experts and *)
(* chunks, every serial limit, with and without a staging buffer: first    *)
(* its slot table, of MoeCache, then the storage that fills the slots, of  *)
(* MoeStorage.  Each has an inductive invariant, made of the invariants    *)
(* the runs check and of what they lack to be inductive.                   *)
(*                                                                         *)
(* In the table, that a ticket is the only one for its slot needs leases   *)
(* never to repeat, and that no expert is held twice is what makes the     *)
(* slot acquire finds the one a pinned expert is in.                       *)
(***************************************************************************)
EXTENDS MoeStorage, FiniteSetTheorems, SequenceTheorems, TLAPS

(* Every pinned slot has a ticket of its own; as no two tickets share a lease
   (ClockSound), it is the only one the slot answers to: OneTicketPerPin. *)
Owned ==
    \A s \in Slot : slots[s].status \in Pinned =>
        \E t \in issued : t.slot = s /\ t.key = slots[s].key /\ Live(t)

Inv == CacheTypeOK /\ OneSlotPerKey /\ ClockSound /\ Owned

-----------------------------------------------------------------------------
(* What a step of each kind writes: one slot, said pointwise. *)
LEMMA HitSlot ==
    ASSUME CacheTypeOK, NEW k \in Key, Hit(k)
    PROVE  \E s \in Slot :
              /\ Holds(s, k)
              /\ slots' = [slots EXCEPT ![s] = [key |-> k, status |-> "in_use",
                              generation |-> slots[s].generation,
                              lease |-> serial + 1, last_use |-> serial + 1]]
              /\ issued' = issued \union {[slot |-> s, generation |-> slots[s].generation,
                                           lease |-> serial + 1, key |-> k]}
    BY DEF Hit, Holds

LEMMA LoadSlot ==
    ASSUME CacheTypeOK, NEW k \in Key, Load(k)
    PROVE  \E s \in Slot :
              /\ slots[s].status \notin Pinned
              /\ slots[s].generation < MaxSerial
              /\ slots' = [slots EXCEPT ![s] = [key |-> k, status |-> "loading",
                              generation |-> slots[s].generation + 1,
                              lease |-> serial + 1, last_use |-> serial + 1]]
              /\ issued' = issued \union {[slot |-> s, generation |-> slots[s].generation + 1,
                                           lease |-> serial + 1, key |-> k]}
              /\ stats' = [stats EXCEPT !.loads = @ + 1,
                              !.evictions = IF slots[s].status = "ready" THEN @ + 1 ELSE @]
    BY DEF Load, Victim, Pinned

(* The slot a hit pins is the only one that holds the expert, and evictable. *)
LEMMA HitReady ==
    ASSUME OneSlotPerKey, NEW k \in Key, Hit(k), NEW s \in Slot, Holds(s, k),
           CacheTypeOK
    PROVE  slots[s].status = "ready"
<1>1. s = CHOOSE u \in Slot : Holds(u, k)
    BY DEF OneSlotPerKey, Occupied, Holds
<1>2. slots[CHOOSE u \in Slot : Holds(u, k)].status \notin Pinned
    BY DEF Hit, Answer, Pinned
<1>3. slots[s].status \in Status \ {"empty"}
    BY DEF CacheTypeOK, SlotRecord, Holds
<1>4. QED
    BY <1>1, <1>2, <1>3 DEF Status, Pinned

-----------------------------------------------------------------------------
(* The table, the counters and the tickets keep their types. *)
LEMMA InitType == CacheInit => CacheTypeOK
    BY KeyAssumption, SerialAssumption
    DEF CacheInit, CacheTypeOK, SlotRecord, Stats, Status, Ticket

LEMMA HitType ==
    ASSUME CacheTypeOK, NEW k \in Key, Hit(k)
    PROVE  CacheTypeOK'
<1>1. PICK s \in Slot :
        /\ slots' = [slots EXCEPT ![s] = [key |-> k, status |-> "in_use",
                        generation |-> slots[s].generation,
                        lease |-> serial + 1, last_use |-> serial + 1]]
        /\ issued' = issued \union {[slot |-> s, generation |-> slots[s].generation,
                                     lease |-> serial + 1, key |-> k]}
    BY HitSlot
<1>2. serial' \in 0..MaxSerial /\ serial + 1 \in Nat
    BY SerialAssumption DEF Hit, CacheTypeOK
<1>3. slots' \in [Slot -> SlotRecord]
    BY <1>1, <1>2 DEF CacheTypeOK, SlotRecord, Status
<1>4. issued' \subseteq Ticket
    BY <1>1, <1>2 DEF CacheTypeOK, SlotRecord, Ticket
<1>5. stats' \in Stats
    BY DEF Hit, CacheTypeOK, Stats
<1>6. QED
    BY <1>2, <1>3, <1>4, <1>5 DEF CacheTypeOK

LEMMA LoadType ==
    ASSUME CacheTypeOK, NEW k \in Key, Load(k)
    PROVE  CacheTypeOK'
<1>1. PICK s \in Slot :
        /\ slots' = [slots EXCEPT ![s] = [key |-> k, status |-> "loading",
                        generation |-> slots[s].generation + 1,
                        lease |-> serial + 1, last_use |-> serial + 1]]
        /\ issued' = issued \union {[slot |-> s, generation |-> slots[s].generation + 1,
                                     lease |-> serial + 1, key |-> k]}
        /\ stats' = [stats EXCEPT !.loads = @ + 1,
                        !.evictions = IF slots[s].status = "ready" THEN @ + 1 ELSE @]
    BY LoadSlot
<1>2. serial' \in 0..MaxSerial /\ serial + 1 \in Nat
    BY SerialAssumption DEF Load, CacheTypeOK
<1>3. slots[s].generation + 1 \in Nat
    BY DEF CacheTypeOK, SlotRecord
<1>4. slots' \in [Slot -> SlotRecord]
    BY <1>1, <1>2, <1>3 DEF CacheTypeOK, SlotRecord, Status
<1>5. issued' \subseteq Ticket
    BY <1>1, <1>2, <1>3 DEF CacheTypeOK, Ticket
<1>6. stats' \in Stats
  <2>1. stats \in Stats /\ stats.loads + 1 \in Nat /\ stats.evictions + 1 \in Nat
    BY DEF CacheTypeOK, Stats
  <2>2. CASE slots[s].status = "ready"
    BY <1>1, <2>1, <2>2 DEF Stats
  <2>3. CASE slots[s].status # "ready"
    BY <1>1, <2>1, <2>3 DEF Stats
  <2>4. QED
    BY <2>2, <2>3
<1>7. QED
    BY <1>2, <1>4, <1>5, <1>6 DEF CacheTypeOK

LEMMA CompleteType ==
    ASSUME CacheTypeOK, NEW t \in issued, NEW ok \in BOOLEAN, CompleteLoad(t, ok)
    PROVE  CacheTypeOK'
<1>1. slots' \in [Slot -> SlotRecord]
    BY ZenonT(40) DEF CompleteLoad, CacheTypeOK, SlotRecord, Status
<1>2. stats' \in Stats
    BY DEF CompleteLoad, CacheTypeOK, Stats
<1>3. QED
    BY <1>1, <1>2 DEF CompleteLoad, CacheTypeOK

LEMMA ReleaseType ==
    ASSUME CacheTypeOK, NEW t \in issued, Release(t)
    PROVE  CacheTypeOK'
<1>1. serial' \in 0..MaxSerial /\ serial' \in Nat
    BY SerialAssumption DEF Release, CacheTypeOK
<1>2. slots' \in [Slot -> SlotRecord]
    BY <1>1, ZenonT(40) DEF Release, CacheTypeOK, SlotRecord, Status
<1>3. QED
    BY <1>1, <1>2 DEF Release, CacheTypeOK

LEMMA ClearType ==
    ASSUME CacheTypeOK, Clear
    PROVE  CacheTypeOK'
<1>1. slots' \in [Slot -> SlotRecord]
    BY DEF Clear, CacheTypeOK, SlotRecord, Status
<1>2. QED
    BY <1>1 DEF Clear, CacheTypeOK

LEMMA NextType == CacheTypeOK /\ [CacheNext]_cacheVars => CacheTypeOK'
<1> SUFFICES ASSUME CacheTypeOK, [CacheNext]_cacheVars PROVE CacheTypeOK'
    OBVIOUS
<1>1. CASE \E k \in Key : Hit(k) \/ Load(k)
    BY <1>1, HitType, LoadType
<1>2. CASE \E t \in issued : CompleteLoad(t, TRUE) \/ CompleteLoad(t, FALSE) \/ Release(t)
    BY <1>2, CompleteType, ReleaseType
<1>3. CASE Clear
    BY <1>3, ClearType
<1>4. CASE UNCHANGED cacheVars
    BY <1>4 DEF cacheVars, CacheTypeOK
<1>5. QED
    BY <1>1, <1>2, <1>3, <1>4 DEF CacheNext

(* The slot table, its counters and its tickets always have their types: in
   particular no lease serial ever exceeds the limit of the counter. *)
THEOREM TypeCorrect == CacheSpec => []CacheTypeOK
<1>1. QED
    BY InitType, NextType, PTL DEF CacheSpec

-----------------------------------------------------------------------------
(* No expert is held twice.  Only Load brings an expert in, and only when no
   slot holds it. *)
LEMMA InitOneSlot == CacheInit => OneSlotPerKey
    BY DEF CacheInit, OneSlotPerKey, Occupied

LEMMA NextOneSlot ==
    ASSUME CacheTypeOK, OneSlotPerKey, [CacheNext]_cacheVars
    PROVE  OneSlotPerKey'
<1> SUFFICES ASSUME NEW a \in Slot, NEW b \in Slot, a # b,
                    slots'[a].status # "empty", slots'[b].status # "empty",
                    slots'[b].key = slots'[a].key
             PROVE  FALSE
    BY DEF OneSlotPerKey, Occupied, Holds
(* Every step but Load leaves the keys and empties, at most, slots. *)
<1> DEFINE Keeps == \A s \in Slot : /\ slots'[s].key = slots[s].key
                                    /\ slots'[s].status # "empty" => slots[s].status # "empty"
<1>1. Keeps => FALSE
    BY DEF OneSlotPerKey, Occupied, Holds
<1>2. ASSUME NEW k \in Key, Hit(k) PROVE Keeps
  <2>1. PICK s \in Slot :
          /\ Holds(s, k)
          /\ slots' = [slots EXCEPT ![s] = [key |-> k, status |-> "in_use",
                          generation |-> slots[s].generation,
                          lease |-> serial + 1, last_use |-> serial + 1]]
    BY <1>2, HitSlot
  <2>2. QED
    BY <2>1 DEF CacheTypeOK, SlotRecord, Holds
<1>3. ASSUME NEW k \in Key, Load(k) PROVE FALSE
  <2>1. PICK s \in Slot :
          slots' = [slots EXCEPT ![s] = [key |-> k, status |-> "loading",
                        generation |-> slots[s].generation + 1,
                        lease |-> serial + 1, last_use |-> serial + 1]]
    BY <1>3, LoadSlot
  <2>2. \A u \in Slot : ~Holds(u, k)
    BY <1>3 DEF Load, Answer
  <2>3. QED
    BY <2>1, <2>2 DEF CacheTypeOK, OneSlotPerKey, Occupied, Holds
<1>4. ASSUME NEW t \in issued, NEW ok \in BOOLEAN, CompleteLoad(t, ok) PROVE Keeps
    BY <1>4 DEF CompleteLoad, Checked, CacheTypeOK, SlotRecord
<1>5. ASSUME NEW t \in issued, Release(t) PROVE Keeps
    BY <1>5 DEF Release, Checked, CacheTypeOK, SlotRecord
<1>6. CASE Clear
    BY <1>6 DEF Clear, CacheTypeOK, SlotRecord
<1>7. CASE UNCHANGED cacheVars
    BY <1>1, <1>7 DEF cacheVars
<1>8. QED
    BY <1>1, <1>2, <1>3, <1>4, <1>5, <1>6, <1>7 DEF CacheNext

-----------------------------------------------------------------------------
(* The clock only moves forward: whatever a step writes as a lease or a last
   use is the serial it just drew, which is above every earlier one. *)
LEMMA InitClock == CacheInit => ClockSound
    BY DEF CacheInit, ClockSound, Occupied

LEMMA NextClock ==
    ASSUME CacheTypeOK, ClockSound, [CacheNext]_cacheVars
    PROVE  ClockSound'
<1> DEFINE Older(s) == /\ slots'[s].lease = slots[s].lease
                       /\ slots'[s].last_use = slots[s].last_use
                       /\ slots'[s].generation = slots[s].generation
                       /\ slots'[s].status # "empty" => slots[s].status # "empty"
           Drawn(s) == /\ serial' = serial + 1
                       /\ slots'[s].last_use = serial'
                       /\ slots'[s].lease \in {slots[s].lease, serial'}
                       /\ slots'[s].generation \in {slots[s].generation, slots[s].generation + 1}
                       /\ slots'[s].generation # slots[s].generation => slots'[s].lease = serial'
<1>1. ASSUME \A s \in Slot : Older(s), serial' = serial, issued' = issued
      PROVE  ClockSound'
    BY <1>1 DEF ClockSound, Occupied
<1>2. ASSUME NEW s \in Slot, Drawn(s), \A u \in Slot \ {s} : Older(u),
             \A t, u \in issued' : /\ t \in issued \/ t.lease = serial'
                                   /\ t \in issued \/ u \in issued \/ t = u
      PROVE  ClockSound'
  <2>1. \A u \in Slot : /\ slots[u].lease \in Nat /\ slots[u].last_use \in Nat
                         /\ slots[u].generation \in Nat
    BY DEF CacheTypeOK, SlotRecord
  <2>2. serial \in Nat /\ \A t \in issued : t.lease \in Nat
    BY SerialAssumption DEF CacheTypeOK, Ticket
  <2>3. \A u \in Slot : /\ slots'[u].lease <= slots'[u].last_use
                         /\ slots'[u].last_use <= serial'
                         /\ slots'[u].generation <= slots'[u].lease
    <3>1. CASE slots'[s].generation = slots[s].generation
      BY <1>2, <2>1, <2>2, <3>1 DEF ClockSound
    <3>2. CASE slots'[s].generation # slots[s].generation
      BY <1>2, <2>1, <2>2, <3>2 DEF ClockSound
    <3>3. QED
      BY <3>1, <3>2
  <2>4. \A u \in Slot \ {s} : slots'[u].last_use < serial'
    BY <1>2, <2>1, <2>2 DEF ClockSound
  <2>5. \A u, v \in Occupied' : slots'[u].last_use = slots'[v].last_use => u = v
    <3>1. TAKE u, v \in Occupied'
    <3>2. CASE u = s \/ v = s
      BY <1>2, <2>1, <2>2, <2>4, <3>2 DEF Occupied
    <3>3. CASE u # s /\ v # s
      BY <1>2, <3>3 DEF ClockSound, Occupied
    <3>4. QED
      BY <3>2, <3>3
  <2>6. \A t \in issued' : t.lease <= serial'
    BY <1>2, <2>2 DEF ClockSound
  <2>7. \A t, u \in issued' : t.lease = u.lease => t = u
    <3>1. \A t \in issued : t.lease # serial'
      BY <1>2, <2>2 DEF ClockSound
    <3>2. QED
      BY <1>2, <3>1 DEF ClockSound
  <2>8. QED
    BY <2>3, <2>5, <2>6, <2>7 DEF ClockSound
<1>3. ASSUME NEW k \in Key, Hit(k) PROVE ClockSound'
  <2>1. PICK s \in Slot :
          /\ Holds(s, k)
          /\ slots' = [slots EXCEPT ![s] = [key |-> k, status |-> "in_use",
                          generation |-> slots[s].generation,
                          lease |-> serial + 1, last_use |-> serial + 1]]
          /\ issued' = issued \union {[slot |-> s, generation |-> slots[s].generation,
                                       lease |-> serial + 1, key |-> k]}
    BY <1>3, HitSlot
  <2>2. Drawn(s) /\ \A u \in Slot \ {s} : Older(u)
    BY <1>3, <2>1 DEF Hit, CacheTypeOK, SlotRecord, Holds
  <2>3. \A t, u \in issued' : /\ t \in issued \/ t.lease = serial'
                              /\ t \in issued \/ u \in issued \/ t = u
    BY <1>3, <2>1 DEF Hit
  <2>4. QED
    BY <1>2, <2>2, <2>3
<1>4. ASSUME NEW k \in Key, Load(k) PROVE ClockSound'
  <2>1. PICK s \in Slot :
          /\ slots' = [slots EXCEPT ![s] = [key |-> k, status |-> "loading",
                          generation |-> slots[s].generation + 1,
                          lease |-> serial + 1, last_use |-> serial + 1]]
          /\ issued' = issued \union {[slot |-> s, generation |-> slots[s].generation + 1,
                                       lease |-> serial + 1, key |-> k]}
    BY <1>4, LoadSlot
  <2>2. Drawn(s) /\ \A u \in Slot \ {s} : Older(u)
    BY <1>4, <2>1 DEF Load, CacheTypeOK, SlotRecord
  <2>3. \A t, u \in issued' : /\ t \in issued \/ t.lease = serial'
                              /\ t \in issued \/ u \in issued \/ t = u
    BY <1>4, <2>1 DEF Load
  <2>4. QED
    BY <1>2, <2>2, <2>3
<1>5. ASSUME NEW t \in issued, NEW ok \in BOOLEAN, CompleteLoad(t, ok) PROVE ClockSound'
  <2>1. \A s \in Slot : Older(s)
    BY <1>5 DEF CompleteLoad, Checked, CacheTypeOK, SlotRecord
  <2>2. QED
    BY <1>1, <1>5, <2>1 DEF CompleteLoad
<1>6. ASSUME NEW t \in issued, Release(t) PROVE ClockSound'
  <2>1. t.slot \in Slot
    BY DEF CacheTypeOK, Ticket
  <2>2. Drawn(t.slot) /\ \A u \in Slot \ {t.slot} : Older(u)
    <3>1. slots \in [Slot -> SlotRecord] /\ slots[t.slot] \in SlotRecord
      BY <2>1 DEF CacheTypeOK
    <3>2. /\ serial' = serial + 1
          /\ slots' = [slots EXCEPT ![t.slot] = [slots[t.slot] EXCEPT
                          !.status = "ready", !.last_use = serial']]
      BY <1>6 DEF Release
    <3>3. slots'[t.slot] = [slots[t.slot] EXCEPT !.status = "ready", !.last_use = serial']
      BY <2>1, <3>1, <3>2
    <3>4. Drawn(t.slot)
      BY <3>1, <3>2, <3>3, ZenonT(40) DEF SlotRecord
    <3>5. \A u \in Slot \ {t.slot} : Older(u)
      BY <2>1, <3>1, <3>2
    <3>6. QED
      BY <3>4, <3>5
  <2>3. issued' = issued
    BY <1>6 DEF Release
  <2>4. QED
    BY <1>2, <2>1, <2>2, <2>3
<1>7. CASE Clear
  <2>1. \A s \in Slot : Older(s)
    BY <1>7 DEF Clear, CacheTypeOK, SlotRecord
  <2>2. QED
    BY <1>1, <1>7, <2>1 DEF Clear
<1>8. CASE UNCHANGED cacheVars
    BY <1>1, <1>8 DEF cacheVars
<1>9. QED
    BY <1>3, <1>4, <1>5, <1>6, <1>7, <1>8 DEF CacheNext

-----------------------------------------------------------------------------
(* Tickets.  A new ticket carries the serial just drawn, so it shares its
   lease with none; a slot's own ticket is issued together with its lease, and
   nothing changes the lease before the pin ends. *)
LEMMA InitTickets == CacheInit => Owned
    BY DEF CacheInit, Owned, Pinned

(* The step of acquire that pins slot s, resident or not, as tickets see it. *)
LEMMA NewTicket ==
    ASSUME CacheTypeOK, ClockSound, Owned,
           NEW s \in Slot, NEW k \in Key, NEW g \in Nat, NEW st \in Pinned,
           NEW n \in Nat, n = serial + 1, serial' = n,
           slots' = [slots EXCEPT ![s] = [key |-> k, status |-> st, generation |-> g,
                                          lease |-> n, last_use |-> n]],
           issued' = issued \union {[slot |-> s, generation |-> g, lease |-> n, key |-> k]}
    PROVE  Owned' /\ \A t \in issued : Live(t)' => Live(t)
<1> DEFINE new == [slot |-> s, generation |-> g, lease |-> n, key |-> k]
<1>1. \A t \in issued : t.lease # n /\ t.slot \in Slot
  <2>1. serial \in Nat /\ \A t \in issued : t.lease \in Nat /\ t.lease <= serial /\ t.slot \in Slot
    BY SerialAssumption DEF CacheTypeOK, Ticket, ClockSound
  <2>2. QED
    BY <2>1
<1>3. \A t \in issued : t.slot # s => (Live(t)' <=> Live(t))
    BY <1>1 DEF Live, Checked, CacheTypeOK
<1>4. \A t \in issued : t.slot = s => ~Live(t)'
    BY <1>1 DEF Live, Checked, CacheTypeOK
<1>5. ASSUME NEW u \in Slot, slots'[u].status \in Pinned
      PROVE  \E t \in issued' : t.slot = u /\ t.key = slots'[u].key /\ Live(t)'
  <2>1. CASE u = s
    <3>1. slots'[s] = [key |-> k, status |-> st, generation |-> g,
                       lease |-> n, last_use |-> n]
      BY DEF CacheTypeOK
    <3>2. new \in issued' /\ new.slot = u /\ new.key = slots'[u].key
      BY <2>1, <3>1
    <3>3. slots'[new.slot].generation = new.generation /\ slots'[new.slot].lease = new.lease
      BY <3>1
    <3>4. slots'[new.slot].status = "loading" \/ slots'[new.slot].status = "in_use"
      BY <3>1 DEF Pinned
    <3>5. Live(new)'
      BY <3>3, <3>4 DEF Live, Checked
    <3>6. QED
      BY <3>2, <3>5
  <2>2. CASE u # s
    <3>1. slots'[u] = slots[u]
      BY <2>2 DEF CacheTypeOK
    <3>2. PICK t \in issued : t.slot = u /\ t.key = slots[u].key /\ Live(t)
      BY <1>5, <3>1 DEF Owned
    <3>3. QED
      BY <1>3, <2>2, <3>1, <3>2
  <2>3. QED
    BY <2>1, <2>2
<1>6. QED
    BY <1>3, <1>4, <1>5 DEF Owned

(* Every other step: no ticket is issued, and slots keep what identifies them. *)
LEMMA OldTickets ==
    ASSUME CacheTypeOK, Owned, issued' = issued,
           \A s \in Slot :
              /\ slots'[s].key = slots[s].key
              /\ slots'[s].generation = slots[s].generation
              /\ slots'[s].lease = slots[s].lease
              /\ slots'[s].status \in Pinned => slots[s].status \in Pinned
    PROVE  Owned' /\ \A t \in issued : Live(t)' => Live(t)
<1>1. \A t \in issued : t.slot \in Slot
    BY DEF CacheTypeOK, Ticket
<1>2. \A t \in issued : Live(t)' => Live(t)
    BY <1>1 DEF Live, Checked, Pinned
<1>3. ASSUME NEW s \in Slot, slots'[s].status \in Pinned
      PROVE  \E t \in issued : t.slot = s /\ t.key = slots'[s].key /\ Live(t)'
  <2>1. PICK t \in issued : t.slot = s /\ t.key = slots[s].key /\ Live(t)
    BY <1>3 DEF Owned
  <2>2. Live(t)'
    BY <1>3, <2>1 DEF Live, Checked, Pinned
  <2>3. QED
    BY <2>1, <2>2
<1>4. QED
    BY <1>2, <1>3 DEF Owned

LEMMA NextTickets ==
    ASSUME Inv, [CacheNext]_cacheVars
    PROVE  Owned' /\ \A t \in issued : Live(t)' => Live(t)
<1> USE DEF Inv
<1>1. ASSUME NEW k \in Key, Hit(k) PROVE Owned' /\ \A t \in issued : Live(t)' => Live(t)
  <2>1. PICK s \in Slot :
          /\ slots' = [slots EXCEPT ![s] = [key |-> k, status |-> "in_use",
                          generation |-> slots[s].generation,
                          lease |-> serial + 1, last_use |-> serial + 1]]
          /\ issued' = issued \union {[slot |-> s, generation |-> slots[s].generation,
                                       lease |-> serial + 1, key |-> k]}
    BY <1>1, HitSlot
  <2>2. /\ serial' = serial + 1 /\ serial + 1 \in Nat
        /\ slots[s].generation \in Nat /\ "in_use" \in Pinned
    BY <1>1, SerialAssumption DEF Hit, CacheTypeOK, SlotRecord, Pinned
  <2>3. QED
    BY <2>1, <2>2, NewTicket
<1>2. ASSUME NEW k \in Key, Load(k) PROVE Owned' /\ \A t \in issued : Live(t)' => Live(t)
  <2>1. PICK s \in Slot :
          /\ slots' = [slots EXCEPT ![s] = [key |-> k, status |-> "loading",
                          generation |-> slots[s].generation + 1,
                          lease |-> serial + 1, last_use |-> serial + 1]]
          /\ issued' = issued \union {[slot |-> s, generation |-> slots[s].generation + 1,
                                       lease |-> serial + 1, key |-> k]}
    BY <1>2, LoadSlot
  <2>2. /\ serial' = serial + 1 /\ serial + 1 \in Nat
        /\ slots[s].generation + 1 \in Nat /\ "loading" \in Pinned
    BY <1>2, SerialAssumption DEF Load, CacheTypeOK, SlotRecord, Pinned
  <2>3. QED
    BY <2>1, <2>2, NewTicket
<1>3. ASSUME NEW t \in issued, NEW ok \in BOOLEAN, CompleteLoad(t, ok)
      PROVE  Owned' /\ \A u \in issued : Live(u)' => Live(u)
  <2>1. \A s \in Slot :
          /\ slots'[s].key = slots[s].key
          /\ slots'[s].generation = slots[s].generation
          /\ slots'[s].lease = slots[s].lease
          /\ slots'[s].status \in Pinned => slots[s].status \in Pinned
    BY <1>3 DEF CompleteLoad, Checked, CacheTypeOK, SlotRecord, Pinned
  <2>2. QED
    BY <1>3, <2>1, OldTickets DEF CompleteLoad
<1>4. ASSUME NEW t \in issued, Release(t)
      PROVE  Owned' /\ \A u \in issued : Live(u)' => Live(u)
  <2>1. \A s \in Slot :
          /\ slots'[s].key = slots[s].key
          /\ slots'[s].generation = slots[s].generation
          /\ slots'[s].lease = slots[s].lease
          /\ slots'[s].status \in Pinned => slots[s].status \in Pinned
    BY <1>4 DEF Release, CacheTypeOK, SlotRecord, Pinned
  <2>2. QED
    BY <1>4, <2>1, OldTickets DEF Release
<1>5. CASE Clear
  <2>1. \A s \in Slot :
          /\ slots'[s].key = slots[s].key
          /\ slots'[s].generation = slots[s].generation
          /\ slots'[s].lease = slots[s].lease
          /\ slots'[s].status \in Pinned => slots[s].status \in Pinned
    BY <1>5 DEF Clear, CacheTypeOK, SlotRecord, Pinned
  <2>2. QED
    BY <1>5, <2>1, OldTickets DEF Clear
<1>6. CASE UNCHANGED cacheVars
    BY <1>6, OldTickets DEF cacheVars
<1>7. QED
    BY <1>1, <1>2, <1>3, <1>4, <1>5, <1>6 DEF CacheNext

-----------------------------------------------------------------------------
LEMMA InductiveInvariant == CacheSpec => []Inv
<1>1. CacheInit => Inv
    BY InitType, InitOneSlot, InitClock, InitTickets DEF Inv
<1>2. Inv /\ [CacheNext]_cacheVars => Inv'
    BY NextType, NextOneSlot, NextClock, NextTickets DEF Inv
<1>3. QED
    BY <1>1, <1>2, PTL DEF CacheSpec

(* No expert is ever held by two slots, so acquire's scan for the first match
   finds the only one and an eviction never leaves a twin behind. *)
THEOREM ExpertsHeldOnce == CacheSpec => []OneSlotPerKey
<1>1. Inv => OneSlotPerKey
    BY DEF Inv
<1>2. QED
    BY <1>1, InductiveInvariant, PTL

(* Lease serials and last uses never repeat, and no generation counter can be
   exhausted before the serial is. *)
THEOREM ClockNeverRepeats == CacheSpec => []ClockSound
<1>1. Inv => ClockSound
    BY DEF Inv
<1>2. QED
    BY <1>1, InductiveInvariant, PTL

(* Of all tickets ever issued exactly one is accepted for a pinned slot, and
   it names the expert the slot holds. *)
THEOREM TicketsExact == CacheSpec => []OneTicketPerPin
<1>1. Inv => OneTicketPerPin
  <2> SUFFICES ASSUME Inv, NEW s \in Slot, slots[s].status \in Pinned
               PROVE  \E t \in issued :
                          /\ t.slot = s /\ t.key = slots[s].key /\ Live(t)
                          /\ \A u \in issued : u.slot = s /\ Live(u) => u = t
    BY DEF OneTicketPerPin
  <2>1. PICK t \in issued : t.slot = s /\ t.key = slots[s].key /\ Live(t)
    BY DEF Inv, Owned
  <2>2. \A u \in issued : u.slot = s /\ Live(u) => u.lease = t.lease
    BY <2>1 DEF Live, Checked
  <2>3. QED
    BY <2>1, <2>2 DEF Inv, ClockSound
<1>2. QED
    BY <1>1, InductiveInvariant, PTL

(* A ticket that is no longer accepted never is again. *)
THEOREM StaleTicketsStayStale == CacheSpec => StaleForever
<1>1. Inv /\ [CacheNext]_cacheVars => [\A t \in issued : ~Live(t) => ~Live(t)']_cacheVars
    BY NextTickets
<1>2. QED
    BY <1>1, InductiveInvariant, PTL DEF CacheSpec, StaleForever

(* A loading or in-use slot is neither evicted, cleared nor re-leased, and its
   status changes only when the one ticket issued for its expert is presented. *)
THEOREM PinsProtect == CacheSpec => PinProtects
<1> DEFINE Same(s) == /\ slots'[s].key = slots[s].key
                      /\ slots'[s].generation = slots[s].generation
                      /\ slots'[s].lease = slots[s].lease
           Presented(s) == {t \in issued : t.slot = s /\ Presents(t)}
           Keeps == \A s \in Slot : slots[s].status \in Pinned =>
                       /\ Same(s)
                       /\ \/ slots'[s].status = slots[s].status
                          \/ Presented(s) # {}
           Own == \A s \in Slot : slots[s].status \in Pinned =>
                     \A t \in Presented(s) : /\ t.key = slots[s].key
                                             /\ t.generation = slots[s].generation
                                             /\ t.lease = slots[s].lease
<1>1. ASSUME Inv, CacheNext PROVE Keeps
  <2>1. CacheTypeOK /\ OneSlotPerKey
    BY <1>1 DEF Inv
  <2>2. ASSUME NEW k \in Key, Hit(k) PROVE Keeps
    <3>1. \A s \in Slot : Holds(s, k) => slots[s].status = "ready"
      BY <2>1, <2>2, HitReady
    <3>2. PICK s \in Slot : Holds(s, k) /\
            slots' = [slots EXCEPT ![s] = [key |-> k, status |-> "in_use",
                        generation |-> slots[s].generation,
                        lease |-> serial + 1, last_use |-> serial + 1]]
      BY <2>1, <2>2, HitSlot
    <3>3. QED
      BY <2>1, <3>1, <3>2 DEF CacheTypeOK, Pinned
  <2>3. ASSUME NEW k \in Key, Load(k) PROVE Keeps
    BY <2>1, <2>3, LoadSlot DEF CacheTypeOK
  <2>4. ASSUME NEW t \in issued, Presents(t) PROVE Keeps
    <3>1. \A s \in Slot : s # t.slot => slots'[s] = slots[s]
      BY <2>1, <2>4 DEF Presents, CompleteLoad, Release, CacheTypeOK
    <3>2. Same(t.slot)
      <4>1. t.slot \in Slot /\ slots[t.slot] \in SlotRecord
        BY <2>1, <2>4 DEF CacheTypeOK, Ticket
      <4>2. ASSUME NEW ok \in BOOLEAN, CompleteLoad(t, ok) PROVE Same(t.slot)
        BY <2>1, <4>1, <4>2 DEF CompleteLoad, CacheTypeOK, SlotRecord
      <4>3. CASE Release(t)
        BY <2>1, <4>1, <4>3 DEF Release, CacheTypeOK, SlotRecord
      <4>4. QED
        BY <2>4, <4>2, <4>3 DEF Presents
    <3>3. Presented(t.slot) # {}
      BY <2>4
    <3>4. QED
      BY <3>1, <3>2, <3>3
  <2>5. CASE Clear
    BY <2>5 DEF Clear
  <2>6. QED
    BY <1>1, <2>2, <2>3, <2>4, <2>5 DEF CacheNext, Presents
<1>2. ASSUME Inv PROVE Own
  <2> SUFFICES ASSUME NEW s \in Slot, slots[s].status \in Pinned,
                      NEW t \in issued, t.slot = s, Presents(t)
               PROVE  /\ t.key = slots[s].key
                      /\ t.generation = slots[s].generation
                      /\ t.lease = slots[s].lease
    OBVIOUS
  <2>1. t.generation = slots[s].generation /\ t.lease = slots[s].lease
    BY DEF Presents, CompleteLoad, Release, Checked
  <2>2. PICK u \in issued : u.slot = s /\ u.key = slots[s].key /\ Live(u)
    BY <1>2 DEF Inv, Owned
  <2>3. u = t
    BY <1>2, <2>1, <2>2 DEF Inv, ClockSound, Live, Checked
  <2>4. QED
    BY <2>1, <2>2, <2>3
<1> DEFINE Protects == \A s \in Slot : slots[s].status \in Pinned =>
              /\ slots'[s].key = slots[s].key
              /\ slots'[s].generation = slots[s].generation
              /\ slots'[s].lease = slots[s].lease
              /\ slots'[s].status # slots[s].status =>
                    LET presented == {t \in issued : t.slot = s /\ Presents(t)}
                    IN  /\ presented # {}
                        /\ \A t \in presented :
                             /\ t.key = slots[s].key
                             /\ t.generation = slots[s].generation
                             /\ t.lease = slots[s].lease
<1>3. Inv /\ [CacheNext]_cacheVars => [Protects]_cacheVars
  BY <1>1, <1>2
<1>4. QED
  BY <1>3, InductiveInvariant, PTL DEF CacheSpec, PinProtects

-----------------------------------------------------------------------------
(***************************************************************************)
(* The slot table implements the abstract cache of ExpertLru, for every    *)
(* number of slots and experts: under heldBar and olderBar each of its     *)
(* steps is a step of an LRU cache that never evicts a pinned expert, or   *)
(* changes nothing of it.  The counters balance by the same case split.    *)
(***************************************************************************)
(* What occupies a slot is an expert, not the zero key. *)
Keyed == \A s \in Occupied : slots[s].key \in Key

TableInv == Inv /\ Keyed

LEMMA NextKeyed ==
    ASSUME Inv, Keyed, [CacheNext]_cacheVars
    PROVE  Keyed'
<1> SUFFICES ASSUME NEW a \in Slot, slots'[a].status # "empty"
             PROVE  slots'[a].key \in Key
    BY DEF Keyed, Occupied
<1> DEFINE Same == slots[a].status # "empty" /\ slots'[a].key = slots[a].key
<1>1. CacheTypeOK /\ (Same => slots'[a].key \in Key)
    BY DEF Keyed, Occupied, Inv
<1>2. ASSUME NEW k \in Key, Hit(k) PROVE slots'[a].key \in Key
  <2>1. PICK s \in Slot :
          slots' = [slots EXCEPT ![s] = [key |-> k, status |-> "in_use",
                        generation |-> slots[s].generation,
                        lease |-> serial + 1, last_use |-> serial + 1]]
    BY <1>1, <1>2, HitSlot
  <2>2. a # s => Same
    BY <1>1, <2>1 DEF CacheTypeOK
  <2>3. a = s => slots'[a].key = k
    BY <1>1, <2>1 DEF CacheTypeOK
  <2>4. QED
    BY <1>1, <2>2, <2>3
<1>3. ASSUME NEW k \in Key, Load(k) PROVE slots'[a].key \in Key
  <2>1. PICK s \in Slot :
          slots' = [slots EXCEPT ![s] = [key |-> k, status |-> "loading",
                        generation |-> slots[s].generation + 1,
                        lease |-> serial + 1, last_use |-> serial + 1]]
    BY <1>1, <1>3, LoadSlot
  <2>2. a # s => Same
    BY <1>1, <2>1 DEF CacheTypeOK
  <2>3. a = s => slots'[a].key = k
    BY <1>1, <2>1 DEF CacheTypeOK
  <2>4. QED
    BY <1>1, <2>2, <2>3
<1>4. ASSUME NEW t \in issued, NEW ok \in BOOLEAN, CompleteLoad(t, ok) PROVE Same
    BY <1>1, <1>4 DEF CompleteLoad, Checked, CacheTypeOK, SlotRecord
<1>5. ASSUME NEW t \in issued, Release(t) PROVE Same
    BY <1>1, <1>5 DEF Release, Checked, CacheTypeOK, SlotRecord
<1>6. CASE Clear
    BY <1>1, <1>6 DEF Clear, CacheTypeOK, SlotRecord
<1>7. CASE UNCHANGED cacheVars
    BY <1>1, <1>7 DEF cacheVars
<1>8. QED
    BY <1>1, <1>2, <1>3, <1>4, <1>5, <1>6, <1>7 DEF CacheNext

LEMMA TableInductive == CacheSpec => []TableInv
<1>1. CacheInit => TableInv
    BY InitType, InitOneSlot, InitClock, InitTickets DEF Inv, TableInv, CacheInit, Keyed, Occupied
<1>2. TableInv /\ [CacheNext]_cacheVars => TableInv'
    BY NextType, NextOneSlot, NextClock, NextTickets, NextKeyed DEF TableInv, Inv
<1>3. QED
    BY <1>1, <1>2, PTL DEF CacheSpec

-----------------------------------------------------------------------------
(* The abstract state of an expert is the status of the one slot it is in. *)
HeldSound ==
    \A k \in Key :
        /\ \A s \in Slot : Holds(s, k) => heldBar[k] = slots[s].status
        /\ (\A s \in Slot : ~Holds(s, k)) => heldBar[k] = "absent"

LEMMA HeldMeans == OneSlotPerKey => HeldSound
<1> SUFFICES ASSUME OneSlotPerKey, NEW k \in Key
             PROVE  /\ \A s \in Slot : Holds(s, k) => heldBar[k] = slots[s].status
                    /\ (\A s \in Slot : ~Holds(s, k)) => heldBar[k] = "absent"
    BY DEF HeldSound
<1>1. ASSUME NEW s \in Slot, Holds(s, k) PROVE heldBar[k] = slots[s].status
  <2>1. s = CHOOSE u \in Slot : Holds(u, k)
    BY <1>1 DEF OneSlotPerKey, Occupied, Holds
  <2>2. QED
    BY <1>1, <2>1 DEF heldBar
<1>2. (\A s \in Slot : ~Holds(s, k)) => heldBar[k] = "absent"
    BY DEF heldBar
<1>3. QED
    BY <1>1, <1>2

LEMMA HeldMeansNext == OneSlotPerKey' => HeldSound'
    BY HeldMeans, PTL

(* A step that writes one slot changes, in the abstract, at most the expert
   that was there and the one that is there now. *)
LEMMA HeldAfter ==
    ASSUME OneSlotPerKey, OneSlotPerKey', NEW s \in Slot,
           \A u \in Slot \ {s} : slots'[u] = slots[u]
    PROVE  /\ \A k \in Key : Holds(s, k)' => heldBar'[k] = slots'[s].status
           /\ \A k \in Key : Holds(s, k) /\ ~Holds(s, k)' => heldBar'[k] = "absent"
           /\ \A k \in Key : ~Holds(s, k) /\ ~Holds(s, k)' => heldBar'[k] = heldBar[k]
<1>1. HeldSound /\ HeldSound'
    BY HeldMeans, HeldMeansNext
<1>2. \A k \in Key : Holds(s, k)' => heldBar'[k] = slots'[s].status
    BY <1>1 DEF HeldSound
<1>3. ASSUME NEW k \in Key, ~Holds(s, k)' 
      PROVE  /\ Holds(s, k) => heldBar'[k] = "absent"
             /\ ~Holds(s, k) => heldBar'[k] = heldBar[k]
  <2>1. \A u \in Slot \ {s} : Holds(u, k)' <=> Holds(u, k)
    BY DEF Holds
  <2>2. CASE Holds(s, k)
    <3>1. \A u \in Slot : ~Holds(u, k)'
      BY <1>3, <2>1, <2>2 DEF OneSlotPerKey, Occupied, Holds
    <3>2. QED
      BY <1>1, <2>2, <3>1 DEF HeldSound
  <2>3. CASE ~Holds(s, k)
    <3>1. CASE \E u \in Slot \ {s} : Holds(u, k)
      <4>1. PICK u \in Slot \ {s} : Holds(u, k)
        BY <3>1
      <4>2. Holds(u, k)' /\ slots'[u].status = slots[u].status
        BY <2>1, <4>1
      <4>3. heldBar[k] = slots[u].status /\ heldBar'[k] = slots'[u].status
        BY <1>1, <4>1, <4>2 DEF HeldSound
      <4>4. QED
        BY <2>3, <4>2, <4>3
    <3>2. CASE \A u \in Slot \ {s} : ~Holds(u, k)
      <4>1. (\A u \in Slot : ~Holds(u, k)) /\ \A u \in Slot : ~Holds(u, k)'
        BY <1>3, <2>1, <2>3, <3>2
      <4>2. QED
        BY <1>1, <2>3, <4>1 DEF HeldSound
    <3>3. QED
      BY <3>1, <3>2
  <2>4. QED
    BY <2>2, <2>3
<1>4. QED
    BY <1>2, <1>3

(* The slot a step touches holds the youngest expert; the others keep their
   order. *)
LEMMA OlderAfter ==
    ASSUME Inv, OneSlotPerKey', NEW s \in Slot, NEW k \in Key, serial' = serial + 1,
           slots'[s].key = k, slots'[s].status # "empty", slots'[s].last_use = serial',
           \A u \in Slot \ {s} : slots'[u] = slots[u]
    PROVE  olderBar' = {p \in Key \X Key :
               \/ p[2] = k /\ \E u \in Slot \ {s} : Holds(u, p[1])
               \/ \E u, v \in Slot \ {s} : /\ Holds(u, p[1]) /\ Holds(v, p[2])
                                           /\ slots[u].last_use < slots[v].last_use}
<1>1. \A u \in Slot : slots[u].last_use < serial' /\ slots[u].last_use \in Nat
  <2>1. \A u \in Slot : slots[u].last_use <= serial /\ slots[u].last_use \in Nat
    BY DEF Inv, ClockSound, CacheTypeOK, SlotRecord
  <2>2. serial \in Nat
    BY SerialAssumption DEF Inv, CacheTypeOK
  <2>3. QED
    BY <2>1, <2>2
<1>2. \A u \in Slot \ {s}, j \in Key : Holds(u, j)' <=> Holds(u, j)
    BY DEF Holds
<1>3. \A j \in Key : Holds(s, j)' <=> j = k
    BY DEF Holds
<1>4. ASSUME NEW p \in Key \X Key
      PROVE  (\E u, v \in Slot : /\ Holds(u, p[1])' /\ Holds(v, p[2])'
                                 /\ slots'[u].last_use < slots'[v].last_use)
             <=> \/ p[2] = k /\ \E u \in Slot \ {s} : Holds(u, p[1])
                 \/ \E u, v \in Slot \ {s} : /\ Holds(u, p[1]) /\ Holds(v, p[2])
                                             /\ slots[u].last_use < slots[v].last_use
  <2>1. ASSUME NEW u \in Slot, NEW v \in Slot, Holds(u, p[1])', Holds(v, p[2])',
               slots'[u].last_use < slots'[v].last_use
        PROVE  \/ p[2] = k /\ \E x \in Slot \ {s} : Holds(x, p[1])
               \/ \E x, y \in Slot \ {s} : /\ Holds(x, p[1]) /\ Holds(y, p[2])
                                           /\ slots[x].last_use < slots[y].last_use
    <3>1. u # s
      <4>1. slots'[v].last_use <= serial' /\ slots'[v].last_use \in Int /\ serial' \in Int
        <5>1. serial' \in Int
          BY SerialAssumption DEF Inv, CacheTypeOK
        <5>2. QED
          BY <1>1, <5>1
      <4>2. QED
        BY <2>1, <4>1
    <3>2. CASE v = s
      BY <1>2, <1>3, <2>1, <3>1, <3>2
    <3>3. CASE v # s
      BY <1>2, <2>1, <3>1, <3>3
    <3>4. QED
      BY <3>2, <3>3
  <2>2. ASSUME NEW u \in Slot \ {s}, p[2] = k, Holds(u, p[1])
        PROVE  \E x, y \in Slot : /\ Holds(x, p[1])' /\ Holds(y, p[2])'
                                  /\ slots'[x].last_use < slots'[y].last_use
    BY <1>1, <1>2, <1>3, <2>2
  <2>3. ASSUME NEW u \in Slot \ {s}, NEW v \in Slot \ {s}, Holds(u, p[1]), Holds(v, p[2]),
               slots[u].last_use < slots[v].last_use
        PROVE  \E x, y \in Slot : /\ Holds(x, p[1])' /\ Holds(y, p[2])'
                                  /\ slots'[x].last_use < slots'[y].last_use
    BY <1>2, <2>3
  <2>4. QED
    BY <2>1, <2>2, <2>3
<1>5. QED
    BY <1>4 DEF olderBar

(* ExpertLru's Cardinality is this module's. *)
LEMMA SameCount == \A S : Lru!Cardinality(S) = Cardinality(S)
    BY DEF Cardinality, Lru!Cardinality

(* There are Capacity slots. *)
LEMMA SlotCount == IsFiniteSet(Slot) /\ Cardinality(Slot) = Capacity
<1> DEFINE n == Capacity
<1>1. 1 \in Int /\ n \in Int /\ ~(1 > n) /\ n - 1 + 1 = n
    BY CapacityAssumption
<1> HIDE DEF n
<1>2. IsFiniteSet(1..n) /\ Cardinality(1..n) = IF 1 > n THEN 0 ELSE n - 1 + 1
    BY <1>1, FS_Interval
<1>3. IsFiniteSet(1..n) /\ Cardinality(1..n) = n
    BY <1>1, <1>2
<1>4. QED
    BY <1>3 DEF Slot, n

(* As many experts are held as slots are occupied: keys tell slots apart. *)
LEMMA HeldCount ==
    ASSUME TableInv
    PROVE  /\ IsFiniteSet(Occupied) /\ IsFiniteSet(Slot) /\ Cardinality(Slot) = Capacity
           /\ Cardinality(Lru!Held) = Cardinality(Occupied)
<1>1. IsFiniteSet(Slot) /\ Cardinality(Slot) = Capacity
    BY SlotCount
<1>2. IsFiniteSet(Occupied)
    BY <1>1, FS_Subset DEF Occupied
<1>3. \A k \in Key : k \in Lru!Held <=> \E s \in Slot : Holds(s, k)
  <2>1. HeldSound
    BY HeldMeans DEF TableInv, Inv
  <2>2. \A s \in Slot : slots[s].status # "absent"
    BY DEF TableInv, Inv, CacheTypeOK, SlotRecord, Status
  <2>3. QED
    BY <2>1, <2>2 DEF Lru!Held, HeldSound
<1> DEFINE f == [s \in Occupied |-> slots[s].key]
<1>4. f \in Bijection(Occupied, Lru!Held)
  <2>1. \A s \in Occupied : f[s] \in Lru!Held
    BY <1>3 DEF TableInv, Keyed, Occupied, Holds
  <2>2. \A s, t \in Occupied : f[s] = f[t] => s = t
    BY DEF TableInv, Inv, OneSlotPerKey, Occupied, Holds
  <2>3. \A k \in Lru!Held : \E s \in Occupied : f[s] = k
    BY <1>3 DEF Lru!Held, Occupied, Holds
  <2>4. QED
    BY <2>1, <2>2, <2>3 DEF Bijection, Injection, Surjection, IsInjective
<1>5. QED
    BY <1>1, <1>2, <1>4, FS_Bijection DEF ExistsBijection

LEMMA AbsentKey ==
    ASSUME OneSlotPerKey, NEW k \in Key, Answer(k, FALSE) = "load"
    PROVE  heldBar[k] = "absent" /\ \A s \in Slot : ~Holds(s, k)
<1>1. \A s \in Slot : ~Holds(s, k)
    BY DEF Answer
<1>2. QED
    BY <1>1, HeldMeans DEF HeldSound

-----------------------------------------------------------------------------
(* Acquire, the resident case: Pin. *)
LEMMA HitPins ==
    ASSUME TableInv, TableInv', NEW k \in Key, Hit(k)
    PROVE  Lru!Pin(k)
<1> USE DEF TableInv
<1>1. PICK s \in Slot :
        /\ Holds(s, k)
        /\ slots' = [slots EXCEPT ![s] = [key |-> k, status |-> "in_use",
                        generation |-> slots[s].generation,
                        lease |-> serial + 1, last_use |-> serial + 1]]
    BY HitSlot DEF Inv
<1>2. slots[s].status = "ready" /\ slots[s].key = k
    BY <1>1, HitReady DEF Inv, Holds
<1>3. /\ slots'[s] = [key |-> k, status |-> "in_use",
                      generation |-> slots[s].generation,
                      lease |-> serial + 1, last_use |-> serial + 1]
      /\ \A u \in Slot \ {s} : slots'[u] = slots[u]
      /\ serial' = serial + 1
    BY <1>1 DEF Inv, CacheTypeOK, Hit
<1>4. /\ heldBar[k] = "ready" /\ heldBar' = [heldBar EXCEPT ![k] = "in_use"]
  <2>1. heldBar[k] = "ready"
    BY <1>1, <1>2, HeldMeans DEF HeldSound, Inv
  <2>2. \A j \in Key : heldBar'[j] = IF j = k THEN "in_use" ELSE heldBar[j]
    BY <1>2, <1>3, HeldAfter DEF Inv, Holds
  <2>3. QED
    BY <2>1, <2>2 DEF heldBar
<1>5. olderBar' = Lru!Touch(olderBar, Lru!Held, k)
  <2>1. olderBar' = {p \in Key \X Key :
               \/ p[2] = k /\ \E u \in Slot \ {s} : Holds(u, p[1])
               \/ \E u, v \in Slot \ {s} : /\ Holds(u, p[1]) /\ Holds(v, p[2])
                                           /\ slots[u].last_use < slots[v].last_use}
    BY <1>3, OlderAfter DEF Inv
  <2>2. \A j \in Key, u \in Slot : Holds(u, j) => (u = s <=> j = k)
    BY <1>1, <1>2 DEF Inv, OneSlotPerKey, Occupied, Holds
  <2>3. \A j \in Key : j \in Lru!Held <=> \E u \in Slot : Holds(u, j)
    BY HeldMeans DEF HeldSound, Inv, Lru!Held, CacheTypeOK, SlotRecord, Status
  <2>4. QED
    BY <2>1, <2>2, <2>3 DEF olderBar, Lru!Touch, Lru!Without, Lru!Held
<1>6. QED
    BY <1>4, <1>5 DEF Lru!Pin

(* Acquire of an expert that is not held: Reserve while a slot is empty, and
   Replace of the expert least recently touched when none is. *)
LEMMA LoadReplaces ==
    ASSUME TableInv, TableInv', NEW k \in Key, Load(k)
    PROVE  Lru!Reserve(k) \/ \E v \in Key : Lru!Replace(v, k)
<1> USE DEF TableInv
<1>1. PICK s \in Slot :
        /\ Victim(s)
        /\ slots' = [slots EXCEPT ![s] = [key |-> k, status |-> "loading",
                        generation |-> slots[s].generation + 1,
                        lease |-> serial + 1, last_use |-> serial + 1]]
    BY DEF Load
<1>2. /\ slots'[s] = [key |-> k, status |-> "loading",
                      generation |-> slots[s].generation + 1,
                      lease |-> serial + 1, last_use |-> serial + 1]
      /\ \A u \in Slot \ {s} : slots'[u] = slots[u]
      /\ serial' = serial + 1
    BY <1>1 DEF Inv, CacheTypeOK, Load
<1>3. heldBar[k] = "absent" /\ \A u \in Slot : ~Holds(u, k)
    BY AbsentKey DEF Load, Inv
<1>4. olderBar' = {p \in Key \X Key :
               \/ p[2] = k /\ \E u \in Slot \ {s} : Holds(u, p[1])
               \/ \E u, v \in Slot \ {s} : /\ Holds(u, p[1]) /\ Holds(v, p[2])
                                           /\ slots[u].last_use < slots[v].last_use}
    BY <1>2, OlderAfter DEF Inv
<1>5. \A j \in Key : j \in Lru!Held <=> \E u \in Slot : Holds(u, j)
    BY HeldMeans DEF HeldSound, Inv, Lru!Held, CacheTypeOK, SlotRecord, Status
<1>6. /\ IsFiniteSet(Slot) /\ Cardinality(Slot) = Capacity
      /\ Lru!Cardinality(Lru!Held) = Cardinality(Occupied)
    BY HeldCount, SameCount
<1>7. CASE slots[s].status = "empty"
  <2>1. Cardinality(Occupied) < Capacity
    <3>1. Occupied \in SUBSET Slot /\ Occupied # Slot
      BY <1>7 DEF Occupied
    <3>2. Cardinality(Occupied) <= Cardinality(Slot) /\ Cardinality(Occupied) # Cardinality(Slot)
      BY <1>6, <3>1, FS_Subset
    <3>3. Cardinality(Occupied) \in Nat /\ Cardinality(Slot) \in Nat
      BY <1>6, HeldCount, FS_CardinalityType
    <3>4. QED
      BY <1>6, <3>2, <3>3
  <2>2. heldBar' = [heldBar EXCEPT ![k] = "loading"]
    <3>1. \A j \in Key : heldBar'[j] = IF j = k THEN "loading" ELSE heldBar[j]
      BY <1>2, <1>7, HeldAfter DEF Inv, Holds
    <3>2. QED
      BY <3>1 DEF heldBar
  <2>3. \A j \in Key : ~Holds(s, j)
    BY <1>7 DEF Holds
  <2>4. olderBar' = Lru!Touch(olderBar, Lru!Held, k)
    BY <1>3, <1>4, <1>5, <2>3 DEF olderBar, Lru!Touch, Lru!Without, Lru!Held
  <2>5. Lru!Reserve(k)
    BY <1>3, <1>6, <2>1, <2>2, <2>4 DEF Lru!Reserve
  <2>6. QED
    BY <2>5
<1>8. CASE slots[s].status = "ready"
  <2> DEFINE v == slots[s].key
  <2> \A t \in Slot : slots[t].last_use \in Nat
    BY DEF Inv, CacheTypeOK, SlotRecord
  <2>1. /\ StatusOf("empty") = {} /\ s \in Occupied
        /\ \A t \in StatusOf("ready") \ {s} : slots[s].last_use <= slots[t].last_use
    BY <1>1, <1>8 DEF Victim, Occupied, StatusOf
  <2>2. v \in Key /\ Holds(s, v) /\ v # k
    BY <1>3, <2>1 DEF Keyed, Occupied, Holds
  <2>3. \A j \in Key, u \in Slot : Holds(u, j) => (u = s <=> j = v)
    BY <2>2 DEF Inv, OneSlotPerKey, Occupied, Holds
  <2>4. heldBar[v] = "ready"
    BY <1>8, <2>2, HeldMeans DEF HeldSound, Inv
  <2>5. Lru!Cardinality(Lru!Held) = Capacity
    <3>1. Occupied = Slot
      BY <2>1 DEF Occupied, StatusOf
    <3>2. QED
      BY <1>6, <3>1
  <2>6. heldBar' = [heldBar EXCEPT ![v] = "absent", ![k] = "loading"]
    <3>1. \A j \in Key : heldBar'[j] = IF j = k THEN "loading"
                                       ELSE IF j = v THEN "absent" ELSE heldBar[j]
      BY <1>2, <1>8, <2>2, HeldAfter DEF Inv, Holds
    <3>2. QED
      BY <3>1 DEF heldBar
  <2>7. ASSUME NEW w \in Lru!Ready \ {v} PROVE <<v, w>> \in olderBar
    <3>1. w \in Key /\ heldBar[w] = "ready" /\ w # v
      BY <2>7 DEF Lru!Ready
    <3>2. PICK t \in Slot : Holds(t, w) /\ slots[t].status = "ready"
      BY <3>1, HeldMeans DEF HeldSound, Inv
    <3>3. t # s
      BY <2>2, <3>1, <3>2 DEF Holds
    <3>4. t \in Occupied /\ t \in StatusOf("ready") \ {s}
      BY <3>2, <3>3 DEF Occupied, StatusOf
    <3>5. slots[s].last_use # slots[t].last_use
      BY <2>1, <3>3, <3>4 DEF Inv, ClockSound
    <3>6. slots[s].last_use < slots[t].last_use
      BY <2>1, <3>4, <3>5
    <3>7. QED
      BY <2>2, <3>1, <3>2, <3>6 DEF olderBar
  <2>8. olderBar' = Lru!Touch(Lru!Without(olderBar, v), Lru!Held \ {v}, k)
    BY <1>3, <1>4, <1>5, <2>2, <2>3 DEF olderBar, Lru!Touch, Lru!Without, Lru!Held
  <2>9. Lru!Replace(v, k)
    BY <1>3, <2>4, <2>5, <2>6, <2>7, <2>8 DEF Lru!Replace
  <2>10. QED
    BY <2>2, <2>9
<1>9. QED
    BY <1>1, <1>7, <1>8 DEF Victim

(* The transfer succeeded, or its slot is given back. *)
LEMMA CompletesLoad ==
    ASSUME TableInv, TableInv', NEW t \in issued, NEW ok \in BOOLEAN, CompleteLoad(t, ok)
    PROVE  \E k \in Key : Lru!Loaded(k) \/ Lru!LoadFailed(k)
<1> USE DEF TableInv
<1> DEFINE s == t.slot
           k == slots[s].key
<1>1. s \in Slot /\ slots \in [Slot -> SlotRecord] /\ slots[s].status = "loading"
    BY DEF Inv, CacheTypeOK, Ticket, CompleteLoad, Checked
<1>2. /\ slots' = [slots EXCEPT ![s].status = IF ok THEN "in_use" ELSE "empty"]
    BY DEF CompleteLoad
<1>3. /\ slots'[s].status = (IF ok THEN "in_use" ELSE "empty") /\ slots'[s].key = k
      /\ slots'[s].last_use = slots[s].last_use
      /\ \A u \in Slot \ {s} : slots'[u] = slots[u]
    BY <1>1, <1>2 DEF SlotRecord
<1>4. k \in Key /\ Holds(s, k)
    BY <1>1 DEF Keyed, Occupied, Holds
<1>5. \A j \in Key, u \in Slot : Holds(u, j) => (u = s <=> j = k)
    BY <1>1, <1>4 DEF Inv, OneSlotPerKey, Occupied, Holds
<1>6. heldBar[k] = "loading"
    BY <1>1, <1>4, HeldMeans DEF HeldSound, Inv
<1> HIDE DEF k, s
<1>7. CASE ok
  <2>1. \A j \in Key : heldBar'[j] = IF j = k THEN "in_use" ELSE heldBar[j]
    <3>1. \A j \in Key : Holds(s, j)' <=> j = k
      BY <1>3, <1>7 DEF Holds
    <3>2. \A j \in Key : Holds(s, j) <=> j = k
      BY <1>1, <1>4, <1>5
    <3>3. QED
      BY <1>1, <1>3, <1>7, <3>1, <3>2, HeldAfter DEF Inv
  <2>2. heldBar' = [heldBar EXCEPT ![k] = "in_use"]
    BY <2>1 DEF heldBar
  <2>3. \A u \in Slot, j \in Key : /\ Holds(u, j)' <=> Holds(u, j)
                                   /\ slots'[u].last_use = slots[u].last_use
    <3>1. TAKE u \in Slot, j \in Key
    <3>2. CASE u = s
      BY <1>1, <1>3, <1>4, <1>7, <3>2 DEF Holds
    <3>3. CASE u # s
      BY <1>3, <3>3 DEF Holds
    <3>4. QED
      BY <3>2, <3>3
  <2>4. olderBar' = olderBar
    BY <2>3 DEF olderBar
  <2>5. QED
    BY <1>4, <1>6, <2>2, <2>4 DEF Lru!Loaded
<1>8. CASE ~ok
  <2>1. \A j \in Key : ~Holds(s, j)'
    BY <1>3, <1>8 DEF Holds
  <2>2. \A j \in Key : Holds(s, j) <=> j = k
    BY <1>1, <1>4, <1>5
  <2>3. \A j \in Key : heldBar'[j] = IF j = k THEN "absent" ELSE heldBar[j]
    BY <1>1, <1>3, <2>1, <2>2, HeldAfter DEF Inv
  <2>4. heldBar' = [heldBar EXCEPT ![k] = "absent"]
    BY <2>3 DEF heldBar
  <2>5. \A u \in Slot, j \in Key : /\ Holds(u, j)' <=> Holds(u, j) /\ u # s
                                   /\ u # s => slots'[u].last_use = slots[u].last_use
    BY <1>3, <2>1 DEF Holds
  <2>6. olderBar' = Lru!Without(olderBar, k)
    BY <1>5, <2>5 DEF olderBar, Lru!Without
  <2>7. QED
    BY <1>4, <1>6, <2>4, <2>6 DEF Lru!LoadFailed
<1>9. QED
    BY <1>7, <1>8

(* Release: Unpin. *)
LEMMA ReleaseUnpins ==
    ASSUME TableInv, TableInv', NEW t \in issued, Release(t)
    PROVE  \E k \in Key : Lru!Unpin(k)
<1> USE DEF TableInv
<1> DEFINE s == t.slot
           k == slots[s].key
<1>1. s \in Slot /\ slots \in [Slot -> SlotRecord] /\ slots[s].status = "in_use"
    BY DEF Inv, CacheTypeOK, Ticket, Release, Checked
<1>2. slots' = [slots EXCEPT ![s] = [slots[s] EXCEPT !.status = "ready", !.last_use = serial']]
    BY DEF Release
<1>3. /\ slots'[s].status = "ready" /\ slots'[s].key = k /\ slots'[s].last_use = serial'
      /\ \A u \in Slot \ {s} : slots'[u] = slots[u]
      /\ serial' = serial + 1
    BY <1>1, <1>2 DEF SlotRecord, Release
<1>4. k \in Key /\ Holds(s, k)
    BY <1>1 DEF Keyed, Occupied, Holds
<1>5. \A j \in Key, u \in Slot : Holds(u, j) => (u = s <=> j = k)
    BY <1>1, <1>4 DEF Inv, OneSlotPerKey, Occupied, Holds
<1>6. heldBar[k] = "in_use"
    BY <1>1, <1>4, HeldMeans DEF HeldSound, Inv
<1> HIDE DEF k, s
<1>7. heldBar' = [heldBar EXCEPT ![k] = "ready"]
  <2>1. \A j \in Key : (Holds(s, j)' <=> j = k) /\ (Holds(s, j) <=> j = k)
    BY <1>1, <1>3, <1>4, <1>5 DEF Holds
  <2>2. \A j \in Key : heldBar'[j] = IF j = k THEN "ready" ELSE heldBar[j]
    BY <1>1, <1>3, <2>1, HeldAfter DEF Inv
  <2>3. QED
    BY <2>2 DEF heldBar
<1>8. olderBar' = Lru!Touch(olderBar, Lru!Held, k)
  <2>1. olderBar' = {p \in Key \X Key :
               \/ p[2] = k /\ \E u \in Slot \ {s} : Holds(u, p[1])
               \/ \E u, v \in Slot \ {s} : /\ Holds(u, p[1]) /\ Holds(v, p[2])
                                           /\ slots[u].last_use < slots[v].last_use}
    BY <1>1, <1>3, <1>4, OlderAfter DEF Inv
  <2>2. \A j \in Key : j \in Lru!Held <=> \E u \in Slot : Holds(u, j)
    BY HeldMeans DEF HeldSound, Inv, Lru!Held, CacheTypeOK, SlotRecord, Status
  <2>3. QED
    BY <1>1, <1>4, <1>5, <2>1, <2>2 DEF olderBar, Lru!Touch, Lru!Without, Lru!Held
<1>9. QED
    BY <1>4, <1>6, <1>7, <1>8 DEF Lru!Unpin

LEMMA ClearClears ==
    ASSUME TableInv, TableInv', Clear
    PROVE  Lru!Clear
<1>1. \A s \in Slot : slots'[s].status = "empty" /\ slots[s].status \in {"empty", "ready"}
    BY DEF Clear, TableInv, Inv, CacheTypeOK, SlotRecord, Status, Pinned
<1>2. \A s \in Slot, k \in Key : ~Holds(s, k)'
    BY <1>1 DEF Holds
<1>3. heldBar' = [k \in Key |-> "absent"] /\ olderBar' = {}
    BY <1>2 DEF heldBar, olderBar
<1>4. Lru!Held = Lru!Ready
  <2>1. \A k \in Key : heldBar[k] \in {"absent", "ready"}
    BY <1>1, HeldMeans DEF HeldSound, TableInv, Inv, Holds
  <2>2. QED
    BY <2>1 DEF Lru!Held, Lru!Ready
<1>5. QED
    BY <1>3, <1>4 DEF Lru!Clear

-----------------------------------------------------------------------------
(* Every step of the slot table is a step of the abstract cache or none. *)
LEMMA StepRefines ==
    ASSUME TableInv, TableInv', [CacheNext]_cacheVars
    PROVE  [Lru!Next]_(Lru!vars)
<1>1. ASSUME NEW k \in Key, Hit(k) PROVE Lru!Next
    BY <1>1, HitPins DEF Lru!Next
<1>2. ASSUME NEW k \in Key, Load(k) PROVE Lru!Next
    BY <1>2, LoadReplaces DEF Lru!Next
<1>3. ASSUME NEW t \in issued, NEW ok \in BOOLEAN, CompleteLoad(t, ok) PROVE Lru!Next
    BY <1>3, CompletesLoad DEF Lru!Next
<1>4. ASSUME NEW t \in issued, Release(t) PROVE Lru!Next
    BY <1>4, ReleaseUnpins DEF Lru!Next
<1>5. CASE Clear
    BY <1>5, ClearClears DEF Lru!Next
<1>6. CASE UNCHANGED cacheVars
    BY <1>6 DEF cacheVars, Lru!vars, heldBar, olderBar, Holds
<1>7. QED
    BY <1>1, <1>2, <1>3, <1>4, <1>5, <1>6 DEF CacheNext

(* Slots, serial numbers and tickets implement an LRU cache of Capacity
   experts that evicts none while it is loading or in use. *)
THEOREM SlotTableImplementsLru == CacheSpec => ImplementsLru
<1>1. CacheInit => Lru!Init
  <2> SUFFICES ASSUME CacheInit PROVE Lru!Init
      OBVIOUS
  <2>1. \A s \in Slot, k \in Key : ~Holds(s, k)
    BY DEF CacheInit, Holds
  <2>2. QED
    BY <2>1 DEF Lru!Init, heldBar, olderBar
<1>2. TableInv /\ TableInv' /\ [CacheNext]_cacheVars => [Lru!Next]_(Lru!vars)
    BY StepRefines
<1>3. QED
    BY <1>1, <1>2, TableInductive, PTL DEF CacheSpec, ImplementsLru, Lru!Spec

-----------------------------------------------------------------------------
(* The counters. Sets of slots are finite, and a step that writes slot s adds
   at most s to those loading and to those occupied, or takes it out. *)
LEMMA SlotSets ==
    ASSUME NEW S \in SUBSET Slot
    PROVE  /\ IsFiniteSet(S) /\ Cardinality(S) \in Nat
           /\ \A s \in Slot \ S : Cardinality(S \union {s}) = Cardinality(S) + 1
           /\ \A s \in S : Cardinality(S \ {s}) = Cardinality(S) - 1
<1>1. IsFiniteSet(Slot)
    BY SlotCount
<1>2. IsFiniteSet(S)
    BY <1>1, FS_Subset
<1>3. QED
    BY <1>2, FS_CardinalityType, FS_AddElement, FS_RemoveElement

LEMMA NextBalance ==
    ASSUME Inv, StatsBalance, [CacheNext]_cacheVars
    PROVE  StatsBalance'
<1> DEFINE L == StatusOf("loading")
           O == Occupied
<1>1. L \in SUBSET Slot /\ O \in SUBSET Slot /\ Cardinality(L) \in Nat /\ Cardinality(O) \in Nat
    BY SlotSets DEF StatusOf, Occupied
<1>2. /\ stats.loads \in Nat /\ stats.completed \in Nat /\ stats.failed \in Nat
      /\ stats.evictions \in Nat
    BY DEF Inv, CacheTypeOK, Stats
<1>3. slots \in [Slot -> SlotRecord] /\ stats \in Stats
    BY DEF Inv, CacheTypeOK
<1>4. ASSUME L' = L, O' = O, stats' = stats \/ stats' = [stats EXCEPT !.hits = @ + 1]
      PROVE  StatsBalance'
    BY <1>3, <1>4 DEF StatsBalance, Stats
<1>5. ASSUME NEW k \in Key, Hit(k) PROVE StatsBalance'
  <2>1. PICK s \in Slot :
          /\ Holds(s, k)
          /\ slots' = [slots EXCEPT ![s] = [key |-> k, status |-> "in_use",
                          generation |-> slots[s].generation,
                          lease |-> serial + 1, last_use |-> serial + 1]]
    BY <1>5, HitSlot DEF Inv
  <2>2. slots[s].status = "ready"
    BY <1>5, <2>1, HitReady DEF Inv
  <2>3. L' = L /\ O' = O
    BY <1>3, <2>1, <2>2 DEF StatusOf, Occupied
  <2>4. QED
    BY <1>4, <1>5, <2>3 DEF Hit
<1>6. ASSUME NEW k \in Key, Load(k) PROVE StatsBalance'
  <2>1. PICK s \in Slot :
          /\ slots[s].status \notin Pinned
          /\ slots' = [slots EXCEPT ![s] = [key |-> k, status |-> "loading",
                          generation |-> slots[s].generation + 1,
                          lease |-> serial + 1, last_use |-> serial + 1]]
          /\ stats' = [stats EXCEPT !.loads = @ + 1,
                          !.evictions = IF slots[s].status = "ready" THEN @ + 1 ELSE @]
    BY <1>6, LoadSlot DEF Inv
  <2>2. slots[s].status \in {"empty", "ready"}
    BY <1>3, <2>1 DEF SlotRecord, Status, Pinned
  <2>3. L' = L \union {s} /\ s \notin L
    BY <1>3, <2>1, <2>2 DEF StatusOf
  <2>4. Cardinality(L') = Cardinality(L) + 1
    BY <1>1, <2>3, SlotSets
  <2>5. /\ stats'.loads = stats.loads + 1
        /\ stats'.completed = stats.completed /\ stats'.failed = stats.failed
        /\ stats'.evictions = IF slots[s].status = "ready" THEN stats.evictions + 1
                              ELSE stats.evictions
    BY <1>3, <2>1 DEF Stats
  <2>6. CASE slots[s].status = "ready"
    <3>1. O' = O
      BY <1>3, <2>1, <2>6 DEF Occupied
    <3>2. QED
      BY <1>1, <1>2, <2>4, <2>5, <2>6, <3>1 DEF StatsBalance
  <2>7. CASE slots[s].status = "empty"
    <3>1. O' = O \union {s} /\ s \notin O
      BY <1>3, <2>1, <2>7 DEF Occupied
    <3>2. Cardinality(O') = Cardinality(O) + 1
      BY <1>1, <3>1, SlotSets
    <3>3. QED
      BY <1>1, <1>2, <2>4, <2>5, <2>7, <3>2 DEF StatsBalance
  <2>8. QED
    BY <2>2, <2>6, <2>7
<1>7. ASSUME NEW t \in issued, NEW ok \in BOOLEAN, CompleteLoad(t, ok) PROVE StatsBalance'
  <2> DEFINE s == t.slot
  <2>1. s \in Slot /\ slots[s].status = "loading"
    BY <1>7 DEF Inv, CacheTypeOK, Ticket, CompleteLoad, Checked
  <2>2. slots' = [slots EXCEPT ![s].status = IF ok THEN "in_use" ELSE "empty"]
    BY <1>7 DEF CompleteLoad
  <2>3. /\ slots'[s].status = IF ok THEN "in_use" ELSE "empty"
        /\ \A u \in Slot \ {s} : slots'[u] = slots[u]
    BY <1>3, <2>1, <2>2 DEF SlotRecord
  <2> HIDE DEF s
  <2>4. L' = L \ {s} /\ s \in L
    BY <2>1, <2>3 DEF StatusOf
  <2>5. Cardinality(L') = Cardinality(L) - 1
    BY <1>1, <2>4, SlotSets
  <2>6. CASE ok
    <3>1. /\ stats'.loads = stats.loads /\ stats'.completed = stats.completed + 1
          /\ stats'.failed = stats.failed /\ stats'.evictions = stats.evictions
      BY <1>3, <1>7, <2>6 DEF CompleteLoad, Stats
    <3>2. O' = O
      BY <2>1, <2>3, <2>6 DEF Occupied
    <3>3. QED
      BY <1>1, <1>2, <2>5, <3>1, <3>2 DEF StatsBalance
  <2>7. CASE ~ok
    <3>1. /\ stats'.loads = stats.loads /\ stats'.completed = stats.completed
          /\ stats'.failed = stats.failed + 1 /\ stats'.evictions = stats.evictions
      BY <1>3, <1>7, <2>7 DEF CompleteLoad, Stats
    <3>2. O' = O \ {s} /\ s \in O
      BY <2>1, <2>3, <2>7 DEF Occupied
    <3>3. Cardinality(O') = Cardinality(O) - 1
      BY <1>1, <3>2, SlotSets
    <3>4. QED
      BY <1>1, <1>2, <2>5, <3>1, <3>3 DEF StatsBalance
  <2>8. QED
    BY <2>6, <2>7
<1>8. ASSUME NEW t \in issued, Release(t) PROVE StatsBalance'
  <2>1. t.slot \in Slot /\ slots[t.slot].status = "in_use"
    BY <1>8 DEF Inv, CacheTypeOK, Ticket, Release, Checked
  <2>2. slots' = [slots EXCEPT ![t.slot] = [slots[t.slot] EXCEPT
                    !.status = "ready", !.last_use = serial']]
    BY <1>8 DEF Release
  <2>3. slots'[t.slot].status = "ready" /\ \A u \in Slot \ {t.slot} : slots'[u] = slots[u]
    BY <1>3, <2>1, <2>2 DEF SlotRecord
  <2>4. L' = L /\ O' = O
    BY <2>1, <2>3 DEF StatusOf, Occupied
  <2>5. QED
    BY <1>4, <1>8, <2>4 DEF Release
<1>9. CASE Clear
  <2>1. \A s \in Slot : slots'[s].status = "empty" /\ slots[s].status # "loading"
    BY <1>3, <1>9 DEF Clear, SlotRecord, Pinned
  <2>2. L' = {} /\ L = {} /\ O' = {}
    BY <2>1 DEF StatusOf, Occupied
  <2>3. Cardinality(L') = 0 /\ Cardinality(L) = 0 /\ Cardinality(O') = 0
    BY <2>2, FS_EmptySet
  <2>4. stats' = stats
    BY <1>9 DEF Clear
  <2>5. QED
    BY <1>1, <1>2, <2>3, <2>4 DEF StatsBalance
<1>10. CASE UNCHANGED cacheVars
    BY <1>4, <1>10 DEF cacheVars, StatusOf, Occupied
<1>11. QED
    BY <1>5, <1>6, <1>7, <1>8, <1>9, <1>10 DEF CacheNext

(* The counters account for every load: completed, failed or in flight, and
   what is held never exceeds what was loaded and not given up. *)
THEOREM CountersBalance == CacheSpec => []StatsBalance
<1>1. CacheInit => StatsBalance
  <2> SUFFICES ASSUME CacheInit PROVE StatsBalance
      OBVIOUS
  <2>1. StatusOf("loading") = {} /\ Occupied = {}
    BY DEF CacheInit, StatusOf, Occupied
  <2>2. Cardinality(StatusOf("loading")) = 0 /\ Cardinality(Occupied) = 0
    BY <2>1, FS_EmptySet
  <2>3. QED
    BY <2>2 DEF CacheInit, StatsBalance
<1>2. Inv /\ StatsBalance /\ [CacheNext]_cacheVars => StatsBalance'
    BY NextBalance
<1>3. QED
    BY <1>1, <1>2, InductiveInvariant, PTL DEF CacheSpec
-----------------------------------------------------------------------------
(***************************************************************************)
(* The storage.  The device runs behind the host, so nothing can be said   *)
(* of an arena without the work still queued: the invariant ties every     *)
(* queued copy to the load under way and every queued kernel to a pinned   *)
(* slot, and follows each chunk of that load from the queue into it.       *)
(***************************************************************************)

(* The load under way holds the one live ticket of the one loading slot. *)
LoadOwnsSlot ==
    /\ load # Idle => /\ load.ticket \in issued
                      /\ Checked(load.ticket, "loading")
                      /\ slots[load.ticket.slot].key = load.ticket.key
    /\ \A s \in Slot : slots[s].status = "loading" => load # Idle /\ s = load.ticket.slot

(* A queued copy is part of that load, and out of staging it is the last one
   submitted; a queued kernel reads the expert its slot is in use for. *)
CopySound(w) ==
    /\ load # Idle
    /\ w.slot = load.ticket.slot
    /\ w.src = <<load.ticket.key, w.chunk>>
    /\ Staged => load.step = "drain" /\ staging = w.src

KernelSound(w) == slots[w.slot].status = "in_use" /\ slots[w.slot].key = w.key

QueueSound ==
    \A i \in 1..Len(stream) :
        IF stream[i].op = "copy" THEN CopySound(stream[i]) ELSE KernelSound(stream[i])

(* What was submitted of the load has arrived or is still queued. *)
Sent(c) == \/ c < load.chunk
           \/ c = load.chunk /\ load.step \in {"drain", "finish"}
Arrived(c) == arena[load.ticket.slot][c] = <<load.ticket.key, c>>
InFlight(c) == \E i \in 1..Len(stream) : stream[i].op = "copy" /\ stream[i].chunk = c

SentArrives ==
    load # Idle => /\ \A c \in Chunk : Sent(c) => Arrived(c) \/ InFlight(c)
                   /\ load.step = "finish" => load.chunk = Chunks

StorageInv == Inv /\ TypeOK /\ LoadOwnsSlot /\ QueueSound /\ SentArrives /\ ContentIsExpert

-----------------------------------------------------------------------------
LEMMA NotIdle ==
    ASSUME load.step \in {"check", "drain", "finish", "failed"}
    PROVE  load # Idle
<1>1. Idle.step = "idle"
    BY DEF Idle
<1>2. QED
    BY <1>1

(* A step of the storage is a step of its slot table, or leaves it alone. *)
LEMMA CacheStep ==
    ASSUME LoadOwnsSlot, [Next]_vars
    PROVE  [CacheNext]_cacheVars
<1>1. CASE \E k \in Key : Pin(k) \/ StartLoad(k)
    BY <1>1 DEF Pin, StartLoad, CacheNext
<1>2. CASE LoadStep \/ Abort
  <2>1. CASE FinishLoad \/ FailLoad
    <3>1. load.ticket \in issued
      BY <2>1, NotIdle DEF FinishLoad, FailLoad, LoadOwnsSlot
    <3>2. QED
      BY <2>1, <3>1 DEF FinishLoad, FailLoad, CacheNext
  <2>2. CASE SubmitChunk \/ DrainChunk \/ Abort
    BY <2>2 DEF SubmitChunk, DrainChunk, Abort
  <2>3. QED
    BY <1>2, <2>1, <2>2 DEF LoadStep
<1>3. CASE \E t \in issued : Submit(t) \/ Unpin(t)
    BY <1>3 DEF Submit, Unpin, CacheNext
<1>4. CASE ClearStorage
    BY <1>4 DEF ClearStorage, CacheNext
<1>5. CASE Device
    BY <1>5 DEF Device
<1>6. CASE UNCHANGED vars
    BY <1>6 DEF vars
<1>7. QED
    BY <1>1, <1>2, <1>3, <1>4, <1>5, <1>6 DEF Next

LEMMA NextInv ==
    ASSUME Inv, LoadOwnsSlot, [Next]_vars
    PROVE  Inv'
<1>1. [CacheNext]_cacheVars
    BY CacheStep
<1>2. QED
    BY <1>1, NextType, NextOneSlot, NextClock, NextTickets DEF Inv

(* The ticket StartLoad keeps is the one its acquire was given. *)
LEMMA StartedLoad ==
    ASSUME Inv, NEW k \in Key, StartLoad(k)
    PROVE  \E s \in Slot :
              /\ slots[s].status \notin Pinned
              /\ slots' = [slots EXCEPT ![s] = [key |-> k, status |-> "loading",
                              generation |-> slots[s].generation + 1,
                              lease |-> serial + 1, last_use |-> serial + 1]]
              /\ load' = [step |-> "check", chunk |-> 1,
                          ticket |-> [slot |-> s, generation |-> slots[s].generation + 1,
                                      lease |-> serial + 1, key |-> k]]
              /\ load'.ticket \in issued'
<1>1. PICK s \in Slot :
        /\ slots[s].status \notin Pinned
        /\ slots' = [slots EXCEPT ![s] = [key |-> k, status |-> "loading",
                        generation |-> slots[s].generation + 1,
                        lease |-> serial + 1, last_use |-> serial + 1]]
        /\ issued' = issued \union {[slot |-> s, generation |-> slots[s].generation + 1,
                                     lease |-> serial + 1, key |-> k]}
    BY LoadSlot DEF Inv, StartLoad
<1> DEFINE new == [slot |-> s, generation |-> slots[s].generation + 1,
                   lease |-> serial + 1, key |-> k]
<1>2. new \notin issued
  <2>1. \A t \in issued : t.lease \in Nat /\ t.lease <= serial
    BY DEF Inv, CacheTypeOK, Ticket, ClockSound
  <2>2. serial \in Nat
    BY SerialAssumption DEF Inv, CacheTypeOK
  <2>3. QED
    BY <2>1, <2>2
<1>3. new = CHOOSE t \in issued' : t \notin issued
  <2>1. new \in issued' /\ \A t \in issued' : t \notin issued <=> t = new
    BY <1>1, <1>2
  <2> HIDE DEF new
  <2>2. QED
    BY <2>1
<1>4. load' = [step |-> "check", chunk |-> 1, ticket |-> new]
    BY <1>3 DEF StartLoad
<1>5. load'.ticket \in issued'
    BY <1>1, <1>4
<1>6. QED
    BY <1>1, <1>4, <1>5

-----------------------------------------------------------------------------
(* Steps of the table alone, between loads: pin, unpin, clear. *)
LEMMA TableStep ==
    ASSUME StorageInv, CacheTypeOK', UNCHANGED storageVars, load = Idle,
           \A s \in Slot :
              /\ slots'[s].status # "loading"
              /\ slots'[s].status \in {"ready", "in_use"} =>
                    slots[s].status \in {"ready", "in_use"} /\ slots'[s].key = slots[s].key
              /\ slots[s].status = "in_use" =>
                    \/ stream = <<>>
                    \/ slots'[s].status = "in_use" /\ slots'[s].key = slots[s].key
    PROVE  TypeOK' /\ LoadOwnsSlot' /\ QueueSound' /\ SentArrives' /\ ContentIsExpert'
<1> USE DEF StorageInv, storageVars
<1>1. TypeOK'
    BY DEF TypeOK
<1>2. LoadOwnsSlot'
    BY DEF LoadOwnsSlot
<1>3. QueueSound'
  <2> SUFFICES ASSUME NEW i \in 1..Len(stream)
               PROVE  stream[i].op # "copy" /\ KernelSound(stream[i])'
    BY DEF QueueSound
  <2>1. stream[i].op # "copy" /\ KernelSound(stream[i])
    BY DEF QueueSound, CopySound
  <2>2. stream[i].slot \in Slot /\ stream # <<>>
    BY DEF TypeOK, Copy, Kernel
  <2>3. QED
    BY <2>1, <2>2 DEF KernelSound
<1>4. SentArrives'
    BY DEF SentArrives
<1>5. ContentIsExpert'
    BY DEF ContentIsExpert
<1>6. QED
    BY <1>1, <1>2, <1>3, <1>4, <1>5

LEMMA PinStep ==
    ASSUME StorageInv, CacheTypeOK', NEW k \in Key, Pin(k)
    PROVE  TypeOK' /\ LoadOwnsSlot' /\ QueueSound' /\ SentArrives' /\ ContentIsExpert'
<1>1. PICK s \in Slot :
        /\ Holds(s, k)
        /\ slots' = [slots EXCEPT ![s] = [key |-> k, status |-> "in_use",
                        generation |-> slots[s].generation,
                        lease |-> serial + 1, last_use |-> serial + 1]]
    BY HitSlot DEF Pin, StorageInv, Inv
<1>2. slots[s].status = "ready" /\ slots[s].key = k
    BY <1>1, HitReady DEF Pin, StorageInv, Inv, Holds
<1>3. load = Idle /\ \A u \in Slot : slots[u].status # "loading"
    BY DEF Pin, StorageInv, LoadOwnsSlot
<1>4. slots \in [Slot -> SlotRecord]
    BY DEF StorageInv, Inv, CacheTypeOK
<1>5. QED
    BY <1>1, <1>2, <1>3, <1>4, TableStep DEF Pin

LEMMA UnpinStep ==
    ASSUME StorageInv, CacheTypeOK', NEW t \in issued, Unpin(t)
    PROVE  TypeOK' /\ LoadOwnsSlot' /\ QueueSound' /\ SentArrives' /\ ContentIsExpert'
<1>1. t.slot \in Slot /\ slots \in [Slot -> SlotRecord]
    BY DEF StorageInv, Inv, CacheTypeOK, Ticket
<1>2. slots[t.slot].status = "in_use" /\ stream = <<>>
    BY DEF Unpin, Usable, Checked, Drained
<1>3. slots' = [slots EXCEPT ![t.slot] = [slots[t.slot] EXCEPT
                  !.status = "ready", !.last_use = serial']]
    BY DEF Unpin, Release
<1>4. load = Idle /\ \A u \in Slot : slots[u].status # "loading"
    BY DEF Unpin, StorageInv, LoadOwnsSlot
<1>5. slots'[t.slot].status = "ready" /\ slots'[t.slot].key = slots[t.slot].key
    BY <1>1, <1>3 DEF SlotRecord
<1>6. QED
    BY <1>1, <1>2, <1>3, <1>4, <1>5, TableStep DEF Unpin

LEMMA ClearStep ==
    ASSUME StorageInv, CacheTypeOK', ClearStorage
    PROVE  TypeOK' /\ LoadOwnsSlot' /\ QueueSound' /\ SentArrives' /\ ContentIsExpert'
<1>1. slots \in [Slot -> SlotRecord]
    BY DEF StorageInv, Inv, CacheTypeOK
<1>2. \A s \in Slot : slots'[s].status = "empty" /\ slots[s].status \notin Pinned
    BY <1>1 DEF ClearStorage, Clear, SlotRecord
<1>3. QED
    BY <1>2, TableStep DEF ClearStorage, Pinned

-----------------------------------------------------------------------------
(* A load begins: its slot was evictable, so nothing is queued on it. *)
LEMMA StartLoadStep ==
    ASSUME StorageInv, Inv', NEW k \in Key, StartLoad(k)
    PROVE  TypeOK' /\ LoadOwnsSlot' /\ QueueSound' /\ SentArrives' /\ ContentIsExpert'
<1>1. PICK s \in Slot :
        /\ slots[s].status \notin Pinned
        /\ slots' = [slots EXCEPT ![s] = [key |-> k, status |-> "loading",
                        generation |-> slots[s].generation + 1,
                        lease |-> serial + 1, last_use |-> serial + 1]]
        /\ load' = [step |-> "check", chunk |-> 1,
                    ticket |-> [slot |-> s, generation |-> slots[s].generation + 1,
                                lease |-> serial + 1, key |-> k]]
        /\ load'.ticket \in issued'
    BY StartedLoad DEF StorageInv
<1>2. UNCHANGED <<arena, staging, stream>> /\ load = Idle
    BY DEF StartLoad
<1>3. slots \in [Slot -> SlotRecord] /\ issued' \subseteq Ticket
    BY DEF StorageInv, Inv, CacheTypeOK
<1>4. /\ slots'[s] = [key |-> k, status |-> "loading",
                      generation |-> slots[s].generation + 1,
                      lease |-> serial + 1, last_use |-> serial + 1]
      /\ \A u \in Slot \ {s} : slots'[u] = slots[u]
    BY <1>1, <1>3
<1>5. TypeOK'
  <2>1. load' \in Loading
    BY <1>1, <1>3, ChunksAssumption DEF Loading, Chunk
  <2>2. QED
    BY <1>2, <2>1 DEF TypeOK, StorageInv, Inv
<1>6. LoadOwnsSlot'
  <2>1. load'.ticket \in issued' /\ load'.ticket.slot = s /\ load'.ticket.key = k
    BY <1>1
  <2>2. Checked(load.ticket, "loading")'
    BY <1>1, <1>4 DEF Checked
  <2>3. load' # Idle
    BY <1>1 DEF Idle
  <2>4. \A u \in Slot : slots[u].status # "loading"
    BY <1>2 DEF StorageInv, LoadOwnsSlot
  <2>5. QED
    BY <1>4, <2>1, <2>2, <2>3, <2>4 DEF LoadOwnsSlot
<1>7. QueueSound'
  <2> SUFFICES ASSUME NEW i \in 1..Len(stream)
               PROVE  stream[i].op # "copy" /\ KernelSound(stream[i])'
    BY <1>2 DEF QueueSound
  <2>1. stream[i].op # "copy" /\ KernelSound(stream[i])
    BY <1>2 DEF StorageInv, QueueSound, CopySound
  <2>2. stream[i].slot \in Slot
    BY DEF StorageInv, TypeOK, Copy, Kernel
  <2>3. stream[i].slot # s
    BY <1>1, <2>1 DEF KernelSound, Pinned
  <2>4. QED
    BY <1>2, <1>4, <2>1, <2>2, <2>3 DEF KernelSound
<1>8. SentArrives'
  <2>1. \A c \in Chunk : ~Sent(c)'
    BY <1>1, ChunksAssumption DEF Sent, Chunk
  <2>2. load'.step # "finish"
    BY <1>1
  <2>3. QED
    BY <2>1, <2>2 DEF SentArrives
<1>9. ContentIsExpert'
    BY <1>2, <1>4 DEF StorageInv, ContentIsExpert
<1>10. QED
    BY <1>5, <1>6, <1>7, <1>8, <1>9

(* The load gives up before a chunk; copies it queued stay queued. *)
LEMMA AbortStep ==
    ASSUME StorageInv, CacheTypeOK', Abort
    PROVE  TypeOK' /\ LoadOwnsSlot' /\ QueueSound' /\ SentArrives' /\ ContentIsExpert'
<1>1. load \in Loading /\ load.step = "check"
    BY NotIdle DEF Abort, StorageInv, TypeOK
<1>2. /\ load' = [load EXCEPT !.step = "failed"]
      /\ UNCHANGED <<slots, issued, arena, staging, stream>>
    BY DEF Abort, cacheVars
<1>3. /\ load' \in Loading /\ load'.step = "failed"
      /\ load'.ticket = load.ticket /\ load'.chunk = load.chunk
    BY <1>1, <1>2 DEF Loading
<1>4. load # Idle /\ load' # Idle
    BY <1>1, <1>3, NotIdle DEF Idle
<1>5. TypeOK'
    BY <1>2, <1>3 DEF StorageInv, TypeOK
<1>6. LoadOwnsSlot'
    BY <1>2, <1>3, <1>4 DEF StorageInv, LoadOwnsSlot, Checked
<1>7. QueueSound'
    BY <1>1, <1>2, <1>3, <1>4 DEF StorageInv, QueueSound, CopySound, KernelSound
<1>8. SentArrives'
    BY <1>1, <1>2, <1>3, <1>4 DEF StorageInv, SentArrives, Sent, Arrived, InFlight
<1>9. ContentIsExpert'
    BY <1>2 DEF StorageInv, ContentIsExpert
<1>10. QED
    BY <1>5, <1>6, <1>7, <1>8, <1>9

(* The staging buffer is drained: the next chunk, or the end of the load. *)
LEMMA DrainStep ==
    ASSUME StorageInv, CacheTypeOK', DrainChunk
    PROVE  TypeOK' /\ LoadOwnsSlot' /\ QueueSound' /\ SentArrives' /\ ContentIsExpert'
<1>1. load \in Loading /\ load.step = "drain" /\ stream = <<>>
    BY NotIdle DEF DrainChunk, Drained, StorageInv, TypeOK
<1>2. load.chunk \in Nat /\ load.chunk <= Chunks /\ Chunks \in Nat
    BY <1>1, ChunksAssumption DEF Loading, Chunk
<1>3. UNCHANGED <<slots, issued, arena, staging, stream>>
    BY DEF DrainChunk, cacheVars
<1>4. /\ load' \in Loading /\ load'.ticket = load.ticket
      /\ \/ /\ load.chunk < Chunks
            /\ load'.step = "check" /\ load'.chunk = load.chunk + 1
         \/ load.chunk = Chunks /\ load'.step = "finish" /\ load'.chunk = load.chunk
  <2>1. CASE load.chunk < Chunks
    <3>1. load' = [load EXCEPT !.step = "check", !.chunk = load.chunk + 1]
      BY <2>1 DEF DrainChunk
    <3>2. load.chunk + 1 \in Chunk
      BY <1>2, <2>1 DEF Chunk
    <3>3. QED
      BY <1>1, <2>1, <3>1, <3>2 DEF Loading
  <2>2. CASE ~(load.chunk < Chunks)
    <3>1. load' = [load EXCEPT !.step = "finish"]
      BY <2>2 DEF DrainChunk
    <3>2. QED
      BY <1>1, <1>2, <2>2, <3>1 DEF Loading, Chunk
  <2>3. QED
    BY <2>1, <2>2
<1>5. load # Idle /\ load' # Idle
    BY <1>1, <1>4, NotIdle DEF Idle
<1>6. TypeOK'
    BY <1>3, <1>4 DEF StorageInv, TypeOK
<1>7. LoadOwnsSlot'
    BY <1>3, <1>4, <1>5 DEF StorageInv, LoadOwnsSlot, Checked
<1>8. QueueSound'
    BY <1>1, <1>3 DEF QueueSound
<1>9. SentArrives'
  <2>1. \A c \in Chunk : Sent(c)' => Sent(c)
    BY <1>1, <1>2, <1>4 DEF Sent, Chunk
  <2>2. \A c \in Chunk : ~InFlight(c)
    BY <1>1 DEF InFlight
  <2>3. \A c \in Chunk : Sent(c)' => Arrived(c)'
    BY <1>3, <1>4, <1>5, <2>1, <2>2 DEF StorageInv, SentArrives, Arrived
  <2>4. QED
    BY <1>4, <2>3 DEF SentArrives
<1>10. ContentIsExpert'
    BY <1>3 DEF StorageInv, ContentIsExpert
<1>11. QED
    BY <1>6, <1>7, <1>8, <1>9, <1>10

-----------------------------------------------------------------------------
(* What the queue is after a piece of work came in, and after one was done. *)
Work == Copy \union Kernel

LEMMA Enqueued ==
    ASSUME TypeOK, NEW w \in Work, Len(stream) < MaxStream, stream' = Append(stream, w)
    PROVE  /\ stream' \in Seq(Work) /\ Len(stream') <= MaxStream
           /\ Len(stream') = Len(stream) + 1
           /\ \A i \in 1..Len(stream) : stream'[i] = stream[i]
           /\ stream'[Len(stream) + 1] = w
           /\ \A i \in 1..Len(stream') : i \in 1..Len(stream) \/ stream'[i] = w
<1>1. stream \in Seq(Work) /\ Len(stream) \in Nat
    BY LenProperties DEF TypeOK, Work
<1>2. /\ stream' \in Seq(Work) /\ Len(stream') = Len(stream) + 1
      /\ \A i \in 1..Len(stream) : stream'[i] = stream[i]
      /\ stream'[Len(stream) + 1] = w
    BY <1>1, AppendProperties
<1>3. Len(stream') <= MaxStream
    BY <1>1, <1>2, StreamAssumption
<1>4. ASSUME NEW i \in 1..Len(stream'), i \notin 1..Len(stream)
      PROVE  i = Len(stream) + 1
    BY <1>1, <1>2, <1>4
<1>5. QED
    BY <1>2, <1>3, <1>4

LEMMA Dequeued ==
    ASSUME TypeOK, stream # <<>>, stream' = Tail(stream)
    PROVE  /\ stream[1] \in Work /\ Head(stream) = stream[1]
           /\ 1 \in 1..Len(stream)
           /\ stream' \in Seq(Work) /\ Len(stream') <= MaxStream
           /\ \A i \in 1..Len(stream') : i + 1 \in 1..Len(stream) /\ stream'[i] = stream[i + 1]
           /\ \A i \in 1..Len(stream) : i # 1 => i - 1 \in 1..Len(stream') /\ stream'[i - 1] = stream[i]
<1>1. stream \in Seq(Work) /\ Len(stream) \in Nat \ {0} /\ Len(stream) <= MaxStream
    BY EmptySeq DEF TypeOK, Work
<1>2. /\ stream' \in Seq(Work) /\ Len(stream') = Len(stream) - 1
      /\ \A i \in 1..Len(stream') : stream'[i] = stream[i + 1]
    BY <1>1, HeadTailProperties
<1>3. Head(stream) = stream[1] /\ stream[1] \in Work
    BY <1>1, HeadTailProperties
<1>4. Len(stream') <= MaxStream
    BY <1>1, <1>2, StreamAssumption
<1>5. \A i \in 1..Len(stream') : i + 1 \in 1..Len(stream)
    BY <1>1, <1>2
<1>6. \A i \in 1..Len(stream) : i # 1 => i - 1 \in 1..Len(stream') /\ stream'[i - 1] = stream[i]
  <2> SUFFICES ASSUME NEW i \in 1..Len(stream), i # 1
               PROVE  i - 1 \in 1..Len(stream') /\ stream'[i - 1] = stream[i]
      OBVIOUS
  <2>1. i - 1 \in 1..Len(stream') /\ (i - 1) + 1 = i
    BY <1>1, <1>2
  <2>2. QED
    BY <1>2, <2>1
<1>7. QED
    BY <1>1, <1>2, <1>3, <1>4, <1>5, <1>6

-----------------------------------------------------------------------------
(* A chunk goes onto the stream.  Through staging it is then the only copy
   queued, since the last one was drained before the next was prepared. *)
LEMMA SubmitChunkStep ==
    ASSUME StorageInv, CacheTypeOK', SubmitChunk
    PROVE  TypeOK' /\ LoadOwnsSlot' /\ QueueSound' /\ SentArrives' /\ ContentIsExpert'
<1> DEFINE src == <<load.ticket.key, load.chunk>>
           new == [op |-> "copy", slot |-> load.ticket.slot, chunk |-> load.chunk, src |-> src]
<1>1. load \in Loading /\ load.step = "check"
    BY NotIdle DEF SubmitChunk, StorageInv, TypeOK
<1>2. load.chunk \in Nat /\ load.chunk <= Chunks /\ Chunks \in Nat /\ Staged \in BOOLEAN
    BY <1>1, ChunksAssumption DEF Loading, Chunk
<1>3. /\ staging' = IF Staged THEN src ELSE staging
      /\ stream' = Append(stream, new) /\ Len(stream) < MaxStream
      /\ UNCHANGED <<slots, issued, arena>>
    BY DEF SubmitChunk, cacheVars
<1>4. /\ load' \in Loading /\ load'.ticket = load.ticket /\ load'.step # "failed"
      /\ \/ Staged /\ load'.step = "drain" /\ load'.chunk = load.chunk
         \/ ~Staged /\ load'.step = "check" /\ load'.chunk = load.chunk + 1
         \/ ~Staged /\ load'.step = "finish" /\ load'.chunk = load.chunk /\ load.chunk = Chunks
  <2>1. CASE Staged
    <3>1. load' = [load EXCEPT !.step = "drain"]
      BY <2>1 DEF SubmitChunk
    <3>2. QED
      BY <1>1, <2>1, <3>1 DEF Loading
  <2>2. CASE ~Staged /\ load.chunk < Chunks
    <3>1. load' = [load EXCEPT !.chunk = load.chunk + 1]
      BY <2>2 DEF SubmitChunk
    <3>2. load.chunk + 1 \in Chunk
      BY <1>2, <2>2 DEF Chunk
    <3>3. QED
      BY <1>1, <2>2, <3>1, <3>2 DEF Loading
  <2>3. CASE ~Staged /\ ~(load.chunk < Chunks)
    <3>1. load' = [load EXCEPT !.step = "finish"]
      BY <2>3 DEF SubmitChunk
    <3>2. QED
      BY <1>1, <1>2, <2>3, <3>1 DEF Loading
  <2>4. QED
    BY <2>1, <2>2, <2>3
<1>5. load # Idle /\ load' # Idle
    BY <1>1, <1>4, NotIdle DEF Idle, Loading
<1>6. load.ticket.slot \in Slot /\ load.ticket.key \in Key
  <2>1. load.ticket.slot \in Slot /\ load.ticket.key = slots[load.ticket.slot].key
    BY <1>1, <1>5 DEF StorageInv, LoadOwnsSlot, Loading, Ticket
  <2>2. QED
    BY <1>1 DEF Loading, Ticket
<1>7. new \in Work
    BY <1>1, <1>6 DEF Work, Copy, Loading
<1> HIDE DEF new
<1>8. /\ stream' \in Seq(Work) /\ Len(stream') <= MaxStream
      /\ Len(stream') = Len(stream) + 1
      /\ \A i \in 1..Len(stream) : stream'[i] = stream[i]
      /\ stream'[Len(stream) + 1] = new
      /\ \A i \in 1..Len(stream') : i \in 1..Len(stream) \/ stream'[i] = new
    BY <1>3, <1>7, Enqueued DEF StorageInv
<1>9. /\ new.op = "copy" /\ new.slot = load.ticket.slot
      /\ new.chunk = load.chunk /\ new.src = src
    BY DEF new
<1>10. TypeOK'
  <2>1. staging' \in Bytes
    BY <1>1, <1>3, <1>6 DEF StorageInv, TypeOK, Bytes, Loading
  <2>2. QED
    BY <1>3, <1>4, <1>8, <2>1 DEF StorageInv, TypeOK, Work
<1>11. LoadOwnsSlot'
    BY <1>3, <1>4, <1>5 DEF StorageInv, LoadOwnsSlot, Checked
<1>12. QueueSound'
  <2> SUFFICES ASSUME NEW i \in 1..Len(stream')
               PROVE  IF stream'[i].op = "copy" THEN CopySound(stream[i])' ELSE KernelSound(stream[i])'
      BY DEF QueueSound
  <2>1. CASE i \in 1..Len(stream)
    <3>1. IF stream[i].op = "copy" THEN CopySound(stream[i]) ELSE KernelSound(stream[i])
      BY <2>1 DEF StorageInv, QueueSound
    <3>2. CASE stream[i].op = "copy"
      <4>1. ~Staged
        BY <1>1, <3>1, <3>2 DEF CopySound
      <4>2. QED
        BY <1>3, <1>4, <1>5, <1>8, <2>1, <3>1, <3>2, <4>1 DEF CopySound
    <3>3. CASE stream[i].op # "copy"
      BY <1>3, <1>8, <2>1, <3>1, <3>3 DEF KernelSound
    <3>4. QED
      BY <3>2, <3>3
  <2>2. CASE stream'[i] = new
    BY <1>3, <1>4, <1>5, <1>9, <2>2 DEF CopySound
  <2>3. QED
    BY <1>8, <2>1, <2>2
<1>13. SentArrives'
  <2> SUFFICES ASSUME NEW c \in Chunk, Sent(c)' PROVE Arrived(c)' \/ InFlight(c)'
      BY <1>4 DEF SentArrives
  <2>1. CASE c = load.chunk
    <3>1. Len(stream) + 1 \in 1..Len(stream')
      BY <1>8, LenProperties DEF StorageInv, TypeOK
    <3>2. QED
      BY <1>8, <1>9, <2>1, <3>1 DEF InFlight
  <2>2. CASE c # load.chunk
    <3>1. Sent(c)
      BY <1>2, <1>4, <2>2 DEF Sent, Chunk
    <3>2. Arrived(c) \/ InFlight(c)
      BY <1>5, <3>1 DEF StorageInv, SentArrives
    <3>3. InFlight(c) => InFlight(c)'
      <4>1. Len(stream) \in Nat
        BY LenProperties DEF StorageInv, TypeOK
      <4>2. \A i \in 1..Len(stream) : i \in 1..Len(stream') /\ stream'[i] = stream[i]
        BY <1>8, <4>1
      <4>3. QED
        BY <4>2 DEF InFlight
    <3>4. QED
      BY <1>3, <1>4, <3>2, <3>3 DEF Arrived
  <2>3. QED
    BY <2>1, <2>2
<1>14. ContentIsExpert'
    BY <1>3 DEF StorageInv, ContentIsExpert
<1>15. QED
    BY <1>10, <1>11, <1>12, <1>13, <1>14

(* A caller queues a kernel on a slot it has pinned. *)
LEMMA SubmitStep ==
    ASSUME StorageInv, CacheTypeOK', NEW t \in issued, Submit(t)
    PROVE  TypeOK' /\ LoadOwnsSlot' /\ QueueSound' /\ SentArrives' /\ ContentIsExpert'
<1> DEFINE new == [op |-> "kernel", slot |-> t.slot, key |-> t.key]
<1>1. /\ load = Idle /\ load' = Idle
      /\ stream' = Append(stream, new) /\ Len(stream) < MaxStream
      /\ UNCHANGED <<slots, issued, arena, staging>>
      /\ slots[t.slot].status = "in_use" /\ slots[t.slot].key = t.key
    BY DEF Submit, cacheVars, Usable, Checked
<1>2. new \in Work
    BY DEF StorageInv, Inv, CacheTypeOK, Ticket, Work, Kernel
<1>3. new.op # "copy" /\ new.slot = t.slot /\ new.key = t.key
    OBVIOUS
<1> HIDE DEF new
<1>4. /\ stream' \in Seq(Work) /\ Len(stream') <= MaxStream
      /\ \A i \in 1..Len(stream) : stream'[i] = stream[i]
      /\ \A i \in 1..Len(stream') : i \in 1..Len(stream) \/ stream'[i] = new
    BY <1>1, <1>2, Enqueued DEF StorageInv
<1>5. TypeOK'
    BY <1>1, <1>4 DEF StorageInv, TypeOK, Work
<1>6. LoadOwnsSlot'
    BY <1>1 DEF StorageInv, LoadOwnsSlot
<1>7. QueueSound'
  <2> SUFFICES ASSUME NEW i \in 1..Len(stream')
               PROVE  stream'[i].op # "copy" /\ KernelSound(stream[i])'
      BY DEF QueueSound
  <2>1. CASE i \in 1..Len(stream)
    <3>1. stream[i].op # "copy" /\ KernelSound(stream[i])
      BY <1>1, <2>1 DEF StorageInv, QueueSound, CopySound
    <3>2. QED
      BY <1>1, <1>4, <2>1, <3>1 DEF KernelSound
  <2>2. CASE stream'[i] = new
    BY <1>1, <1>3, <2>2 DEF KernelSound
  <2>3. QED
    BY <1>4, <2>1, <2>2
<1>8. SentArrives'
    BY <1>1 DEF SentArrives
<1>9. ContentIsExpert'
    BY <1>1 DEF StorageInv, ContentIsExpert
<1>10. QED
    BY <1>5, <1>6, <1>7, <1>8, <1>9

(* The device runs the oldest work: a copy fills its chunk with the bytes it
   was queued for, in a slot no reader uses yet; a kernel changes no arena. *)
LEMMA DeviceRuns ==
    ASSUME StorageInv, CacheTypeOK', Device
    PROVE  TypeOK' /\ LoadOwnsSlot' /\ QueueSound' /\ SentArrives' /\ ContentIsExpert'
<1> DEFINE w == stream[1]
<1>1. /\ w \in Work /\ Head(stream) = w /\ 1 \in 1..Len(stream)
      /\ stream' \in Seq(Work) /\ Len(stream') <= MaxStream
      /\ \A i \in 1..Len(stream') : i + 1 \in 1..Len(stream) /\ stream'[i] = stream[i + 1]
      /\ \A i \in 1..Len(stream) : i # 1 => i - 1 \in 1..Len(stream') /\ stream'[i - 1] = stream[i]
    BY Dequeued DEF Device, StorageInv
<1>2. UNCHANGED <<slots, issued, staging, load>>
    BY DEF Device, cacheVars
<1>3. arena \in [Slot -> [Chunk -> Bytes]]
    BY DEF StorageInv, TypeOK
<1>4. IF w.op = "copy" THEN CopySound(w) ELSE KernelSound(w)
    BY <1>1 DEF StorageInv, QueueSound
<1>5. \/ /\ w.op = "copy" /\ load # Idle
         /\ w.slot = load.ticket.slot /\ w.slot \in Slot /\ w.chunk \in Chunk
         /\ <<load.ticket.key, w.chunk>> \in Bytes
         /\ arena' = [arena EXCEPT ![w.slot] =
                         [arena[w.slot] EXCEPT ![w.chunk] = <<load.ticket.key, w.chunk>>]]
      \/ w.op # "copy" /\ arena' = arena
  <2>1. CASE w.op = "copy"
    <3>1. /\ load # Idle /\ w.slot = load.ticket.slot
          /\ w.src = <<load.ticket.key, w.chunk>> /\ (Staged => staging = w.src)
      BY <1>4, <2>1 DEF CopySound
    <3>2. w.slot \in Slot /\ w.chunk \in Chunk /\ w.src \in Bytes
      BY <1>1, <2>1 DEF Work, Copy, Kernel, Bytes
    <3>3. arena' = [arena EXCEPT ![w.slot][w.chunk] = IF Staged THEN staging ELSE w.src]
      BY <1>1, <2>1 DEF Device
    <3>4. arena' = [arena EXCEPT ![w.slot][w.chunk] = w.src]
      BY <3>1, <3>3
    <3>5. QED
      BY <2>1, <3>1, <3>2, <3>4
  <2>2. CASE w.op # "copy"
    BY <1>1, <2>2 DEF Device
  <2>3. QED
    BY <2>1, <2>2
<1>6. \A s \in Slot, c \in Chunk :
        \/ arena'[s][c] = arena[s][c]
        \/ load # Idle /\ s = load.ticket.slot /\ arena'[s][c] = <<load.ticket.key, c>>
    BY <1>3, <1>5
<1>7. arena' \in [Slot -> [Chunk -> Bytes]]
  <2>1. CASE w.op = "copy"
    <3>1. [arena[w.slot] EXCEPT ![w.chunk] = <<load.ticket.key, w.chunk>>] \in [Chunk -> Bytes]
      BY <1>3, <1>5, <2>1
    <3>2. QED
      BY <1>3, <1>5, <2>1, <3>1
  <2>2. CASE w.op # "copy"
    BY <1>3, <1>5, <2>2
  <2>3. QED
    BY <2>1, <2>2
<1>8. TypeOK'
    BY <1>1, <1>2, <1>7 DEF StorageInv, TypeOK, Work
<1>9. LoadOwnsSlot'
    BY <1>2 DEF StorageInv, LoadOwnsSlot, Checked
<1>10. QueueSound'
  <2> SUFFICES ASSUME NEW i \in 1..Len(stream')
               PROVE  IF stream'[i].op = "copy" THEN CopySound(stream[i])' ELSE KernelSound(stream[i])'
      BY DEF QueueSound
  <2>1. i + 1 \in 1..Len(stream) /\ stream'[i] = stream[i + 1]
    BY <1>1
  <2>2. IF stream[i + 1].op = "copy" THEN CopySound(stream[i + 1]) ELSE KernelSound(stream[i + 1])
    BY <2>1 DEF StorageInv, QueueSound
  <2>3. QED
    BY <1>2, <2>1, <2>2 DEF CopySound, KernelSound
<1>11. SentArrives'
  <2> SUFFICES ASSUME load # Idle, NEW c \in Chunk, Sent(c) PROVE Arrived(c)' \/ InFlight(c)'
      BY <1>2 DEF StorageInv, SentArrives, Sent
  <2>1. load.ticket.slot \in Slot
    BY DEF StorageInv, LoadOwnsSlot, Inv, CacheTypeOK, Ticket
  <2>2. Arrived(c) \/ InFlight(c)
    BY DEF StorageInv, SentArrives
  <2>3. CASE Arrived(c)
    BY <1>2, <1>6, <2>1, <2>3 DEF Arrived
  <2>4. CASE InFlight(c)
    <3>1. PICK i \in 1..Len(stream) : stream[i].op = "copy" /\ stream[i].chunk = c
      BY <2>4 DEF InFlight
    <3>2. CASE i = 1
      BY <1>2, <1>3, <1>5, <3>1, <3>2 DEF Arrived
    <3>3. CASE i # 1
      BY <1>1, <3>1, <3>3 DEF InFlight
    <3>4. QED
      BY <3>2, <3>3
  <2>5. QED
    BY <2>2, <2>3, <2>4
<1>12. ContentIsExpert'
  <2>1. \A s \in Slot : slots[s].status \in {"ready", "in_use"} =>
            ~(load # Idle /\ s = load.ticket.slot)
    BY DEF StorageInv, LoadOwnsSlot, Checked
  <2>2. QED
    BY <1>2, <1>6, <2>1 DEF StorageInv, ContentIsExpert
<1>13. QED
    BY <1>8, <1>9, <1>10, <1>11, <1>12

(* The load ends with nothing queued: complete, or with an empty slot. *)
LEMMA EndLoadStep ==
    ASSUME StorageInv, CacheTypeOK', FinishLoad \/ FailLoad
    PROVE  TypeOK' /\ LoadOwnsSlot' /\ QueueSound' /\ SentArrives' /\ ContentIsExpert'
<1> DEFINE s == load.ticket.slot
<1>1. /\ load \in Loading /\ load # Idle /\ stream = <<>>
      /\ load' = Idle /\ UNCHANGED <<arena, staging, stream, issued>>
    BY NotIdle DEF FinishLoad, FailLoad, Drained, CompleteLoad, StorageInv, TypeOK
<1>2. s \in Slot /\ slots \in [Slot -> SlotRecord]
    BY <1>1 DEF StorageInv, Inv, CacheTypeOK, Loading, Ticket
<1>3. \/ load.step = "finish" /\ slots' = [slots EXCEPT ![s].status = "in_use"]
      \/ load.step = "failed" /\ slots' = [slots EXCEPT ![s].status = "empty"]
    BY DEF FinishLoad, FailLoad, CompleteLoad
<1>4. /\ \A u \in Slot \ {s} : slots'[u] = slots[u] /\ slots[u].status # "loading"
      /\ slots'[s].key = load.ticket.key /\ slots[s].key = load.ticket.key
      /\ slots'[s].status \in {"in_use", "empty"}
      /\ slots'[s].status = "in_use" => load.step = "finish"
  <2>1. slots[s].key = load.ticket.key /\ \A u \in Slot \ {s} : slots[u].status # "loading"
    BY <1>1 DEF StorageInv, LoadOwnsSlot
  <2>2. slots[s] \in SlotRecord
    BY <1>2
  <2>3. CASE load.step = "finish" /\ slots' = [slots EXCEPT ![s].status = "in_use"]
    <3>1. slots'[s] = [slots[s] EXCEPT !.status = "in_use"] /\ \A u \in Slot \ {s} : slots'[u] = slots[u]
        BY <1>2, <2>3
    <3>2. slots'[s].key = slots[s].key /\ slots'[s].status = "in_use"
        BY <2>2, <3>1 DEF SlotRecord
    <3>3. QED
        BY <2>1, <2>3, <3>1, <3>2
  <2>4. CASE load.step = "failed" /\ slots' = [slots EXCEPT ![s].status = "empty"]
    <3>1. slots'[s] = [slots[s] EXCEPT !.status = "empty"] /\ \A u \in Slot \ {s} : slots'[u] = slots[u]
        BY <1>2, <2>4
    <3>2. slots'[s].key = slots[s].key /\ slots'[s].status = "empty"
        BY <2>2, <3>1 DEF SlotRecord
    <3>3. QED
        BY <2>1, <3>1, <3>2
  <2>5. QED
    BY <1>3, <2>3, <2>4
<1>5. TypeOK'
    BY <1>1 DEF StorageInv, TypeOK
<1>6. LoadOwnsSlot'
    BY <1>1, <1>2, <1>4 DEF LoadOwnsSlot
<1>7. QueueSound'
    BY <1>1 DEF QueueSound
<1>8. SentArrives'
    BY <1>1 DEF SentArrives
<1>9. ContentIsExpert'
  <2>1. load.step = "finish" => \A c \in Chunk : arena[s][c] = <<load.ticket.key, c>>
    <3> SUFFICES ASSUME load.step = "finish", NEW c \in Chunk
                 PROVE  arena[s][c] = <<load.ticket.key, c>>
        OBVIOUS
    <3>1. load.chunk = Chunks
      BY <1>1 DEF StorageInv, SentArrives
    <3>2. Sent(c)
      BY <3>1, ChunksAssumption DEF Sent, Chunk
    <3>3. ~InFlight(c)
      BY <1>1 DEF InFlight
    <3>4. QED
      BY <1>1, <3>2, <3>3 DEF StorageInv, SentArrives, Arrived
  <2>2. QED
    BY <1>1, <1>4, <2>1 DEF StorageInv, ContentIsExpert
<1>10. QED
    BY <1>5, <1>6, <1>7, <1>8, <1>9

-----------------------------------------------------------------------------
LEMMA InitStorage == Init => StorageInv
<1> SUFFICES ASSUME Init PROVE StorageInv
    OBVIOUS
<1>1. Inv
    BY InitType, InitOneSlot, InitClock, InitTickets DEF Inv, Init
<1>2. TypeOK
  <2>1. <<>> \in Seq(Copy \union Kernel) /\ Len(<<>>) = 0
    OBVIOUS
  <2>2. QED
    BY <1>1, <2>1, StreamAssumption DEF Init, TypeOK, Inv, Bytes
<1>3. LoadOwnsSlot /\ QueueSound /\ SentArrives /\ ContentIsExpert
    BY DEF Init, CacheInit, LoadOwnsSlot, QueueSound, SentArrives, ContentIsExpert
<1>4. QED
    BY <1>1, <1>2, <1>3 DEF StorageInv

LEMMA NextStorage == StorageInv /\ [Next]_vars => StorageInv'
<1> SUFFICES ASSUME StorageInv, [Next]_vars PROVE StorageInv'
    OBVIOUS
<1> DEFINE Rest == TypeOK /\ LoadOwnsSlot /\ QueueSound /\ SentArrives /\ ContentIsExpert
<1>1. Inv'
    BY NextInv DEF StorageInv
<1>2. CacheTypeOK'
    BY <1>1 DEF Inv
<1> SUFFICES Rest'
    BY <1>1 DEF StorageInv
<1>3. ASSUME NEW k \in Key, Pin(k) \/ StartLoad(k) PROVE Rest'
    BY <1>1, <1>2, <1>3, PinStep, StartLoadStep
<1>4. CASE LoadStep \/ Abort
    BY <1>2, <1>4, SubmitChunkStep, DrainStep, EndLoadStep, AbortStep DEF LoadStep
<1>5. ASSUME NEW t \in issued, Submit(t) \/ Unpin(t) PROVE Rest'
    BY <1>2, <1>5, SubmitStep, UnpinStep
<1>6. CASE ClearStorage
    BY <1>2, <1>6, ClearStep
<1>7. CASE Device
    BY <1>2, <1>7, DeviceRuns
<1>8. CASE UNCHANGED vars
    BY <1>2, <1>8 DEF vars, storageVars, cacheVars, StorageInv, TypeOK, LoadOwnsSlot, Checked,
           QueueSound, CopySound, KernelSound, SentArrives, Sent, Arrived, InFlight, ContentIsExpert
<1>9. QED
    BY <1>3, <1>4, <1>5, <1>6, <1>7, <1>8 DEF Next

LEMMA StorageInductive == Spec => []StorageInv
<1>1. QED
    BY InitStorage, NextStorage, PTL DEF Spec

(* The storage's state keeps its type, its bounded queue included, in every
   order of host and device steps. *)
THEOREM StorageTypeCorrect == Spec => []TypeOK
<1>1. StorageInv => TypeOK
    BY DEF StorageInv
<1>2. QED
    BY <1>1, StorageInductive, PTL

(* What a ready or in-use slot holds is its expert, whole: no chunk missing,
   overwritten in staging, or left by the slot's earlier tenant. *)
THEOREM CachedBytesRight == Spec => []ContentIsExpert
<1>1. StorageInv => ContentIsExpert
    BY DEF StorageInv
<1>2. QED
    BY <1>1, StorageInductive, PTL

(* The device never has work on a slot that could be evicted or reloaded. *)
THEOREM QueuedSlotsPinned == Spec => []NoWorkOnFreeSlot
<1>1. StorageInv => NoWorkOnFreeSlot
  <2> SUFFICES ASSUME StorageInv, NEW i \in 1..Len(stream)
               PROVE  slots[stream[i].slot].status \in Pinned
      BY DEF NoWorkOnFreeSlot
  <2>1. CASE stream[i].op = "copy"
    <3>1. load # Idle /\ stream[i].slot = load.ticket.slot
      BY <2>1 DEF StorageInv, QueueSound, CopySound
    <3>2. QED
      BY <3>1 DEF StorageInv, LoadOwnsSlot, Checked, Pinned
  <2>2. CASE stream[i].op # "copy"
    BY <2>2 DEF StorageInv, QueueSound, KernelSound, Pinned
  <2>3. QED
    BY <2>1, <2>2
<1>2. QED
    BY <1>1, StorageInductive, PTL

(* A copy still queued out of the staging buffer finds its bytes there. *)
THEOREM StagedBytesKept == Spec => []PendingSourceIntact
<1>1. StorageInv => PendingSourceIntact
    BY DEF StorageInv, QueueSound, CopySound, PendingSourceIntact
<1>2. QED
    BY <1>1, StorageInductive, PTL

(* The storage drives its slot table only by the table's own operations, so
   that whatever is proved of the table holds under the storage.           *)
THEOREM StorageUsesTable == Spec => CacheSpec
<1>1. Init => CacheInit
    BY DEF Init
<1>2. StorageInv /\ [Next]_vars => [CacheNext]_cacheVars
    BY CacheStep DEF StorageInv
<1>3. QED
    BY <1>1, <1>2, StorageInductive, PTL DEF Spec, CacheSpec
=============================================================================
