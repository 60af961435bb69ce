------------------------------ MODULE MoeCache ------------------------------
(***************************************************************************)
(* ggml_moe_cache (freetoken/src/cache.cpp): the slot table of the expert  *)
(* cache.  Metadata only: a caller reserves or pins a slot with acquire,   *)
(* reports the end of a transfer with complete_load and unpins with        *)
(* release, each time presenting the ticket acquire gave it.  Calls are    *)
(* serialized by the owner, so each is one action; a call that throws or   *)
(* returns pending, busy, full or miss changes nothing, and is a stutter.  *)
(*                                                                         *)
(* `issued` is history, not program state: every ticket the object ever    *)
(* returned, with the key it was returned for.  complete_load and release  *)
(* are tried with every one of them, the stale ones included.              *)
(***************************************************************************)
EXTENDS Integers, FiniteSets

CONSTANTS
    Key,        \* identities acquire accepts: model # 0, layout = this layout
    NoKey,      \* the zero key of a slot never loaded
    Capacity,   \* budget / slot_bytes
    MaxSerial   \* numeric_limits<uint64_t>::max(), for serials and generations

ASSUME KeyAssumption == NoKey \notin Key
ASSUME CapacityAssumption == Capacity \in Nat \ {0}
ASSUME SerialAssumption == MaxSerial \in Nat

VARIABLES
    slots,      \* [Slot -> slot record]
    serial,     \* the last lease serial drawn
    stats,      \* ggml_moe_cache_stats; completed counts slots, not bytes
    issued      \* history: tickets returned so far

cacheVars == <<slots, serial, stats, issued>>

Slot   == 1..Capacity
Status == {"empty", "loading", "ready", "in_use"}
Pinned == {"loading", "in_use"}

SlotRecord == [key : Key \union {NoKey}, status : Status,
               generation : Nat, lease : Nat, last_use : Nat]
Ticket == [slot : Slot, generation : Nat, lease : Nat, key : Key]
Stats  == [hits : Nat, loads : Nat, evictions : Nat, completed : Nat, failed : Nat]

(* One type invariant: the shape of the table, the counters and the tickets. *)
CacheTypeOK ==
    /\ slots \in [Slot -> SlotRecord]
    /\ serial \in 0..MaxSerial
    /\ stats \in Stats
    /\ issued \subseteq Ticket

CacheInit ==
    /\ slots = [s \in Slot |-> [key |-> NoKey, status |-> "empty",
                                generation |-> 0, lease |-> 0, last_use |-> 0]]
    /\ serial = 0
    /\ stats = [hits |-> 0, loads |-> 0, evictions |-> 0, completed |-> 0, failed |-> 0]
    /\ issued = {}

-----------------------------------------------------------------------------
StatusOf(st) == {s \in Slot : slots[s].status = st}
Occupied     == {s \in Slot : slots[s].status # "empty"}
Holds(s, k)  == slots[s].status # "empty" /\ slots[s].key = k

(* The slot an uncached expert is loaded into: the first empty one, or the
   ready one with the least last_use (the first of them on a tie). *)
Victim(s) ==
    \/ /\ slots[s].status = "empty"
       /\ \A t \in StatusOf("empty") : s <= t
    \/ /\ StatusOf("empty") = {}
       /\ slots[s].status = "ready"
       /\ \A t \in StatusOf("ready") \ {s} :
             \/ slots[s].last_use < slots[t].last_use
             \/ slots[s].last_use = slots[t].last_use /\ s < t

(* Slip: the scan for a key passes over slots still loading. *)
Answer_NotLoading(k, existing_only) ==
    IF \E s \in Slot : Holds(s, k) /\ slots[s].status # "loading"
    THEN IF \E s \in Slot : Holds(s, k) /\ slots[s].status = "in_use" THEN "busy" ELSE "hit"
    ELSE IF existing_only THEN "miss"
    ELSE IF \E s \in Slot : Victim(s) THEN "load" ELSE "full"

(* What acquire(k, existing_only) answers. *)
Answer(k, existing_only) ==
    IF \E s \in Slot : Holds(s, k)
    THEN LET st == slots[CHOOSE s \in Slot : Holds(s, k)].status
         IN  CASE st = "loading" -> "pending" [] st = "in_use" -> "busy" [] OTHER -> "hit"
    ELSE IF existing_only THEN "miss"
    ELSE IF \E s \in Slot : Victim(s) THEN "load" ELSE "full"

(* Slip: a hit that pins the slot again under the lease it had. *)
Hit_OldLease(k) ==
    /\ Answer(k, TRUE) = "hit"
    /\ serial < MaxSerial
    /\ serial' = serial + 1
    /\ \E s \in Slot :
         /\ Holds(s, k)
         /\ slots' = [slots EXCEPT ![s] = [@ EXCEPT !.status = "in_use", !.last_use = serial']]
         /\ issued' = issued \union {[slot |-> s, generation |-> slots[s].generation,
                                      lease |-> slots[s].lease, key |-> k]}
    /\ stats' = [stats EXCEPT !.hits = @ + 1]

(* acquire, the resident case: the slot is pinned under a fresh lease. *)
Hit(k) ==
    /\ Answer(k, TRUE) = "hit"
    /\ serial < MaxSerial
    /\ serial' = serial + 1
    /\ \E s \in Slot :
         /\ Holds(s, k)
         /\ slots' = [slots EXCEPT ![s] = [key |-> k, status |-> "in_use",
                         generation |-> @.generation,
                         lease |-> serial', last_use |-> serial']]
         /\ issued' = issued \union {[slot |-> s, generation |-> slots[s].generation,
                                      lease |-> serial', key |-> k]}
    /\ stats' = [stats EXCEPT !.hits = @ + 1]

(* acquire, the uncached case: a slot is reserved, evicting what it held. *)
Load(k) ==
    /\ Answer(k, FALSE) = "load"
    /\ serial < MaxSerial
    /\ serial' = serial + 1
    /\ \E s \in Slot :
         /\ Victim(s)
         /\ slots[s].generation < MaxSerial
         /\ slots' = [slots EXCEPT ![s] = [key |-> k, status |-> "loading",
                         generation |-> @.generation + 1,
                         lease |-> serial', last_use |-> serial']]
         /\ issued' = issued \union {[slot |-> s, generation |-> slots[s].generation + 1,
                                      lease |-> serial', key |-> k]}
         /\ stats' = [stats EXCEPT !.loads = @ + 1,
                         !.evictions = IF slots[s].status = "ready" THEN @ + 1 ELSE @]

(* Slip: a ticket is matched by slot and generation alone. *)
Checked_NoLease(t, st) ==
    slots[t.slot].generation = t.generation /\ slots[t.slot].status = st

(* checked(t, st): the ticket is the slot's current one and its state is st. *)
Checked(t, st) ==
    /\ slots[t.slot].generation = t.generation
    /\ slots[t.slot].lease = t.lease
    /\ slots[t.slot].status = st

(* Slip: a failed transfer is not counted. *)
CompleteLoad_Uncounted(t, success) ==
    /\ Checked(t, "loading")
    /\ slots' = [slots EXCEPT ![t.slot].status = IF success THEN "in_use" ELSE "empty"]
    /\ stats' = IF success THEN [stats EXCEPT !.completed = @ + 1] ELSE stats
    /\ UNCHANGED <<serial, issued>>

CompleteLoad(t, success) ==
    /\ Checked(t, "loading")
    /\ slots' = [slots EXCEPT ![t.slot].status = IF success THEN "in_use" ELSE "empty"]
    /\ stats' = IF success THEN [stats EXCEPT !.completed = @ + 1]
                           ELSE [stats EXCEPT !.failed = @ + 1]
    /\ UNCHANGED <<serial, issued>>

(* Slips: a release that draws a serial past the last one, reuses the last
   one, or does not count as a use. *)
Release_Overflows(t) ==
    /\ Checked(t, "in_use")
    /\ serial' = serial + 1
    /\ slots' = [slots EXCEPT ![t.slot] = [@ EXCEPT !.status = "ready", !.last_use = serial']]
    /\ UNCHANGED <<stats, issued>>

Release_SameSerial(t) ==
    /\ Checked(t, "in_use")
    /\ slots' = [slots EXCEPT ![t.slot] = [@ EXCEPT !.status = "ready", !.last_use = serial]]
    /\ UNCHANGED <<serial, stats, issued>>

Release_NotAUse(t) ==
    /\ Checked(t, "in_use")
    /\ slots' = [slots EXCEPT ![t.slot] = [@ EXCEPT !.status = "ready"]]
    /\ UNCHANGED <<serial, stats, issued>>

Release(t) ==
    /\ Checked(t, "in_use")
    /\ serial < MaxSerial
    /\ serial' = serial + 1
    /\ slots' = [slots EXCEPT ![t.slot] = [@ EXCEPT !.status = "ready", !.last_use = serial']]
    /\ UNCHANGED <<stats, issued>>

Usable(t, k) == Checked(t, "in_use") /\ slots[t.slot].key = k

Resident(k) == \E s \in Slot : slots[s].status \in {"ready", "in_use"} /\ slots[s].key = k

(* Slip: a clear that does not look for pins. *)
Clear_WhilePinned ==
    /\ slots' = [s \in Slot |-> [slots[s] EXCEPT !.status = "empty"]]
    /\ UNCHANGED <<serial, stats, issued>>

(* clear refuses while anything is pinned; keys, leases, generations stay. *)
Clear ==
    /\ \A s \in Slot : slots[s].status \notin Pinned
    /\ slots' = [s \in Slot |-> [slots[s] EXCEPT !.status = "empty"]]
    /\ UNCHANGED <<serial, stats, issued>>

CacheNext ==
    \/ \E k \in Key : Hit(k) \/ Load(k)
    \/ \E t \in issued : CompleteLoad(t, TRUE) \/ CompleteLoad(t, FALSE) \/ Release(t)
    \/ Clear

CacheSpec == CacheInit /\ [][CacheNext]_cacheVars

-----------------------------------------------------------------------------
Live(t) == Checked(t, "loading") \/ Checked(t, "in_use")

(* No expert is held twice.  Acquire scans only until the first match, so a
   duplicate would be evicted, released or overwritten behind its twin. *)
OneSlotPerKey ==
    \A s, t \in Slot : s # t /\ s \in Occupied => ~Holds(t, slots[s].key)

(* A pinned slot answers to exactly one of all the tickets ever issued, and
   that ticket was issued for the expert the slot holds now: no stale ticket
   can complete, release or read what belongs to a later acquire. *)
OneTicketPerPin ==
    \A s \in Slot : slots[s].status \in Pinned =>
        \E t \in issued :
            /\ t.slot = s /\ t.key = slots[s].key /\ Live(t)
            /\ \A u \in issued : u.slot = s /\ Live(u) => u = t

(* The clock behind leases and recency never repeats: no two tickets share a
   lease and no two occupied slots a last use, a slot's lease is not ahead of
   its last use, and no slot reloads more often than leases were drawn, so the
   generation counter cannot run out before the serial does. *)
ClockSound ==
    /\ \A s \in Slot :
         /\ slots[s].lease <= slots[s].last_use
         /\ slots[s].last_use <= serial
         /\ slots[s].generation <= slots[s].lease
    /\ \A s, t \in Occupied : slots[s].last_use = slots[t].last_use => s = t
    /\ \A t \in issued : t.lease <= serial
    /\ \A t, u \in issued : t.lease = u.lease => t = u

(* The counters balance: each load was completed, failed, or is in flight;
   what was loaded and not evicted, failed or cleared is still held. *)
StatsBalance ==
    /\ stats.loads = stats.completed + stats.failed + Cardinality(StatusOf("loading"))
    /\ stats.evictions + stats.failed + Cardinality(Occupied) <= stats.loads

(* A ticket that stopped being valid never becomes valid again, whatever its
   slot is loaded, released or pinned for later. *)
StaleForever ==
    [][\A t \in issued : ~Live(t) => ~Live(t)']_cacheVars

(* The steps that end what a ticket holds, or turn its load into a use. *)
Presents(t) == CompleteLoad(t, TRUE) \/ CompleteLoad(t, FALSE) \/ Release(t)

(* While a slot is loading or in use its expert stays, and only its own ticket
   moves it on: no acquire and no clear changes it, its status changes in a
   completion or a release alone, and every ticket presented in that step is
   the one issued for this expert, this load and this lease. *)
PinProtects ==
    [][\A s \in Slot : slots[s].status \in Pinned =>
          /\ slots'[s].key = slots[s].key
          /\ slots'[s].generation = slots[s].generation
          /\ slots'[s].lease = slots[s].lease
          /\ slots'[s].status # slots[s].status =>
                LET presented == {t \in issued : t.slot = s /\ Presents(t)}
                IN  /\ presented # {}
                    /\ \A t \in presented :
                         /\ t.key = slots[s].key
                         /\ t.generation = slots[s].generation
                         /\ t.lease = slots[s].lease]_cacheVars

-----------------------------------------------------------------------------
(* The abstract cache: an expert's state is its slot's, and recency is the
   order of last_use. *)
heldBar == [k \in Key |->
    IF \E s \in Slot : Holds(s, k)
    THEN slots[CHOOSE s \in Slot : Holds(s, k)].status ELSE "absent"]

olderBar == {p \in Key \X Key : \E s, t \in Slot :
    /\ Holds(s, p[1]) /\ Holds(t, p[2])
    /\ slots[s].last_use < slots[t].last_use}

Lru == INSTANCE ExpertLru WITH held <- heldBar, older <- olderBar

(* Slots, serials and tickets implement a least-recently-used cache that
   never evicts a pinned expert. *)
ImplementsLru == Lru!Spec
=============================================================================
