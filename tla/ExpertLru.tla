----------------------------- MODULE ExpertLru -----------------------------
(***************************************************************************)
(* What the expert cache promises its callers, with no slot, ticket,       *)
(* generation or serial number in sight: at most Capacity experts are      *)
(* held; an expert is pinned from the call that returns it until it is     *)
(* released; only unpinned experts are evicted, the one touched longest    *)
(* ago first.  MoeCache implements this.                                   *)
(***************************************************************************)
EXTENDS Integers, FiniteSets

CONSTANTS Key, Capacity

VARIABLES
    held,    \* held[k]: "absent", "loading", "ready" (evictable) or "in_use"
    older    \* <<a, b>> \in older: held expert a was touched before held b

vars == <<held, older>>

Held  == {k \in Key : held[k] # "absent"}
Ready == {k \in Key : held[k] = "ready"}

TypeOK ==
    /\ held \in [Key -> {"absent", "loading", "ready", "in_use"}]
    /\ older \subseteq Key \X Key

(* The pairs of R that do not mention k. *)
Without(R, k) == {p \in R : p[1] # k /\ p[2] # k}

(* k becomes the youngest of the set H. *)
Touch(R, H, k) == Without(R, k) \union ((H \ {k}) \X {k})

Init ==
    /\ held = [k \in Key |-> "absent"]
    /\ older = {}

(* A resident expert is pinned. *)
Pin(k) ==
    /\ held[k] = "ready"
    /\ held' = [held EXCEPT ![k] = "in_use"]
    /\ older' = Touch(older, Held, k)

(* There is room: the expert's load starts. *)
Reserve(k) ==
    /\ held[k] = "absent"
    /\ Cardinality(Held) < Capacity
    /\ held' = [held EXCEPT ![k] = "loading"]
    /\ older' = Touch(older, Held, k)

(* There is none: the unpinned expert v touched longest ago makes way. *)
Replace(v, k) ==
    /\ held[k] = "absent"
    /\ Cardinality(Held) = Capacity
    /\ held[v] = "ready"
    /\ \A w \in Ready \ {v} : <<v, w>> \in older
    /\ held' = [held EXCEPT ![v] = "absent", ![k] = "loading"]
    /\ older' = Touch(Without(older, v), Held \ {v}, k)

Loaded(k) ==
    /\ held[k] = "loading"
    /\ held' = [held EXCEPT ![k] = "in_use"]
    /\ UNCHANGED older

LoadFailed(k) ==
    /\ held[k] = "loading"
    /\ held' = [held EXCEPT ![k] = "absent"]
    /\ older' = Without(older, k)

Unpin(k) ==
    /\ held[k] = "in_use"
    /\ held' = [held EXCEPT ![k] = "ready"]
    /\ older' = Touch(older, Held, k)

(* Everything goes at once, and only when nothing is pinned. *)
Clear ==
    /\ Held = Ready
    /\ held' = [k \in Key |-> "absent"]
    /\ older' = {}

Next ==
    \/ \E k \in Key : Pin(k) \/ Reserve(k) \/ Loaded(k) \/ LoadFailed(k) \/ Unpin(k)
    \/ \E v, k \in Key : Replace(v, k)
    \/ Clear

Spec == Init /\ [][Next]_vars
=============================================================================
