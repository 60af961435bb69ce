----------------------------- MODULE MoeStorage -----------------------------
(***************************************************************************)
(* ggml_moe_cache_storage (freetoken/src/cache.cpp): the slot table of     *)
(* MoeCache over a device arena.  One host thread acquires, computes and   *)
(* releases; the device executes its in-order stream of copies and kernels *)
(* behind it, so a copy reads its source, and a kernel its slots, some     *)
(* time after they were submitted.                                         *)
(*                                                                         *)
(* An expert is Chunks transfers of its three projections (a chunk is what *)
(* fits the staging buffer, or a whole projection when there is none), and *)
(* the bytes of chunk c of expert k are the pair <<k, c>>.                  *)
(***************************************************************************)
EXTENDS MoeCache, Sequences

CONSTANTS
    Chunks,     \* transfers an expert takes
    Staged,     \* transfer.staging_bytes # 0: copies go through staging_data
    MaxStream   \* bound on submitted, unfinished device work

ASSUME ChunksAssumption == Chunks \in Nat \ {0} /\ Staged \in BOOLEAN
ASSUME StreamAssumption == MaxStream \in Nat \ {0}

VARIABLES
    arena,      \* arena[s][c]: the bytes chunk c of slot s holds
    staging,    \* the bytes in staging_data
    stream,     \* the backend's queue of copies and kernels, oldest first
    load        \* the acquire in progress: its ticket, next chunk and step

storageVars == <<arena, staging, stream, load>>
vars == <<cacheVars, storageVars>>

Chunk == 1..Chunks
Bytes == (Key \X Chunk) \union {NoKey}
Copy  == [op : {"copy"}, slot : Slot, chunk : Chunk, src : Key \X Chunk]
Kernel == [op : {"kernel"}, slot : Slot, key : Key]
Idle  == [step |-> "idle"]
Loading == [step : {"check", "drain", "finish", "failed"}, ticket : Ticket, chunk : Chunk]

TypeOK ==
    /\ CacheTypeOK
    /\ arena \in [Slot -> [Chunk -> Bytes]]
    /\ staging \in Bytes
    /\ stream \in Seq(Copy \union Kernel) /\ Len(stream) <= MaxStream
    /\ load \in {Idle} \union Loading

Init ==
    /\ CacheInit
    /\ arena = [s \in Slot |-> [c \in Chunk |-> NoKey]]   \* ggml_backend_buffer_clear
    /\ staging = NoKey
    /\ stream = <<>>
    /\ load = Idle

-----------------------------------------------------------------------------
(* drain and ggml_backend_synchronize return once the stream has run dry. *)
Drained == stream = <<>>

(* The tickets callers hold: those the table still answers to. *)
Held == {t \in issued : Checked(t, "in_use")}

(* acquire and acquire_existing on a resident expert. *)
Pin(k) ==
    /\ load = Idle
    /\ Hit(k)
    /\ UNCHANGED storageVars

(* acquire on an uncached one: reserve, then transfer chunk by chunk. *)
StartLoad(k) ==
    /\ load = Idle
    /\ Load(k)
    /\ load' = [step |-> "check", chunk |-> 1,
                ticket |-> CHOOSE t \in issued' : t \notin issued]
    /\ UNCHANGED <<arena, staging, stream>>

(* abort_callback says stop before a chunk: the exception path. *)
Abort ==
    /\ load.step = "check"
    /\ load' = [load EXCEPT !.step = "failed"]
    /\ UNCHANGED <<cacheVars, arena, staging, stream>>

(* One chunk: into staging if there is one, and onto the stream.  A staged
   copy will read whatever staging holds when the device gets to it. *)
SubmitChunk ==
    LET src == <<load.ticket.key, load.chunk>> IN
    /\ load.step = "check"
    /\ Len(stream) < MaxStream
    /\ staging' = IF Staged THEN src ELSE staging
    /\ stream' = Append(stream, [op |-> "copy", slot |-> load.ticket.slot,
                                 chunk |-> load.chunk, src |-> src])
    /\ load' = IF Staged THEN [load EXCEPT !.step = "drain"]
               ELSE IF load.chunk < Chunks THEN [load EXCEPT !.chunk = @ + 1]
               ELSE [load EXCEPT !.step = "finish"]
    /\ UNCHANGED <<cacheVars, arena>>

(* Slips: the next chunk is staged without waiting, the chunk is not advanced,
   or one chunk too many is taken. *)
DrainChunk_NoWait ==
    /\ load.step = "drain"
    /\ load' = IF load.chunk < Chunks THEN [load EXCEPT !.step = "check", !.chunk = @ + 1]
                                      ELSE [load EXCEPT !.step = "finish"]
    /\ UNCHANGED <<cacheVars, arena, staging, stream>>

DrainChunk_NoAdvance ==
    /\ load.step = "drain"
    /\ Drained
    /\ load' = [load EXCEPT !.step = "check"]
    /\ UNCHANGED <<cacheVars, arena, staging, stream>>

DrainChunk_PastEnd ==
    /\ load.step = "drain"
    /\ Drained
    /\ load' = IF load.chunk <= Chunks THEN [load EXCEPT !.step = "check", !.chunk = @ + 1]
                                       ELSE [load EXCEPT !.step = "finish"]
    /\ UNCHANGED <<cacheVars, arena, staging, stream>>

(* "Do not overwrite a pending DMA source." *)
DrainChunk ==
    /\ load.step = "drain"
    /\ Drained
    /\ load' = IF load.chunk < Chunks THEN [load EXCEPT !.step = "check", !.chunk = @ + 1]
                                      ELSE [load EXCEPT !.step = "finish"]
    /\ UNCHANGED <<cacheVars, arena, staging, stream>>

(* Slip: the load is completed while its last transfers are still queued. *)
FinishLoad_NoWait ==
    /\ load.step = "finish"
    /\ CompleteLoad(load.ticket, TRUE)
    /\ load' = Idle
    /\ UNCHANGED <<arena, staging, stream>>

FinishLoad ==
    /\ load.step = "finish"
    /\ Drained
    /\ CompleteLoad(load.ticket, TRUE)
    /\ load' = Idle
    /\ UNCHANGED <<arena, staging, stream>>

(* Slip: an aborted load completes like any other. *)
FailLoad_Completes ==
    /\ load.step = "failed"
    /\ Drained
    /\ CompleteLoad(load.ticket, TRUE)
    /\ load' = Idle
    /\ UNCHANGED <<arena, staging, stream>>

(* catch: synchronize, give the slot back empty, rethrow. *)
FailLoad ==
    /\ load.step = "failed"
    /\ Drained
    /\ CompleteLoad(load.ticket, FALSE)
    /\ load' = Idle
    /\ UNCHANGED <<arena, staging, stream>>

(* A caller submits a kernel that reads a slot it has pinned (tensor). *)
Submit(t) ==
    /\ load = Idle
    /\ Usable(t, t.key)
    /\ Len(stream) < MaxStream
    /\ stream' = Append(stream, [op |-> "kernel", slot |-> t.slot, key |-> t.key])
    /\ UNCHANGED <<cacheVars, arena, staging, load>>

(* Slip: a slot is released under the kernels that read it. *)
Unpin_NoWait(t) ==
    /\ load = Idle
    /\ Release(t)
    /\ UNCHANGED storageVars

(* release: drain the backend, then unpin. *)
Unpin(t) ==
    /\ load = Idle
    /\ Usable(t, t.key)
    /\ Drained
    /\ Release(t)
    /\ UNCHANGED storageVars

ClearStorage ==
    /\ load = Idle
    /\ Drained
    /\ Clear
    /\ UNCHANGED storageVars

(* The device runs the oldest piece of work. *)
Device ==
    /\ stream # <<>>
    /\ LET w == Head(stream) IN
       arena' = IF w.op = "copy"
                THEN [arena EXCEPT ![w.slot][w.chunk] = IF Staged THEN staging ELSE w.src]
                ELSE arena
    /\ stream' = Tail(stream)
    /\ UNCHANGED <<cacheVars, staging, load>>

(* The rest of an acquire under way; the caller waits for it. *)
LoadStep == SubmitChunk \/ DrainChunk \/ FinishLoad \/ FailLoad

Next ==
    \/ \E k \in Key : Pin(k) \/ StartLoad(k)
    \/ LoadStep \/ Abort
    \/ \E t \in issued : Submit(t) \/ Unpin(t)
    \/ ClearStorage
    \/ Device

(* The device works through its stream and a running acquire proceeds; what
   the caller does next is its own affair. *)
Spec == Init /\ [][Next]_vars
FairSpec == Spec /\ WF_vars(Device) /\ WF_vars(LoadStep)

-----------------------------------------------------------------------------
(* What a cached slot answers for is what its bytes are: every chunk of a
   ready or in-use slot is the matching chunk of its expert, whatever was
   loaded, aborted or evicted there before. *)
ContentIsExpert ==
    \A s \in Slot : slots[s].status \in {"ready", "in_use"} =>
        \A c \in Chunk : arena[s][c] = <<slots[s].key, c>>

(* The device is never still working on a slot that is up for eviction:
   "Call only after every kernel using the ticket completes", and a failed
   load is emptied only after its transfers drained. *)
NoWorkOnFreeSlot ==
    \A i \in 1..Len(stream) : slots[stream[i].slot].status \in Pinned

(* A pending copy out of the staging buffer finds there what it was queued
   for: no later chunk has been written over it. *)
PendingSourceIntact ==
    Staged => \A i \in 1..Len(stream) : stream[i].op = "copy" => staging = stream[i].src

(* An acquire that starts a load comes back, with the expert or an error. *)
LoadEnds == load # Idle ~> load = Idle
=============================================================================
