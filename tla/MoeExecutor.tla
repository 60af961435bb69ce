---------------------------- MODULE MoeExecutor ----------------------------
(***************************************************************************)
(* cached_executor::execute (freetoken/src/moe.cpp) with its GPU branch,   *)
(* execute_ffn over the expert cache of MoeStorage, and its CPU branch, a  *)
(* worker that computes the misses assigned to it from host memory.        *)
(*                                                                         *)
(* Four actors interleave: the scheduler thread (host), the transfer       *)
(* stream of MoeStorage, the compute stream (kernel) and the CPU worker.   *)
(* With options.pipeline the two streams belong to two backends and are    *)
(* not ordered with each other.  The abort callback may fire at any point  *)
(* where the code asks it, a graph may fail and the worker may throw.      *)
(*                                                                         *)
(* Contents are symbolic: an output is the key whose bytes produced it.    *)
(***************************************************************************)
EXTENDS MoeStorage, RoutePlan

CONSTANTS
    Layer, Expert,      \* a key is a layer and an expert of it
    Pipeline,           \* options.pipeline: prefetch over a second backend
    Hybrid,             \* options.cpu_miss_percent # 0
    BatchLimit,         \* assignments per kernel launch
    MaxAssignments,     \* bound on n_tokens * top_k
    MaxCalls            \* bound on execute calls

ASSUME LayoutAssumption == Key = Layer \X Expert
ASSUME OptionsAssumption == Pipeline \in BOOLEAN /\ Hybrid \in BOOLEAN
ASSUME BatchAssumption == BatchLimit \in Nat \ {0}
ASSUME RoutingAssumption == MaxAssignments \in Nat /\ IsFiniteSet(Expert)

VARIABLES
    host,       \* where the scheduler thread stands: step, tile, pos, begin
    call,       \* arguments of the current call and the split it chose
    tiles,      \* the route tiles still in use
    leases,     \* leases[e]: the ticket held for expert e, or NoTicket
    kernel,     \* the graph in flight on the compute backend, or NoKernel
    outputs,    \* outputs[a]: the key whose weights produced row a
    worker,     \* the CPU branch: state, experts left, rows computed
    stop,       \* the worker's abort flag
    calls,      \* calls begun
    touched     \* history: experts resident at the start and loaded since

executorVars == <<host, call, tiles, leases, kernel, outputs, worker, stop, calls, touched>>
allVars == <<vars, executorVars>>

NoTicket == [slot |-> 0]
NoKernel == [state |-> "none"]
NoWorker == [state |-> "none"]
AtRest   == [step |-> "idle", tile |-> 0, pos |-> 0, begin |-> 0]
NoRow == <<>>           \* a row of expert_outputs still zero
Mixed == <<NoKey>>      \* a row computed from bytes that are not one expert

ExecutorInit ==
    /\ Init
    /\ host = AtRest
    /\ call = [reply |-> "none"]
    /\ tiles = <<>>
    /\ leases = [e \in Expert |-> NoTicket]
    /\ kernel = NoKernel
    /\ outputs = <<>>
    /\ worker = NoWorker
    /\ stop = FALSE
    /\ calls = 0
    /\ touched = [hits |-> {}, loads |-> {}]

-----------------------------------------------------------------------------
KeyOf(e) == <<call.layer, e>>
Tile     == tiles[host.tile]
Go(step) == host' = [host EXCEPT !.step = step, !.pos = 1]
At(step) == host.step = step

(* Assignments of the tile the next launch takes. *)
Batch == SubSeq(Tile.assignments, host.begin,
                IF host.begin + BatchLimit - 1 < Len(Tile.assignments)
                THEN host.begin + BatchLimit - 1 ELSE Len(Tile.assignments))

TileCap == TileCapacity(Capacity, Pipeline)
Routed(ids) == {ids[a] : a \in DOMAIN ids}
Routings == UNION {[1..n -> Expert] : n \in 1..MaxAssignments}

(* execute: the misses, in the router's order, are split at cpu_count; any
   count can come out of the configured or measured fraction.  The plan of the
   GPU branch is pure and made here too. *)
Execute(layer, ids) ==
    /\ At("idle") /\ calls < MaxCalls
    /\ LET order == ExpertsInOrder(PlanRoutes(ids, Cardinality(Expert)))
           misses == Filter(order, {e \in Expert : ~Resident(<<layer, e>>)})
       IN \E cpu_count \in IF Hybrid THEN 0..Len(misses) ELSE {0} :
            LET cpu == SubSeq(misses, 1, cpu_count) IN
            /\ call' = [reply |-> "none", layer |-> layer, ids |-> ids, cpu |-> cpu]
            /\ tiles' = KeepSelected(PlanRoutes(ids, TileCap), ids, Expert \ ToSet(cpu))
    /\ calls' = calls + 1
    /\ touched' = [hits |-> {e \in Routed(ids) : Resident(<<layer, e>>)}, loads |-> {}]
    /\ outputs' = [a \in DOMAIN ids |-> NoRow]
    /\ host' = [step |-> "start", tile |-> 1, pos |-> 1, begin |-> 1]
    /\ UNCHANGED <<vars, leases, kernel, worker, stop>>

(* The worker starts on its experts; with none the call is GPU only. *)
StartWorker ==
    /\ At("start")
    /\ worker' = IF call.cpu = <<>> THEN NoWorker
                 ELSE [state |-> "running", left |-> call.cpu,
                       rows |-> [a \in DOMAIN call.ids |-> NoRow]]
    /\ stop' = FALSE
    /\ Go("pin")
    /\ UNCHANGED <<vars, call, tiles, leases, kernel, outputs, calls, touched>>

(* Slip: resident experts are left unpinned until their tile. *)
PinHit_Unpinned ==
    /\ At("pin") /\ host.pos <= Len(ExpertsInOrder(tiles))
    /\ host' = [host EXCEPT !.pos = @ + 1]
    /\ UNCHANGED <<vars, call, tiles, leases, kernel, outputs, worker, stop, calls, touched>>

(* prioritize_hits: pin each expert that is resident, then retile. *)
PinHit ==
    LET order == ExpertsInOrder(tiles) IN
    /\ At("pin") /\ host.pos <= Len(order)
    /\ LET e == order[host.pos] IN
       CASE Answer(KeyOf(e), TRUE) = "hit" ->
              /\ Pin(KeyOf(e))
              /\ leases' = [leases EXCEPT ![e] = CHOOSE t \in issued' : t \notin issued]
              /\ host' = [host EXCEPT !.pos = @ + 1]
         [] Answer(KeyOf(e), TRUE) = "miss" ->
              /\ host' = [host EXCEPT !.pos = @ + 1]
              /\ UNCHANGED <<vars, leases>>
         [] OTHER ->
              /\ Go("logic_error")
              /\ UNCHANGED <<vars, leases>>
    /\ UNCHANGED <<call, tiles, kernel, outputs, worker, stop, calls, touched>>

Leased == {e \in Expert : leases[e] # NoTicket}

Retile ==
    /\ At("pin") /\ host.pos > Len(ExpertsInOrder(tiles))
    /\ tiles' = Retiled(HitsThenMisses(tiles, Leased), call.ids, TileCap)
    /\ Go("tile")
    /\ UNCHANGED <<vars, call, leases, kernel, outputs, worker, stop, calls, touched>>

(* The tile loop: the next tile, or the GPU branch is done. *)
NextTile ==
    /\ At("tile")
    /\ IF host.tile <= Len(tiles)
       THEN host' = [host EXCEPT !.step = "load", !.pos = 1, !.begin = 1]
       ELSE Go("join")
    /\ UNCHANGED <<vars, call, tiles, leases, kernel, outputs, worker, stop, calls, touched>>

(* load_expert for the experts of a tile, one after the other; `next` is
   where the loop goes when all have been seen. *)
LoadExperts(step, experts, optional, next) ==
    /\ At(step) /\ load = Idle
    /\ IF host.pos > Len(experts) THEN
            /\ Go(next)
            /\ UNCHANGED <<vars, touched>>
       ELSE LET e == experts[host.pos] IN
            CASE leases[e] # NoTicket \/ (optional /\ Answer(KeyOf(e), FALSE) = "full") ->
                    /\ host' = [host EXCEPT !.pos = @ + 1]
                    /\ UNCHANGED <<vars, touched>>
              [] leases[e] = NoTicket /\ Answer(KeyOf(e), FALSE) = "load" ->
                    /\ StartLoad(KeyOf(e))
                    /\ touched' = [touched EXCEPT !.loads = @ \union {e}]
                    /\ UNCHANGED host
              [] OTHER ->
                    /\ Go("logic_error")
                    /\ UNCHANGED <<vars, touched>>
    /\ UNCHANGED <<call, tiles, leases, kernel, outputs, worker, stop, calls>>

LoadTile == host.tile <= Len(tiles) /\ LoadExperts("load", Tile.experts, FALSE, "launch")
Prefetch == host.tile < Len(tiles)
            /\ LoadExperts("prefetch", tiles[host.tile + 1].experts, TRUE, "sync")

(* storage.acquire returns: the ticket joins the leases, or it rethrows. *)
Loaded ==
    /\ FinishLoad
    /\ leases' = [leases EXCEPT ![load.ticket.key[2]] = load.ticket]
    /\ host' = [host EXCEPT !.pos = @ + 1]
    /\ UNCHANGED <<call, tiles, kernel, outputs, worker, stop, calls, touched>>

LoadThrows ==
    /\ FailLoad
    /\ Go("unwind")
    /\ UNCHANGED <<call, tiles, leases, kernel, outputs, worker, stop, calls, touched>>

Transfer ==
    /\ SubmitChunk \/ DrainChunk
    /\ UNCHANGED executorVars

(* A batch is uploaded, each row with the slot the lease of its expert names,
   and its graph submitted; it reads the slots through the whole-pool tensors.
   A graph that fails to launch is noticed only after the synchronize. *)
Launch(ok) ==
    /\ At("launch")
    /\ kernel' = [state |-> IF ok THEN "running" ELSE "failed",
                  key  |-> [a \in ToSet(Batch) |-> KeyOf(call.ids[a])],
                  slot |-> [a \in ToSet(Batch) |-> leases[call.ids[a]].slot]]
    /\ Go(IF ok /\ Pipeline /\ host.begin = 1 /\ host.tile < Len(tiles) THEN "prefetch" ELSE "sync")
    /\ UNCHANGED <<vars, call, tiles, leases, outputs, worker, stop, calls, touched>>

(* The compute stream finishes: each row comes from the bytes then in the
   slot it was given. *)
Compute ==
    LET Whole(slot) == {k \in Key : \A c \in Chunk : arena[slot][c] = <<k, c>>}
        Row(a) == IF Whole(kernel.slot[a]) = {} THEN Mixed
                  ELSE CHOOSE k \in Whole(kernel.slot[a]) : TRUE
    IN
    /\ kernel.state = "running"
    /\ kernel' = [state |-> "done", out |-> [a \in DOMAIN kernel.slot |-> Row(a)]]
    /\ UNCHANGED <<vars, host, call, tiles, leases, outputs, worker, stop, calls, touched>>

(* synchronize returned: scatter the rows, then the next batch of the tile or
   the release of its slots; a failed graph throws. *)
ReadBack ==
    /\ At("sync") /\ load = Idle
    /\ kernel.state \in {"done", "failed"}
    /\ kernel' = NoKernel
    /\ IF kernel.state = "failed" THEN Go("unwind") /\ UNCHANGED outputs
       ELSE /\ outputs' = [a \in DOMAIN outputs |->
                              IF a \in DOMAIN kernel.out THEN kernel.out[a] ELSE outputs[a]]
            /\ host' = IF host.begin + BatchLimit <= Len(Tile.assignments)
                       THEN [host EXCEPT !.step = "launch", !.begin = @ + BatchLimit]
                       ELSE [host EXCEPT !.step = "release", !.pos = 1]
    /\ UNCHANGED <<vars, call, tiles, leases, worker, stop, calls, touched>>

(* Slips: tickets dropped without a release, or the same tile taken again. *)
ReleaseTile_Forgets ==
    /\ At("release")
    /\ leases' = [e \in Expert |-> IF e \in ToSet(Tile.experts) THEN NoTicket ELSE leases[e]]
    /\ host' = [host EXCEPT !.step = "tile", !.tile = @ + 1]
    /\ UNCHANGED <<vars, call, tiles, kernel, outputs, worker, stop, calls, touched>>

ReleaseTile_SameTile ==
    /\ At("release")
    /\ IF host.pos > Len(Tile.experts)
       THEN /\ host' = [host EXCEPT !.step = "tile"]
            /\ UNCHANGED <<vars, leases>>
       ELSE LET e == Tile.experts[host.pos] IN
            /\ Unpin(leases[e])
            /\ leases' = [leases EXCEPT ![e] = NoTicket]
            /\ host' = [host EXCEPT !.pos = @ + 1]
    /\ UNCHANGED <<call, tiles, kernel, outputs, worker, stop, calls, touched>>

(* A tile's tickets are released as soon as its last batch has been read. *)
ReleaseTile ==
    /\ At("release")
    /\ IF host.pos > Len(Tile.experts)
       THEN /\ host' = [host EXCEPT !.step = "tile", !.tile = @ + 1]
            /\ UNCHANGED <<vars, leases>>
       ELSE LET e == Tile.experts[host.pos] IN
            /\ Unpin(leases[e])
            /\ leases' = [leases EXCEPT ![e] = NoTicket]
            /\ host' = [host EXCEPT !.pos = @ + 1]
    /\ UNCHANGED <<call, tiles, kernel, outputs, worker, stop, calls, touched>>

(* check_cancel, wherever the code calls it, ... *)
CancelPoint ==
    \/ At("start") /\ call.cpu # <<>>
    \/ At("pin") /\ host.pos = 1 /\ Leased = {}
    \/ At("launch")
    \/ At("tile") /\ host.tile <= Len(tiles)
    \/ At("sync") /\ load = Idle /\ kernel.state = "done"
    \/ At("join") /\ worker.state # "none"

(* ... or the abort callback inside storage.acquire. *)
Cancel ==
    \/ /\ CancelPoint
       /\ Go("unwind")
       /\ UNCHANGED <<vars, call, tiles, leases, kernel, outputs, worker, stop, calls, touched>>
    \/ Abort /\ UNCHANGED executorVars

(* Slip: tickets released under a running graph. *)
Unwind_NoDrain ==
    /\ At("unwind")
    /\ IF Leased = {}
       THEN Go("abandon") /\ UNCHANGED <<vars, leases>>
       ELSE LET e == CHOOSE e \in Leased : TRUE IN
            /\ Unpin(leases[e])
            /\ leases' = [leases EXCEPT ![e] = NoTicket]
            /\ UNCHANGED host
    /\ UNCHANGED <<call, tiles, kernel, outputs, worker, stop, calls, touched>>

(* The exception leaves execute_ffn: backend_drain waits for the compute
   stream, then ~cache_leases releases every ticket still held, ... *)
Unwind ==
    /\ At("unwind")
    /\ kernel.state # "running"
    /\ IF Leased = {}
       THEN Go("abandon") /\ kernel' = NoKernel /\ UNCHANGED <<vars, leases>>
       ELSE LET e == CHOOSE e \in Leased : TRUE IN
            /\ Unpin(leases[e])
            /\ leases' = [leases EXCEPT ![e] = NoTicket]
            /\ kernel' = NoKernel
            /\ UNCHANGED host
    /\ UNCHANGED <<call, tiles, outputs, worker, stop, calls, touched>>

(* ... and execute stops the worker and waits for it before rethrowing. *)
RaiseStop ==
    /\ At("abandon") /\ worker.state = "running" /\ ~stop
    /\ stop' = TRUE
    /\ UNCHANGED <<vars, host, call, tiles, leases, kernel, outputs, worker, calls, touched>>

(* execute returns or throws; a worker still running is not stopped by that. *)
Return(reply) ==
    /\ call' = [call EXCEPT !.reply = reply]
    /\ host' = AtRest
    /\ worker' = IF worker.state = "running" THEN worker ELSE NoWorker
    /\ tiles' = <<>>

(* Slip: rethrown before the worker has stopped. *)
Rethrow_NoWait ==
    /\ At("abandon")
    /\ Return("error")
    /\ UNCHANGED <<vars, leases, kernel, outputs, stop, calls, touched>>

Rethrow ==
    /\ At("abandon") /\ worker.state # "running"
    /\ Return("error")
    /\ UNCHANGED <<vars, leases, kernel, outputs, stop, calls, touched>>

(* Slip: the worker's rows are not merged. *)
Join_NoMerge ==
    /\ At("join")
    /\ worker.state # "running"
    /\ Return(IF worker.state = "threw" THEN "error" ELSE "ok")
    /\ UNCHANGED <<vars, leases, kernel, outputs, stop, calls, touched>>

(* worker.get: the CPU's rows are merged by ownership, or it rethrows. *)
Join ==
    /\ At("join")
    /\ \/ /\ worker.state = "none"
          /\ Return("ok")
          /\ UNCHANGED outputs
       \/ /\ worker.state = "finished"
          /\ Return("ok")
          /\ outputs' = [a \in DOMAIN outputs |->
                            IF Contains(call.cpu, call.ids[a]) THEN worker.rows[a] ELSE outputs[a]]
       \/ /\ worker.state = "threw"
          /\ Return("error")
          /\ UNCHANGED outputs
    /\ UNCHANGED <<vars, leases, kernel, stop, calls, touched>>

-----------------------------------------------------------------------------
(* The CPU branch: execute_ffn without a cache, one expert per tile, checking
   the stop flag before each. *)
WorkerTile ==
    /\ worker.state = "running"
    /\ worker' =
         IF worker.left = <<>> THEN [worker EXCEPT !.state = "finished"]
         ELSE IF stop THEN [worker EXCEPT !.state = "threw"]
         ELSE [worker EXCEPT !.left = Tail(@),
                 !.rows = [a \in DOMAIN @ |->
                     IF call.ids[a] = Head(worker.left) THEN KeyOf(call.ids[a]) ELSE @[a]]]
    /\ UNCHANGED <<vars, host, call, tiles, leases, kernel, outputs, stop, calls, touched>>

(* Out of memory, or a failed graph, on the CPU. *)
WorkerThrows ==
    /\ worker.state = "running"
    /\ worker' = [worker EXCEPT !.state = "threw"]
    /\ UNCHANGED <<vars, host, call, tiles, leases, kernel, outputs, stop, calls, touched>>

DeviceCopies == Device /\ UNCHANGED executorVars

-----------------------------------------------------------------------------
(* What the scheduler thread does when nothing goes wrong: it never stops
   between two of these steps of its own accord. *)
HostStep ==
    \/ StartWorker \/ PinHit \/ Retile \/ NextTile \/ LoadTile \/ Prefetch
    \/ Loaded \/ LoadThrows
    \/ Transfer \/ Launch(TRUE) \/ ReadBack \/ ReleaseTile \/ Unwind \/ RaiseStop
    \/ Rethrow \/ Join

ExecutorNext ==
    \/ \E layer \in Layer, ids \in Routings : Execute(layer, ids)
    \/ HostStep
    \/ Cancel \/ Launch(FALSE)
    \/ WorkerTile \/ WorkerThrows
    \/ Compute
    \/ DeviceCopies

ExecutorSpec == ExecutorInit /\ [][ExecutorNext]_allVars
                /\ WF_allVars(HostStep) /\ WF_allVars(WorkerTile)
                /\ WF_allVars(Compute) /\ WF_allVars(DeviceCopies)

-----------------------------------------------------------------------------
(* The two logic_errors cannot happen: prioritize_hits never meets a routed
   expert that is pending or busy, and a tile's miss always finds a slot,
   whatever is pinned for its own tile, for later tiles or by the prefetch. *)
NoLogicError == ~At("logic_error")

(* While a graph is in flight, every slot it was given holds its expert whole
   and no transfer is queued for it: prefetching the next tile over the second
   stream never touches what the compute stream is reading. *)
KernelUndisturbed ==
    kernel.state = "running" => \A a \in DOMAIN kernel.slot :
        /\ \A c \in Chunk : arena[kernel.slot[a]][c] = <<kernel.key[a], c>>
        /\ \A i \in DOMAIN stream : stream[i].slot # kernel.slot[a]

(* A call that returns normally has computed every assignment with the expert
   the router chose, on whichever branch and from whichever slot. *)
OutputsRight ==
    At("idle") /\ call.reply = "ok" => \A a \in DOMAIN outputs : outputs[a] = KeyOf(call.ids[a])

(* However a call ended - normally, cancelled, after a failed transfer, graph
   or worker - nothing of it is left: no pinned slot, no ticket, no transfer,
   no graph and no worker using the caller's buffers. *)
NothingLeftBehind ==
    At("idle") =>
        /\ \A s \in Slot : slots[s].status \notin Pinned
        /\ \A e \in Expert : leases[e] = NoTicket
        /\ load = Idle /\ stream = <<>>
        /\ kernel = NoKernel /\ worker = NoWorker

(* A call transfers no expert that was resident when it began, and none twice:
   "a miss early in the router's order cannot evict a hit needed by a later
   tile", nor can the prefetch evict what the current call still needs. *)
NoNeedlessTransfer ==
    [][load = Idle /\ load' # Idle =>
          load'.ticket.key[2] \notin touched.hits \union touched.loads]_allVars

(* Every call returns, whether or not it is cancelled: the scheduler, the two
   streams and the worker never wait for each other in a circle. *)
CallEnds == ~At("idle") ~> At("idle")
=============================================================================
