----------------------------- MODULE MoeRuntime -----------------------------
(***************************************************************************)
(* The life of a cached_executor (freetoken/src/moe.cpp) across calls: one *)
(* cache per weight layout, of which a call selects one; the expert        *)
(* workspace and the merge workspace, kept from call to call within one    *)
(* compute budget; resize; and the calibration of the hybrid mode against  *)
(* a worker thread.                                                        *)
(*                                                                         *)
(* A call is cut into batches of one resident expert each: how experts are *)
(* tiled, pinned and loaded is MoeExecutor's concern.  Here the concern is *)
(* what the work queued on the device refers to, while caches and          *)
(* workspaces are freed and replaced.                                      *)
(***************************************************************************)
EXTENDS Sums, FiniteSets, SequencesExt

CONSTANTS
    Layer, Expert,
    Layout,             \* the weight layouts, 1 up to their number
    LayoutOf,           \* layer_cache: the layout of each layer
    Slots,              \* the slots a layout can be given by allocate
    Count,              \* assignments of a batch
    TopK,               \* routes of a device-resident call
    Threads,            \* values of n_threads
    ComputeBytes,       \* options.compute_bytes, in rows
    TableBytes,         \* the activation table, in rows
    MaxBatches, MaxCalls, MaxProbes \* bounds on a behaviour

ASSUME RuntimeAssumption ==
    /\ LayoutOf \in [Layer -> Layout]
    /\ IsFiniteSet(Layout) /\ Layout = 1..Cardinality(Layout) /\ 1 \in Layout
    /\ Slots \subseteq Nat \ {0} /\ Count \subseteq Nat \ {0} /\ TopK \subseteq Nat \ {0}
    /\ {ComputeBytes, TableBytes, MaxBatches, MaxCalls, MaxProbes} \subseteq Nat

VARIABLES
    calibrates,  \* options.cpu_miss_percent = -1, else device tensors are on
    caches,      \* the cache of each layout
    resizes,     \* resizes done: which caches these are
    cache,       \* the layout whose cache is selected
    workspace,   \* the retained expert_workspace, or None
    merge,       \* the retained device_merge_workspace, or None
    stream,      \* work queued on the backend, and what it refers to
    call,        \* the call being executed: its step and arguments
    worker,      \* the calibration worker
    stop,        \* its stop flag
    calibration, \* calibrated_threads, calibration_loads
    traffic,     \* history: loads made for calls since the last resize
    calls        \* calls begun

runtimeVars == <<calibrates, caches, resizes, cache, workspace, merge, stream,
                 call, worker, stop, calibration, traffic, calls>>

steady == <<calibrates, resizes, cache, calls>>
spaces == <<workspace, merge>>
probing == <<worker, stop, calibration>>
pool == <<caches, traffic>>

None == [rows |-> 0]
Idle == [step |-> "idle"]

(* The arena of the selected cache: slots are never shared between layouts *)
(* nor with the caches of before a resize.                                 *)
Arena == <<cache, resizes>>

Fresh(slots) == [slots |-> slots, resident |-> {}, loads |-> 0]

RuntimeInit ==
    /\ calibrates \in BOOLEAN
    /\ \E s \in [Layout -> Slots] : caches = [l \in Layout |-> Fresh(s[l])]
    /\ resizes = 0
    /\ cache = 1
    /\ workspace = None
    /\ merge = None
    /\ stream = <<>>
    /\ call = Idle
    /\ worker = "none"
    /\ stop = FALSE
    /\ calibration = [threads |-> 0, loads |-> 0]
    /\ traffic = 0
    /\ calls = 0

Queue(op) == stream' = Append(stream, op)
Queued(object) == \E i \in DOMAIN stream : object \in stream[i].uses
Goto(step) == call' = [call EXCEPT !.step = step]

-----------------------------------------------------------------------------
(* Beginning a call.                                                       *)

(* impl::select: the workspace's graph reads the tensors of one cache.     *)
Select(l) ==
    /\ cache' = LayoutOf[l]
    /\ IF cache' = cache THEN UNCHANGED workspace
       ELSE stream = <<>> /\ workspace' = None

(* execute: the merge workspace goes, the layer's cache is selected, and   *)
(* the first call for a number of threads calibrates.                      *)
Execute(l, batches, threads) ==
    /\ call.step = "idle"
    /\ calls < MaxCalls
    /\ calls' = calls + 1
    /\ merge' = None
    /\ Select(l)
    /\ call' = [step |-> IF calibrates /\ calibration.threads # threads THEN "calibrate"
                         ELSE "load",
                device |-> FALSE, batches |-> batches, threads |-> threads, probes |-> 0,
                loads |-> 0]
    /\ UNCHANGED <<calibrates, resizes, stream, probing, pool>>

(* execute_device, up to the merge workspace: only without a CPU share.    *)
ExecuteDevice(l, batches, k) ==
    /\ call.step = "idle"
    /\ ~calibrates
    /\ calls < MaxCalls
    /\ calls' = calls + 1
    /\ Select(l)
    /\ call' = [step |-> "merge", device |-> TRUE, batches |-> batches, k |-> k]
    /\ UNCHANGED <<calibrates, resizes, merge, stream, probing, pool>>

(* The merge workspace is rebuilt for another top_k, the old one first;    *)
(* it must fit beside the retained expert workspace and the table.         *)
(* Slip: the retained workspace is not counted.                            *)
MergeFits_Alone(k) == k + TableBytes <= ComputeBytes
MergeFits(k) == k + workspace.rows + TableBytes <= ComputeBytes

BuildMerge ==
    /\ call.step = "merge"
    /\ \/ merge.rows = call.k /\ UNCHANGED merge /\ Goto("routes")
       \/ merge.rows # call.k /\ MergeFits(call.k)
            /\ merge' = [rows |-> call.k] /\ Goto("routes")
       \/ merge.rows # call.k /\ merge' = None /\ Goto("unwind")
    /\ UNCHANGED <<workspace, stream, steady, probing, pool>>

(* The routes are read back and the weights copied towards the merge.      *)
ReadRoutes ==
    /\ call.step = "routes"
    /\ Queue([op |-> "weights", uses |-> {"merge"}])
    /\ Goto("load")
    /\ UNCHANGED <<steady, spaces, probing, pool>>

-----------------------------------------------------------------------------
(* execute_ffn, batch by batch.                                            *)

(* acquire: e is a hit, or takes a slot, evicting another if none is free. *)
Acquired(c, e) ==
    IF e \in c.resident THEN {c}
    ELSE {[c EXCEPT !.resident = (@ \ out) \cup {e}, !.loads = @ + 1] :
              out \in IF Cardinality(c.resident) < c.slots THEN {{}} ELSE {{o} : o \in c.resident}}

LoadExpert(e) ==
    /\ call.step = "load"
    /\ \E c \in Acquired(caches[cache], e) :
           /\ caches' = [caches EXCEPT ![cache] = c]
           /\ traffic' = traffic + c.loads - caches[cache].loads
    /\ Goto("arena")
    /\ UNCHANGED <<stream, steady, spaces, probing>>

(* The expert workspace is reused for the same shape; else the old one is  *)
(* freed and a new one built within what the merge leaves of the budget.   *)
WorkspaceFits(n) ==
    n + TableBytes <= ComputeBytes - (IF call.device THEN merge.rows ELSE 0)

EnsureWorkspace(n) ==
    /\ call.step = "arena"
    /\ \/ workspace.rows = n /\ UNCHANGED workspace /\ Goto("launch")
       \/ workspace.rows # n /\ WorkspaceFits(n)
            /\ workspace' = [rows |-> n, arena |-> Arena] /\ Goto("launch")
       \/ workspace.rows # n /\ workspace' = None /\ Goto("unwind")
    /\ UNCHANGED <<merge, stream, steady, probing, pool>>

(* Inputs are uploaded and the graph is started over the arena it was      *)
(* built for.                                                              *)
LaunchGraph ==
    /\ call.step = "launch"
    /\ Queue([op |-> "graph", uses |-> {"workspace", "arena"}, arena |-> workspace.arena])
    /\ Goto("compute")
    /\ UNCHANGED <<steady, spaces, probing, pool>>

(* After the synchronization, the rows are read back, or copied on the     *)
(* device from the workspace to the merge, to be drained at the end of the *)
(* batch.                                                                  *)
ReadRows ==
    /\ call.step = "compute"
    /\ stream = <<>>
    /\ IF call.device
       THEN Queue([op |-> "rows", uses |-> {"workspace", "merge"}])
       ELSE UNCHANGED stream
    /\ Goto("drain")
    /\ UNCHANGED <<steady, spaces, probing, pool>>

(* Slip: the next batch begins while the rows are still being copied.      *)
EndBatch_NoDrain ==
    /\ call.step = "drain"
    /\ call' = [call EXCEPT !.batches = @ - 1,
                            !.step = IF call.batches > 1 THEN "load"
                                     ELSE IF call.device THEN "reduce" ELSE "unwind"]
    /\ UNCHANGED <<stream, steady, spaces, probing, pool>>

(* backend_drain.                                                          *)
EndBatch ==
    /\ call.step = "drain"
    /\ stream = <<>>
    /\ call' = [call EXCEPT !.batches = @ - 1,
                            !.step = IF call.batches > 1 THEN "load"
                                     ELSE IF call.device THEN "reduce" ELSE "unwind"]
    /\ UNCHANGED <<stream, steady, spaces, probing, pool>>

(* The merge graph runs, and its result is copied out.                     *)
Reduce ==
    /\ call.step = "reduce"
    /\ Queue([op |-> "reduce", uses |-> {"merge"}])
    /\ Goto("unwind")
    /\ UNCHANGED <<steady, spaces, probing, pool>>

(* A cancellation, or a transfer, graph or allocation that fails.          *)
Throw ==
    /\ call.step \in {"calibrate", "merge", "routes", "load", "launch", "compute", "drain", "reduce"}
    /\ Goto("unwind")
    /\ UNCHANGED <<stream, steady, spaces, probing, pool>>

(* The guards on the way out drain the backend.                            *)
Leave ==
    /\ call.step = "unwind"
    /\ stream = <<>>
    /\ call' = Idle
    /\ UNCHANGED <<stream, steady, spaces, probing, pool>>

-----------------------------------------------------------------------------
(* Calibration.                                                            *)

(* The cache is emptied and the worker started.                            *)
Calibrate ==
    /\ call.step = "calibrate"
    /\ caches' = [caches EXCEPT ![cache].resident = {}]
    /\ worker' = "warming"
    /\ stop' = FALSE
    /\ call' = [call EXCEPT !.step = "await", !.loads = caches[cache].loads]
    /\ UNCHANGED <<stream, calibration, traffic, steady, spaces>>

(* The worker was seen ready.                                              *)
SeeReady ==
    /\ call.step = "await"
    /\ worker \in {"running", "failed"}
    /\ Goto(IF worker = "running" THEN "probe" ELSE "abort")
    /\ UNCHANGED <<stream, steady, spaces, probing, pool>>

(* One timed transfer: a cold slot is loaded, released and cleared.        *)
Probe ==
    /\ call.step = "probe"
    /\ call.probes < MaxProbes
    /\ caches[cache].resident = {}
    /\ caches' = [caches EXCEPT ![cache].loads = @ + 1]
    /\ call' = [call EXCEPT !.probes = @ + 1]
    /\ UNCHANGED <<stream, traffic, steady, spaces, probing>>

(* Enough was measured: the worker is told to stop.                        *)
StopProbing ==
    /\ call.step = "probe"
    /\ call.probes > 0
    /\ stop' = TRUE
    /\ Goto("collect")
    /\ UNCHANGED <<stream, worker, calibration, steady, spaces, pool>>

(* account_calibration.                                                    *)
(* Slip: the loads are those since the executor was built.                 *)
Accounted_All == calibration.loads + caches[cache].loads
Accounted == calibration.loads + caches[cache].loads - call.loads

(* The worker's result is taken: the threads count as calibrated, or its   *)
(* exception is thrown.                                                    *)
Collect ==
    /\ call.step = "collect"
    /\ worker \in {"done", "failed"}
    /\ IF worker = "done"
       THEN /\ calibration' = [threads |-> call.threads, loads |-> Accounted]
            /\ worker' = "none"
            /\ Goto("load")
       ELSE Goto("abort") /\ UNCHANGED <<worker, calibration>>
    /\ UNCHANGED <<stream, stop, steady, spaces, pool>>

(* check_cancel, or a transfer that fails, whose load was counted.         *)
ProbeThrows ==
    /\ call.step \in {"await", "probe"}
    /\ \E counted \in IF call.step = "probe" THEN {0, 1} ELSE {0} :
           caches' = [caches EXCEPT ![cache].loads = @ + counted]
    /\ Goto("abort")
    /\ UNCHANGED <<stream, traffic, steady, spaces, probing>>

(* Slip: the handler waits for a worker that nobody told to stop.          *)
StopWorker_Silently ==
    /\ call.step = "abort"
    /\ Goto("wait")
    /\ UNCHANGED <<stream, steady, spaces, probing, pool>>

StopWorker ==
    /\ call.step = "abort"
    /\ stop' = TRUE
    /\ Goto("wait")
    /\ UNCHANGED <<stream, worker, calibration, steady, spaces, pool>>

(* The handler, once the worker ended.                                     *)
Rethrow ==
    /\ call.step = "wait"
    /\ worker \in {"done", "failed"}
    /\ worker' = "none"
    /\ caches' = [caches EXCEPT ![cache].resident = {}]
    /\ calibration' = [calibration EXCEPT !.loads = Accounted]
    /\ Goto("unwind")
    /\ UNCHANGED <<stream, stop, traffic, steady, spaces>>

(* The worker runs once, says it is ready, and runs until it sees the flag.*)
WorkerStep ==
    /\ \/ worker = "warming" /\ worker' = "running"
       \/ worker = "running" /\ stop /\ worker' = "done"
    /\ UNCHANGED <<stream, call, stop, calibration, steady, spaces, pool>>

(* A run throws.                                                           *)
WorkerThrows ==
    /\ worker \in {"warming", "running"}
    /\ worker' = "failed"
    /\ UNCHANGED <<stream, call, stop, calibration, steady, spaces, pool>>

-----------------------------------------------------------------------------
(* Slip: the workspace outlives the caches it was built over.              *)
Resize_KeepsWorkspace(s) ==
    /\ call.step = "idle"
    /\ calls < MaxCalls
    /\ calls' = calls + 1
    /\ caches' = [l \in Layout |-> Fresh(s[l])]
    /\ resizes' = resizes + 1
    /\ merge' = None
    /\ cache' = 1
    /\ calibration' = [calibration EXCEPT !.loads = 0]
    /\ traffic' = 0
    /\ UNCHANGED <<calibrates, workspace, stream, call, worker, stop>>

(* resize, when the new caches can be allocated; when they cannot, it      *)
(* throws and nothing has changed.                                         *)
Resize(s) ==
    /\ call.step = "idle"
    /\ stream = <<>>
    /\ calls < MaxCalls
    /\ calls' = calls + 1
    /\ caches' = [l \in Layout |-> Fresh(s[l])]
    /\ resizes' = resizes + 1
    /\ workspace' = None
    /\ merge' = None
    /\ cache' = 1
    /\ calibration' = [calibration EXCEPT !.loads = 0]
    /\ traffic' = 0
    /\ UNCHANGED <<calibrates, stream, call, worker, stop>>

(* The device completes its work in order.                                 *)
DeviceStep ==
    /\ stream # <<>>
    /\ stream' = Tail(stream)
    /\ UNCHANGED <<call, steady, spaces, probing, pool>>

HostStep ==
    \/ BuildMerge \/ ReadRoutes
    \/ \E e \in Expert : LoadExpert(e)
    \/ \E n \in Count : EnsureWorkspace(n)
    \/ LaunchGraph \/ ReadRows \/ EndBatch \/ Reduce \/ Leave
    \/ Calibrate \/ SeeReady \/ Probe \/ StopProbing \/ Collect \/ StopWorker \/ Rethrow

RuntimeNext ==
    \/ \E l \in Layer, batches \in 1..MaxBatches :
           \/ \E t \in Threads : Execute(l, batches, t)
           \/ \E k \in TopK : ExecuteDevice(l, batches, k)
    \/ HostStep \/ Throw \/ ProbeThrows
    \/ WorkerStep \/ WorkerThrows
    \/ DeviceStep
    \/ \E s \in [Layout -> Slots] : Resize(s)

(* The calling thread, the worker's and the device run; nobody has to call *)
(* and nothing has to fail.                                                *)
RuntimeSpec ==
    /\ RuntimeInit
    /\ [][RuntimeNext]_runtimeVars
    /\ WF_runtimeVars(HostStep)
    /\ WF_runtimeVars(WorkerStep)
    /\ WF_runtimeVars(DeviceStep)

-----------------------------------------------------------------------------
(* Properties.                                                             *)

(* Every graph at work reads the arena of the cache that leased its        *)
(* experts: a retained graph is never run over another layout's cache, nor *)
(* over one a resize has freed (GPU_RESIDENT_EXPERTS.md 11).               *)
GraphReadsSelected ==
    \A i \in DOMAIN stream : stream[i].op = "graph" => stream[i].arena = Arena

(* No workspace and no cache is freed or replaced under work that is still *)
(* queued on it: batches, calls and resizes drain first (moe.cpp 554, 632, *)
(* 1157).                                                                  *)
NothingFreedInUse ==
    [][/\ workspace' # workspace => ~Queued("workspace")
       /\ merge' # merge => ~Queued("merge")
       /\ resizes' # resizes => ~Queued("arena")]_runtimeVars

(* "Both arenas and the compatibility activation table share the existing  *)
(* compute budget" (GPU_RESIDENT_EXPERTS.md 7), whatever the order in      *)
(* which calls of different shapes made them be kept or rebuilt.           *)
ComputeBudgetHeld ==
    workspace.rows + merge.rows > 0 =>
        workspace.rows + merge.rows + TableBytes <= ComputeBytes

(* metrics: the loads of every cache.                                      *)
Loads == Sum([l \in Layout |-> caches[l].loads])

(* What metrics reports as loads are those of the calls since the last     *)
(* resize: calibrations, ended or failed, are taken out exactly, and the   *)
(* difference never wraps (moe.cpp 981-986, 1148, 1164).                   *)
MetricsExact ==
    call.step \notin {"await", "probe", "collect", "abort", "wait"} =>
        Loads - calibration.loads = traffic

(* Every call ends, the calibration's two threads included: the worker     *)
(* that waits for the stop flag and the caller that waits for the worker.  *)
RuntimeCallEnds == call.step # "idle" ~> call.step = "idle"
=============================================================================
