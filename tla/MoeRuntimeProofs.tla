-------------------------- MODULE MoeRuntimeProofs --------------------------
(***************************************************************************)
(* What cached_executor guarantees across calls, resizes and calibrations, *)
(* for every number of layouts, slots, shapes and budget.  The invariant   *)
(* follows the work queued on the device through the steps of a call:      *)
(* where nothing is queued, where only the weights of the merge are, and   *)
(* that a retained workspace was built over the caches in use.  A second   *)
(* layer follows the loads that a calibration has made and not yet taken   *)
(* out of the count.                                                       *)
(***************************************************************************)
EXTENDS MoeRuntime, FiniteSetTheorems, SequenceTheorems, Induction

(* The steps at which the device has nothing left to do. *)
Quiet == {"idle", "merge", "routes", "calibrate", "await", "probe", "collect", "abort",
          "wait", "reduce"}

Caches == Layout \X Nat
Graph  == [op : {"graph"}, uses : {{"workspace", "arena"}}, arena : Caches]
Copying == [op : {"weights"}, uses : {{"merge"}}]
           \union [op : {"rows"}, uses : {{"workspace", "merge"}}]
           \union [op : {"reduce"}, uses : {{"merge"}}]

BatchSteps  == {"load", "arena", "launch", "compute", "drain", "unwind"}
HostSteps   == BatchSteps \union {"calibrate", "await", "probe", "collect", "abort", "wait"}
DeviceSteps == BatchSteps \union {"merge", "routes", "reduce"}

HostCall   == [step : HostSteps, device : {FALSE},
               batches : Int, threads : Threads, probes : Int, loads : Int]
DeviceCall == [step : DeviceSteps, device : {TRUE}, batches : Int, k : TopK]

RuntimeTypeOK ==
    /\ caches \in [Layout -> [slots : Slots, resident : SUBSET Expert, loads : Int]]
    /\ resizes \in Nat
    /\ cache \in Layout
    /\ workspace \in {None} \union [rows : Nat \ {0}, arena : Caches]
    /\ merge \in [rows : Nat]
    /\ stream \in Seq(Graph \union Copying)
    /\ call \in {Idle} \union HostCall \union DeviceCall
    /\ calibration \in [threads : {0} \union Threads, loads : Int]
    /\ traffic \in Int

(* Nothing is queued between calls, before the first launch, nor while
   calibrating; while a batch is prepared, nothing that reads the workspace. *)
StreamByStep ==
    /\ call.step \in Quiet => stream = <<>>
    /\ call.step \in {"load", "arena", "launch"} => ~Queued("workspace")

(* A workspace kept from an earlier call is over the selected cache of today. *)
WorkspaceCurrent ==
    /\ workspace.rows # 0 => workspace.arena = Arena
    /\ call.step = "launch" => workspace.rows # 0

(* Only a device-resident call works beside a merge workspace. *)
MergeOfDeviceCalls == call.step # "idle" /\ ~call.device => merge = None

RuntimeInv ==
    /\ RuntimeTypeOK
    /\ StreamByStep
    /\ WorkspaceCurrent
    /\ MergeOfDeviceCalls
    /\ GraphReadsSelected
    /\ ComputeBudgetHeld

-----------------------------------------------------------------------------
(* The facts about records and sequences the steps use. *)
LEMMA Shapes ==
    /\ None.rows = 0
    /\ Idle.step = "idle"
    /\ \A c \in HostCall \union DeviceCall : c.step # "idle" /\ c # Idle
    /\ \A w \in {None} \union [rows : Nat \ {0}, arena : Caches] :
          w.rows \in Nat /\ (w.rows = 0 => w = None)
<1>1. None.rows = 0 /\ Idle.step = "idle"
    BY DEF None, Idle
<1>2. \A c \in HostCall \union DeviceCall : c.step # "idle"
    BY DEF HostCall, DeviceCall, HostSteps, DeviceSteps, BatchSteps
<1>3. \A w \in [rows : Nat \ {0}, arena : Caches] : w.rows \in Nat \ {0}
    OBVIOUS
<1>4. QED
    BY <1>1, <1>2, <1>3

LEMMA Working ==
    ASSUME RuntimeTypeOK, call.step # "idle"
    PROVE  call \in HostCall \union DeviceCall
    BY Shapes DEF RuntimeTypeOK

(* One more piece of work is queued. *)
LEMMA Queues ==
    ASSUME RuntimeTypeOK, NEW w \in Graph \union Copying, Queue(w)
    PROVE  /\ stream' \in Seq(Graph \union Copying)
           /\ \A i \in DOMAIN stream' : stream'[i] = w \/ \E j \in DOMAIN stream : stream'[i] = stream[j]
<1> DEFINE W == Graph \union Copying
<1>1. stream \in Seq(W) /\ Len(stream) \in Nat /\ DOMAIN stream = 1..Len(stream)
    BY LenProperties DEF RuntimeTypeOK
<1> HIDE DEF W
<1>2. w \in W
    BY DEF W
<1>3. /\ stream' \in Seq(W) /\ Len(stream') = Len(stream) + 1
      /\ \A i \in 1..Len(stream) : stream'[i] = stream[i]
      /\ stream'[Len(stream) + 1] = w
    BY <1>1, <1>2, AppendProperties DEF Queue
<1>4. DOMAIN stream' = 1..Len(stream')
    BY <1>3, LenProperties
<1>5. \A i \in DOMAIN stream' : stream'[i] = w \/ \E j \in DOMAIN stream : stream'[i] = stream[j]
  <2> SUFFICES ASSUME NEW i \in DOMAIN stream', i # Len(stream) + 1
               PROVE  i \in DOMAIN stream /\ stream'[i] = stream[i]
      BY <1>3
  <2>1. i \in 1..Len(stream)
    BY <1>1, <1>3, <1>4
  <2>2. QED
    BY <1>1, <1>3, <2>1
<1>6. QED
    BY <1>3, <1>5 DEF W

(* The device completes the oldest piece of work. *)
LEMMA Completes ==
    ASSUME RuntimeTypeOK, stream # <<>>, stream' = Tail(stream)
    PROVE  /\ stream' \in Seq(Graph \union Copying)
           /\ \A i \in DOMAIN stream' : \E j \in DOMAIN stream : stream'[i] = stream[j]
<1> DEFINE W == Graph \union Copying
<1>1. stream \in Seq(W) /\ Len(stream) \in Nat /\ DOMAIN stream = 1..Len(stream)
    BY LenProperties DEF RuntimeTypeOK
<1> HIDE DEF W
<1>2. /\ stream' \in Seq(W) /\ Len(stream') = Len(stream) - 1
      /\ \A i \in 1..Len(stream') : stream'[i] = stream[i + 1]
    BY <1>1, HeadTailProperties
<1>3. DOMAIN stream' = 1..Len(stream')
    BY <1>2, LenProperties
<1>4. \A i \in DOMAIN stream' : i + 1 \in DOMAIN stream /\ stream'[i] = stream[i + 1]
    BY <1>1, <1>2, <1>3
<1>5. QED
    BY <1>2, <1>4 DEF W

-----------------------------------------------------------------------------
(* Type correctness, a lemma for the steps of each kind. *)
LEMMA InitRuntime == RuntimeInit => RuntimeInv
<1> SUFFICES ASSUME RuntimeInit PROVE RuntimeInv
    OBVIOUS
<1>1. stream = <<>> /\ \A i \in DOMAIN stream : FALSE
    BY DEF RuntimeInit
<1>2. RuntimeTypeOK
  <2>1. caches \in [Layout -> [slots : Slots, resident : SUBSET Expert, loads : Int]]
    BY DEF RuntimeInit, Fresh
  <2>2. cache \in Layout /\ resizes \in Nat /\ traffic \in Int /\ merge \in [rows : Nat]
    BY RuntimeAssumption DEF RuntimeInit, None
  <2>3. stream \in Seq(Graph \union Copying)
    BY <1>1
  <2>4. calibration \in [threads : {0} \union Threads, loads : Int]
    BY DEF RuntimeInit
  <2>5. QED
    BY <2>1, <2>2, <2>3, <2>4 DEF RuntimeTypeOK, RuntimeInit
<1>3. QED
    BY <1>1, <1>2, Shapes DEF RuntimeInit, RuntimeInv, StreamByStep, WorkspaceCurrent,
          MergeOfDeviceCalls, GraphReadsSelected, ComputeBudgetHeld

-----------------------------------------------------------------------------
(* The steps of a call.                                                    *)

(* A call goes on to another step of its kind. *)
LEMMA Goes ==
    ASSUME RuntimeTypeOK, call.step # "idle", NEW s, Goto(s),
           call \in HostCall => s \in HostSteps,
           call \in DeviceCall => s \in DeviceSteps
    PROVE  call' \in HostCall \union DeviceCall /\ call'.step = s /\ call'.device = call.device
<1>1. CASE call \in HostCall
    BY <1>1 DEF Goto, HostCall
<1>2. CASE call \in DeviceCall
    BY <1>2 DEF Goto, DeviceCall
<1>3. QED
    BY <1>1, <1>2, Working

(* A call is a host's or a device's, by the step it is at. *)
LEMMA KindOf ==
    ASSUME RuntimeTypeOK
    PROVE  /\ call.step \in HostSteps \ BatchSteps => call \in HostCall
           /\ call.step \in DeviceSteps \ BatchSteps => call \in DeviceCall
           /\ call \in HostCall => ~call.device /\ call.step \in HostSteps
           /\ call \in DeviceCall => call.device = TRUE /\ call.step \in DeviceSteps
<1>1. call.step \in HostSteps \union DeviceSteps => call \in HostCall \union DeviceCall
    BY Working DEF HostSteps, DeviceSteps, BatchSteps
<1>2. call \in HostCall => ~call.device /\ call.step \in HostSteps
    BY DEF HostCall
<1>3. call \in DeviceCall => call.device = TRUE /\ call.step \in DeviceSteps
    BY DEF DeviceCall
<1>4. QED
    BY <1>1, <1>2, <1>3 DEF HostSteps, DeviceSteps, BatchSteps

(* A step that leaves the queue and the workspaces alone keeps the
   invariant when its target allows what is queued.                        *)
LEMMA Moves ==
    ASSUME RuntimeInv, RuntimeTypeOK',
           UNCHANGED <<resizes, cache, workspace, merge, stream>>,
           call'.step \in Quiet => stream = <<>>,
           call'.step \in {"load", "arena", "launch"} => ~Queued("workspace"),
           call'.step = "launch" => workspace.rows # 0,
           call'.step # "idle" /\ ~call'.device => merge = None
    PROVE  RuntimeInv'
<1>1. StreamByStep'
    BY DEF StreamByStep, Queued
<1>2. WorkspaceCurrent'
    BY DEF RuntimeInv, WorkspaceCurrent, Arena
<1>3. MergeOfDeviceCalls'
    BY DEF MergeOfDeviceCalls
<1>4. GraphReadsSelected' /\ ComputeBudgetHeld'
    BY DEF RuntimeInv, GraphReadsSelected, ComputeBudgetHeld, Arena
<1>5. QED
    BY <1>1, <1>2, <1>3, <1>4 DEF RuntimeInv

(* The same for a call under way that goes on to a step s: what its kind
   of call may have queued is what it had.                                 *)
LEMMA MovesOn ==
    ASSUME RuntimeInv, call.step # "idle", NEW s, Goto(s),
           call \in HostCall => s \in HostSteps,
           call \in DeviceCall => s \in DeviceSteps,
           UNCHANGED <<resizes, cache, workspace, merge, stream>>,
           caches' \in [Layout -> [slots : Slots, resident : SUBSET Expert, loads : Int]],
           calibration' \in [threads : {0} \union Threads, loads : Int],
           traffic' \in Int,
           s \in Quiet => stream = <<>>,
           s \in {"load", "arena", "launch"} => ~Queued("workspace"),
           s = "launch" => workspace.rows # 0
    PROVE  RuntimeInv'
<1>1. call' \in HostCall \union DeviceCall /\ call'.step = s /\ call'.device = call.device
    BY Goes DEF RuntimeInv
<1>2. RuntimeTypeOK'
    BY <1>1 DEF RuntimeInv, RuntimeTypeOK
<1>3. ~call'.device => merge = None
    BY <1>1 DEF RuntimeInv, MergeOfDeviceCalls
<1>4. QED
    BY <1>1, <1>2, <1>3, Moves

LEMMA ThrowInv ==
    ASSUME RuntimeInv, Throw
    PROVE  RuntimeInv'
<1>1. call.step # "idle" /\ "unwind" \in HostSteps \intersect DeviceSteps
    BY DEF Throw, HostSteps, DeviceSteps, BatchSteps
<1>2. "unwind" \notin Quiet
    BY DEF Quiet
<1>3. QED
    BY <1>1, <1>2, MovesOn DEF Throw, RuntimeInv, RuntimeTypeOK, steady, spaces, probing,
        pool

LEMMA LeaveInv ==
    ASSUME RuntimeInv, Leave
    PROVE  RuntimeInv'
<1>1. RuntimeTypeOK'
    BY DEF Leave, RuntimeInv, RuntimeTypeOK, steady, spaces, probing, pool
<1>2. call'.step = "idle" /\ stream = <<>>
    BY Shapes DEF Leave
<1>3. ~Queued("workspace")
    BY <1>2 DEF Queued
<1>4. QED
    BY <1>1, <1>2, <1>3, Moves DEF Leave, steady, spaces

(* An expert is acquired in the selected cache. *)
LEMMA LoadExpertInv ==
    ASSUME RuntimeInv, NEW e \in Expert, LoadExpert(e)
    PROVE  RuntimeInv'
<1> DEFINE Cache == [slots : Slots, resident : SUBSET Expert, loads : Int]
<1>1. caches \in [Layout -> Cache] /\ cache \in Layout /\ traffic \in Int
    BY DEF RuntimeInv, RuntimeTypeOK
<1>2. PICK c \in Acquired(caches[cache], e) :
          /\ caches' = [caches EXCEPT ![cache] = c]
          /\ traffic' = traffic + c.loads - caches[cache].loads
    BY DEF LoadExpert
<1>3. c \in Cache
  <2>1. caches[cache] \in Cache
    BY <1>1
  <2>2. c = caches[cache] \/ \E out \in SUBSET Expert :
            c = [caches[cache] EXCEPT !.resident = (@ \ out) \cup {e}, !.loads = @ + 1]
    <3>1. CASE e \in caches[cache].resident
        BY <1>2, <3>1 DEF Acquired
    <3>2. CASE e \notin caches[cache].resident
      <4>1. PICK out \in IF Cardinality(caches[cache].resident) < caches[cache].slots
                         THEN {{}} ELSE {{o} : o \in caches[cache].resident} :
                c = [caches[cache] EXCEPT !.resident = (@ \ out) \cup {e}, !.loads = @ + 1]
          BY <1>2, <3>2 DEF Acquired
      <4>2. out \in SUBSET Expert
          BY <2>1, <4>1
      <4>3. QED
          BY <4>1, <4>2
    <3>3. QED
        BY <3>1, <3>2
  <2>3. ASSUME NEW out \in SUBSET Expert,
               c = [caches[cache] EXCEPT !.resident = (@ \ out) \cup {e}, !.loads = @ + 1]
        PROVE  c \in Cache
    <3>1. /\ (caches[cache].resident \ out) \cup {e} \in SUBSET Expert
          /\ caches[cache].loads + 1 \in Int
        BY <2>1
    <3>2. QED
        BY <2>1, <2>3, <3>1
  <2>4. QED
    BY <2>1, <2>2, <2>3
<1>4. caches' \in [Layout -> Cache] /\ traffic' \in Int
    BY <1>1, <1>2, <1>3
<1>5. call.step # "idle" /\ "arena" \in HostSteps \intersect DeviceSteps /\ "arena" \notin Quiet
    BY DEF LoadExpert, HostSteps, DeviceSteps, BatchSteps, Quiet
<1>6. ~Queued("workspace")
    BY DEF LoadExpert, RuntimeInv, StreamByStep
<1>7. QED
    BY <1>4, <1>5, <1>6, MovesOn DEF LoadExpert, RuntimeInv, RuntimeTypeOK, steady, spaces,
        probing

(* A batch ends drained, so that the next may begin. *)
LEMMA EndBatchInv ==
    ASSUME RuntimeInv, EndBatch
    PROVE  RuntimeInv'
<1>1. stream = <<>> /\ ~Queued("workspace")
    BY DEF EndBatch, Queued
<1>2. /\ call' \in HostCall \union DeviceCall
      /\ call'.device = call.device
      /\ call'.step \notin {"idle", "launch"}
  <2>1. CASE call \in HostCall
    <3>1. call.batches \in Int /\ call.device = FALSE
        BY <2>1 DEF HostCall
    <3>2. call' = [call EXCEPT !.batches = call.batches - 1,
                               !.step = IF call.batches > 1 THEN "load" ELSE "unwind"]
        BY <3>1 DEF EndBatch
    <3>3. \E s \in {"load", "unwind"} :
              call' = [call EXCEPT !.batches = call.batches - 1, !.step = s]
        BY <3>2
    <3>4. call.batches - 1 \in Int /\ {"load", "unwind"} \subseteq HostSteps
        BY <3>1 DEF HostSteps, BatchSteps
    <3>5. QED
        BY <2>1, <3>1, <3>3, <3>4 DEF HostCall
  <2>2. CASE call \in DeviceCall
    <3>1. call.batches \in Int /\ call.device = TRUE
        BY <2>2 DEF DeviceCall
    <3>2. call' = [call EXCEPT !.batches = call.batches - 1,
                               !.step = IF call.batches > 1 THEN "load" ELSE "reduce"]
        BY <3>1 DEF EndBatch
    <3>3. \E s \in {"load", "reduce"} :
              call' = [call EXCEPT !.batches = call.batches - 1, !.step = s]
        BY <3>2
    <3>4. call.batches - 1 \in Int /\ {"load", "reduce"} \subseteq DeviceSteps
        BY <3>1 DEF DeviceSteps, BatchSteps
    <3>5. QED
        BY <2>2, <3>1, <3>3, <3>4 DEF DeviceCall
  <2>3. call.step # "idle"
    BY DEF EndBatch
  <2>4. QED
    BY <2>1, <2>2, <2>3, Working DEF RuntimeInv
<1>3. RuntimeTypeOK'
    BY <1>2 DEF EndBatch, RuntimeInv, RuntimeTypeOK, steady, spaces, probing, pool
<1>4. ~call'.device => merge = None
    BY <1>2 DEF EndBatch, RuntimeInv, MergeOfDeviceCalls
<1>5. QED
    BY <1>1, <1>2, <1>3, <1>4, Moves DEF EndBatch, steady, spaces

-----------------------------------------------------------------------------
(* The steps that queue work.                                              *)
LEMMA Adds ==
    ASSUME RuntimeInv, call.step # "idle", NEW s, Goto(s),
           call \in HostCall => s \in HostSteps,
           call \in DeviceCall => s \in DeviceSteps,
           s \notin Quiet,
           NEW w \in Graph \union Copying, Queue(w),
           w.op = "graph" => w.arena = Arena,
           s \in {"load", "arena", "launch"} => stream = <<>> /\ "workspace" \notin w.uses,
           s # "launch",
           UNCHANGED <<resizes, cache, workspace, merge, caches, calibration, traffic>>
    PROVE  RuntimeInv'
<1>1. call' \in HostCall \union DeviceCall /\ call'.step = s /\ call'.device = call.device
    BY Goes DEF RuntimeInv
<1>2. /\ stream' \in Seq(Graph \union Copying)
      /\ \A i \in DOMAIN stream' : stream'[i] = w \/ \E j \in DOMAIN stream : stream'[i] = stream[j]
    BY Queues DEF RuntimeInv
<1>3. RuntimeTypeOK'
    BY <1>1, <1>2 DEF RuntimeInv, RuntimeTypeOK
<1>4. StreamByStep'
  <2>1. ASSUME s \in {"load", "arena", "launch"}
        PROVE  \A i \in DOMAIN stream' : "workspace" \notin stream'[i].uses
    <3>1. \A i \in DOMAIN stream' : stream'[i] = w
        BY <1>2, <2>1
    <3>2. QED
        BY <2>1, <3>1
  <2>2. QED
    BY <1>1, <2>1 DEF StreamByStep, Queued
<1>5. WorkspaceCurrent'
    BY <1>1 DEF RuntimeInv, WorkspaceCurrent, Arena
<1>6. MergeOfDeviceCalls'
    BY <1>1 DEF RuntimeInv, MergeOfDeviceCalls
<1>7. GraphReadsSelected'
  <2>1. Arena' = Arena
    BY DEF Arena
  <2>2. \A i \in DOMAIN stream' : stream'[i].op = "graph" => stream'[i].arena = Arena
    BY <1>2 DEF RuntimeInv, GraphReadsSelected
  <2>3. QED
    BY <2>1, <2>2 DEF GraphReadsSelected
<1>8. ComputeBudgetHeld'
    BY DEF RuntimeInv, ComputeBudgetHeld
<1>9. QED
    BY <1>3, <1>4, <1>5, <1>6, <1>7, <1>8 DEF RuntimeInv

LEMMA ReadRoutesInv ==
    ASSUME RuntimeInv, ReadRoutes
    PROVE  RuntimeInv'
<1> DEFINE w == [op |-> "weights", uses |-> {"merge"}]
<1>1. w \in Graph \union Copying /\ w.op # "graph" /\ "workspace" \notin w.uses
    BY DEF Copying
<1>2. call.step # "idle" /\ "load" \in HostSteps \intersect DeviceSteps /\ "load" \notin Quiet
    BY DEF ReadRoutes, HostSteps, DeviceSteps, BatchSteps, Quiet
<1>3. stream = <<>>
    BY DEF ReadRoutes, RuntimeInv, StreamByStep, Quiet
<1>4. Queue(w) /\ Goto("load") /\ UNCHANGED <<resizes, cache, workspace, merge, caches, calibration, traffic>>
    BY DEF ReadRoutes, steady, spaces, probing, pool
<1> HIDE DEF w
<1>5. QED
    BY <1>1, <1>2, <1>3, <1>4, Adds

LEMMA LaunchGraphInv ==
    ASSUME RuntimeInv, LaunchGraph
    PROVE  RuntimeInv'
<1> DEFINE w == [op |-> "graph", uses |-> {"workspace", "arena"}, arena |-> workspace.arena]
<1>1. w \in Graph \union Copying /\ w.arena = Arena
  <2>1. workspace.arena = Arena
    BY DEF LaunchGraph, RuntimeInv, WorkspaceCurrent
  <2>2. Arena \in Caches
    BY DEF RuntimeInv, RuntimeTypeOK, Arena, Caches
  <2>3. QED
    BY <2>1, <2>2 DEF Graph
<1>2. call.step # "idle" /\ "compute" \in HostSteps \intersect DeviceSteps /\ "compute" \notin Quiet
    BY DEF LaunchGraph, HostSteps, DeviceSteps, BatchSteps, Quiet
<1>3. Queue(w) /\ Goto("compute") /\ UNCHANGED <<resizes, cache, workspace, merge, caches, calibration, traffic>>
    BY DEF LaunchGraph, steady, spaces, probing, pool
<1> HIDE DEF w
<1>4. QED
    BY <1>1, <1>2, <1>3, Adds

LEMMA ReadRowsInv ==
    ASSUME RuntimeInv, ReadRows
    PROVE  RuntimeInv'
<1> DEFINE w == [op |-> "rows", uses |-> {"workspace", "merge"}]
<1>1. w \in Graph \union Copying /\ w.op # "graph"
    BY DEF Copying
<1>2. call.step # "idle" /\ "drain" \in HostSteps \intersect DeviceSteps /\ "drain" \notin Quiet
    BY DEF ReadRows, HostSteps, DeviceSteps, BatchSteps, Quiet
<1>3. Goto("drain") /\ UNCHANGED <<resizes, cache, workspace, merge, caches, calibration, traffic>>
    BY DEF ReadRows, steady, spaces, probing, pool
<1>4. Queue(w) \/ UNCHANGED stream
    BY DEF ReadRows
<1> HIDE DEF w
<1>5. CASE Queue(w)
    BY <1>1, <1>2, <1>3, <1>5, Adds
<1>6. CASE UNCHANGED stream
    BY <1>2, <1>3, <1>6, MovesOn DEF RuntimeInv, RuntimeTypeOK
<1>7. QED
    BY <1>4, <1>5, <1>6

LEMMA ReduceInv ==
    ASSUME RuntimeInv, Reduce
    PROVE  RuntimeInv'
<1> DEFINE w == [op |-> "reduce", uses |-> {"merge"}]
<1>1. w \in Graph \union Copying /\ w.op # "graph"
    BY DEF Copying
<1>2. call.step # "idle" /\ "unwind" \in HostSteps \intersect DeviceSteps /\ "unwind" \notin Quiet
    BY DEF Reduce, HostSteps, DeviceSteps, BatchSteps, Quiet
<1>3. Queue(w) /\ Goto("unwind") /\ UNCHANGED <<resizes, cache, workspace, merge, caches, calibration, traffic>>
    BY DEF Reduce, steady, spaces, probing, pool
<1> HIDE DEF w
<1>4. QED
    BY <1>1, <1>2, <1>3, Adds

(* The device takes work off the queue and adds none. *)
LEMMA DeviceStepInv ==
    ASSUME RuntimeInv, DeviceStep
    PROVE  RuntimeInv'
<1>1. /\ stream' \in Seq(Graph \union Copying)
      /\ \A i \in DOMAIN stream' : \E j \in DOMAIN stream : stream'[i] = stream[j]
    BY Completes DEF DeviceStep, RuntimeInv
<1>2. UNCHANGED <<call, resizes, cache, workspace, merge, caches, calibration, traffic>> /\ stream # <<>>
    BY DEF DeviceStep, steady, spaces, probing, pool
<1>3. RuntimeTypeOK'
    BY <1>1, <1>2 DEF RuntimeInv, RuntimeTypeOK
<1>4. StreamByStep'
    BY <1>1, <1>2 DEF RuntimeInv, StreamByStep, Queued
<1>5. GraphReadsSelected'
  <2>1. Arena' = Arena
    BY <1>2 DEF Arena
  <2>2. \A i \in DOMAIN stream' : stream'[i].op = "graph" => stream'[i].arena = Arena
    BY <1>1 DEF RuntimeInv, GraphReadsSelected
  <2>3. QED
    BY <2>1, <2>2 DEF GraphReadsSelected
<1>6. WorkspaceCurrent' /\ MergeOfDeviceCalls' /\ ComputeBudgetHeld'
    BY <1>2 DEF RuntimeInv, WorkspaceCurrent, MergeOfDeviceCalls, ComputeBudgetHeld, Arena
<1>7. QED
    BY <1>3, <1>4, <1>5, <1>6 DEF RuntimeInv

-----------------------------------------------------------------------------
(* The steps that keep, free or build workspaces.                          *)

(* With nothing queued, what is queued is trivially right. *)
LEMMA Drained ==
    ASSUME stream' = <<>>, RuntimeTypeOK', WorkspaceCurrent', MergeOfDeviceCalls', ComputeBudgetHeld'
    PROVE  RuntimeInv'
<1>1. StreamByStep' /\ GraphReadsSelected'
    BY DEF StreamByStep, Queued, GraphReadsSelected
<1>2. QED
    BY <1>1 DEF RuntimeInv

(* A call selects a cache: the workspace that is kept is over it. *)
LEMMA Selects ==
    ASSUME RuntimeInv, NEW l \in Layer, Select(l), UNCHANGED resizes
    PROVE  /\ cache' \in Layout
           /\ workspace' \in {workspace, None}
           /\ workspace'.rows # 0 => workspace'.arena = Arena'
<1>1. cache' \in Layout
    BY RuntimeAssumption DEF Select
<1>2. CASE cache' = cache
    BY <1>1, <1>2 DEF Select, RuntimeInv, WorkspaceCurrent, Arena
<1>3. CASE cache' # cache
    BY <1>1, <1>3, Shapes DEF Select
<1>4. QED
    BY <1>2, <1>3

LEMMA ExecuteInv ==
    ASSUME RuntimeInv, NEW l \in Layer, NEW batches \in 1..MaxBatches, NEW t \in Threads,
           Execute(l, batches, t)
    PROVE  RuntimeInv'
<1>1. /\ cache' \in Layout
      /\ workspace' \in {workspace, None}
      /\ workspace'.rows # 0 => workspace'.arena = Arena'
    BY Selects DEF Execute, steady
<1>2. stream' = <<>> /\ merge' = None
    BY DEF Execute, RuntimeInv, StreamByStep, Quiet
<1>3. call' \in HostCall /\ call'.step \in {"calibrate", "load"} /\ call'.device = FALSE
    BY DEF Execute, HostCall, HostSteps, BatchSteps
<1>4. RuntimeTypeOK'
  <2>1. merge' \in [rows : Nat]
    BY <1>2 DEF None
  <2>2. QED
    BY <1>1, <1>3, <2>1 DEF Execute, RuntimeInv, RuntimeTypeOK, probing, pool
<1>5. WorkspaceCurrent' /\ MergeOfDeviceCalls'
    BY <1>1, <1>2, <1>3 DEF WorkspaceCurrent, MergeOfDeviceCalls
<1>6. ComputeBudgetHeld'
  <2>1. workspace.rows \in Nat /\ merge.rows \in Nat /\ merge'.rows = 0
    BY <1>2, Shapes DEF RuntimeInv, RuntimeTypeOK
  <2>2. workspace'.rows \in {workspace.rows, 0}
    BY <1>1, Shapes
  <2>3. ComputeBytes \in Nat /\ TableBytes \in Nat
    BY RuntimeAssumption
  <2>4. QED
    BY <2>1, <2>2, <2>3 DEF RuntimeInv, ComputeBudgetHeld
<1>7. QED
    BY <1>2, <1>4, <1>5, <1>6, Drained

LEMMA ExecuteDeviceInv ==
    ASSUME RuntimeInv, NEW l \in Layer, NEW batches \in 1..MaxBatches, NEW k \in TopK,
           ExecuteDevice(l, batches, k)
    PROVE  RuntimeInv'
<1>1. /\ cache' \in Layout
      /\ workspace' \in {workspace, None}
      /\ workspace'.rows # 0 => workspace'.arena = Arena'
    BY Selects DEF ExecuteDevice, steady
<1>2. stream' = <<>> /\ merge' = merge
    BY DEF ExecuteDevice, RuntimeInv, StreamByStep, Quiet
<1>3. call' \in DeviceCall /\ call'.step = "merge" /\ call'.device = TRUE
    BY DEF ExecuteDevice, DeviceCall, DeviceSteps
<1>4. RuntimeTypeOK'
    BY <1>1, <1>3 DEF ExecuteDevice, RuntimeInv, RuntimeTypeOK, probing, pool
<1>5. WorkspaceCurrent' /\ MergeOfDeviceCalls'
    BY <1>1, <1>3 DEF WorkspaceCurrent, MergeOfDeviceCalls
<1>6. ComputeBudgetHeld'
  <2>1. workspace.rows \in Nat /\ merge.rows \in Nat
    BY Shapes DEF RuntimeInv, RuntimeTypeOK
  <2>2. workspace'.rows \in {workspace.rows, 0}
    BY <1>1, Shapes
  <2>3. QED
    BY <1>2, <2>1, <2>2, RuntimeAssumption, SMTT(40) DEF RuntimeInv, ComputeBudgetHeld
<1>7. QED
    BY <1>2, <1>4, <1>5, <1>6, Drained

(* The merge of a device-resident call is kept, rebuilt beside the retained
   workspace, or freed: all with nothing queued.                           *)
LEMMA BuildMergeInv ==
    ASSUME RuntimeInv, BuildMerge
    PROVE  RuntimeInv'
<1>1. call.step = "merge" /\ call \in DeviceCall /\ call.k \in TopK
    BY KindOf DEF BuildMerge, RuntimeInv, DeviceSteps, BatchSteps, DeviceCall
<1>2. PICK s \in {"routes", "unwind"} : Goto(s)
    BY DEF BuildMerge
<1>3. call' \in HostCall \union DeviceCall /\ call'.step = s /\ call'.device = TRUE
    BY <1>1, <1>2, Goes, KindOf DEF RuntimeInv, HostCall, DeviceSteps, BatchSteps
<1>4. UNCHANGED <<workspace, stream, cache, resizes, caches, calibration, traffic>> /\ stream = <<>>
    BY <1>1 DEF BuildMerge, steady, probing, pool, RuntimeInv, StreamByStep, Quiet
<1>5. workspace.rows \in Nat /\ merge.rows \in Nat /\ call.k \in Nat /\ None.rows = 0
    BY <1>1, Shapes, RuntimeAssumption DEF RuntimeInv, RuntimeTypeOK
<1>6. \/ merge' = merge \/ merge' = None
      \/ merge' = [rows |-> call.k] /\ MergeFits(call.k)
    BY DEF BuildMerge
<1>7. merge' \in [rows : Nat] /\ ComputeBudgetHeld'
  <2>1. CASE merge' = merge
    BY <1>4, <2>1 DEF RuntimeInv, RuntimeTypeOK, ComputeBudgetHeld
  <2>2. CASE merge' = None
    <3>1. merge' \in [rows : Nat]
        BY <2>2 DEF None
    <3>2. QED
        BY <1>4, <1>5, <2>2, <3>1, RuntimeAssumption DEF RuntimeInv, ComputeBudgetHeld
  <2>3. CASE merge' = [rows |-> call.k] /\ MergeFits(call.k)
    <3>1. merge' \in [rows : Nat] /\ merge'.rows = call.k
        BY <1>5, <2>3
    <3>2. QED
        BY <1>4, <1>5, <2>3, <3>1, RuntimeAssumption DEF MergeFits, ComputeBudgetHeld
  <2>4. QED
    BY <1>6, <2>1, <2>2, <2>3
<1>8. RuntimeTypeOK'
    BY <1>3, <1>4, <1>7 DEF RuntimeInv, RuntimeTypeOK
<1>9. WorkspaceCurrent' /\ MergeOfDeviceCalls'
    BY <1>3, <1>4 DEF RuntimeInv, WorkspaceCurrent, MergeOfDeviceCalls, Arena
<1>10. QED
    BY <1>4, <1>7, <1>8, <1>9, Drained

(* The workspace of a batch is reused, rebuilt within what the merge leaves,
   or freed: with nothing queued on it.                                    *)
LEMMA EnsureWorkspaceInv ==
    ASSUME RuntimeInv, NEW n \in Count, EnsureWorkspace(n)
    PROVE  RuntimeInv'
<1>1. PICK s \in {"launch", "unwind"} : Goto(s) /\ (s = "launch" => workspace'.rows = n)
    BY DEF EnsureWorkspace
<1>2. call.step = "arena" /\ call \in HostCall \union DeviceCall
    BY Working DEF EnsureWorkspace, RuntimeInv
<1>3. call' \in HostCall \union DeviceCall /\ call'.step = s /\ call'.device = call.device
    BY <1>1, <1>2, Goes DEF RuntimeInv, HostSteps, DeviceSteps, BatchSteps
<1>4. UNCHANGED <<merge, stream, cache, resizes, caches, calibration, traffic>>
    BY DEF EnsureWorkspace, steady, probing, pool
<1>5. /\ workspace.rows \in Nat /\ merge.rows \in Nat /\ n \in Nat \ {0} /\ None.rows = 0
      /\ {ComputeBytes, TableBytes} \subseteq Nat
    BY Shapes, RuntimeAssumption DEF RuntimeInv, RuntimeTypeOK
<1>6. Arena \in Caches /\ Arena' = Arena
    BY <1>4 DEF RuntimeInv, RuntimeTypeOK, Arena, Caches
<1>7. \/ workspace' = workspace \/ workspace' = None
      \/ workspace' = [rows |-> n, arena |-> Arena] /\ WorkspaceFits(n)
    BY DEF EnsureWorkspace
<1>8. /\ workspace' \in {None} \union [rows : Nat \ {0}, arena : Caches]
      /\ workspace'.rows # 0 => workspace'.arena = Arena'
      /\ ComputeBudgetHeld'
  <2>1. CASE workspace' = workspace
    BY <1>4, <1>6, <2>1 DEF RuntimeInv, RuntimeTypeOK, WorkspaceCurrent, ComputeBudgetHeld
  <2>2. CASE workspace' = None
    BY <1>4, <1>5, <2>2 DEF RuntimeInv, ComputeBudgetHeld
  <2>3. CASE workspace' = [rows |-> n, arena |-> Arena] /\ WorkspaceFits(n)
    <3>1. workspace' \in [rows : Nat \ {0}, arena : Caches] /\ workspace'.rows = n /\ workspace'.arena = Arena'
        BY <1>5, <1>6, <2>3
    <3>2. ~call.device => merge.rows = 0
        BY <1>2, <1>5 DEF RuntimeInv, MergeOfDeviceCalls
    <3>3. n + TableBytes <= ComputeBytes - merge.rows
        BY <1>5, <2>3, <3>2 DEF WorkspaceFits
    <3>4. QED
        BY <1>4, <1>5, <3>1, <3>3 DEF ComputeBudgetHeld
  <2>4. QED
    BY <1>7, <2>1, <2>2, <2>3
<1>9. RuntimeTypeOK'
    BY <1>3, <1>4, <1>8 DEF RuntimeInv, RuntimeTypeOK
<1>10. ~Queued("workspace")
    BY <1>2 DEF RuntimeInv, StreamByStep
<1>11. StreamByStep'
    BY <1>3, <1>4, <1>10 DEF StreamByStep, Queued, Quiet
<1>12. WorkspaceCurrent'
    BY <1>1, <1>3, <1>5, <1>8 DEF WorkspaceCurrent
<1>13. MergeOfDeviceCalls'
    BY <1>2, <1>3, <1>4 DEF RuntimeInv, MergeOfDeviceCalls
<1>14. GraphReadsSelected'
    BY <1>4, <1>6 DEF RuntimeInv, GraphReadsSelected
<1>15. QED
    BY <1>8, <1>9, <1>11, <1>12, <1>13, <1>14 DEF RuntimeInv

LEMMA ResizeInv ==
    ASSUME RuntimeInv, NEW s \in [Layout -> Slots], Resize(s)
    PROVE  RuntimeInv'
<1>1. stream' = <<>> /\ workspace' = None /\ merge' = None /\ call' = call /\ call.step = "idle"
    BY DEF Resize
<1>2. RuntimeTypeOK'
  <2>1. caches' \in [Layout -> [slots : Slots, resident : SUBSET Expert, loads : Int]]
    BY DEF Resize, Fresh
  <2>2. merge' \in [rows : Nat]
    BY <1>1 DEF None
  <2>3. calibration' \in [threads : {0} \union Threads, loads : Int]
    BY SMTT(40) DEF Resize, RuntimeInv, RuntimeTypeOK
  <2>4. cache' \in Layout /\ resizes' \in Nat /\ traffic' \in Int
    <3>1. resizes \in Nat /\ resizes' = resizes + 1 /\ cache' = 1 /\ traffic' = 0
        BY DEF Resize, RuntimeInv, RuntimeTypeOK
    <3>2. 1 \in Layout
        BY RuntimeAssumption
    <3>3. QED
        BY <3>1, <3>2
  <2>5. stream' \in Seq(Graph \union Copying)
    BY <1>1
  <2>6. QED
    BY <1>1, <2>1, <2>2, <2>3, <2>4, <2>5 DEF RuntimeInv, RuntimeTypeOK
<1>3. WorkspaceCurrent' /\ MergeOfDeviceCalls' /\ ComputeBudgetHeld'
    BY <1>1, Shapes DEF WorkspaceCurrent, MergeOfDeviceCalls, ComputeBudgetHeld
<1>4. QED
    BY <1>1, <1>2, <1>3, Drained

-----------------------------------------------------------------------------
(* The steps of the calibration, all with nothing queued.                  *)

(* A change of the selected cache that keeps its type. *)
LEMMA CachesKeepType ==
    ASSUME RuntimeTypeOK, NEW r \in SUBSET Expert, NEW n \in Int
    PROVE  /\ [caches EXCEPT ![cache].resident = r]
                \in [Layout -> [slots : Slots, resident : SUBSET Expert, loads : Int]]
           /\ [caches EXCEPT ![cache].loads = n]
                \in [Layout -> [slots : Slots, resident : SUBSET Expert, loads : Int]]
           /\ caches[cache].loads \in Int
    BY DEF RuntimeTypeOK

(* A step of a calibrating call: nothing is queued and no merge is held. *)
LEMMA Calibrates ==
    ASSUME RuntimeInv,
           call.step \in {"calibrate", "await", "probe", "collect", "abort", "wait"},
           UNCHANGED <<resizes, cache, workspace, merge, stream, traffic>>,
           caches' \in [Layout -> [slots : Slots, resident : SUBSET Expert, loads : Int]],
           calibration' \in [threads : {0} \union Threads, loads : Int],
           call' \in HostCall, call'.step # "launch"
    PROVE  RuntimeInv'
<1>1. call \in HostCall /\ call.step # "idle" /\ ~call.device
    BY KindOf DEF RuntimeInv, HostSteps, BatchSteps
<1>2. stream = <<>> /\ ~Queued("workspace")
    BY DEF RuntimeInv, StreamByStep, Quiet, Queued
<1>3. merge = None
    BY <1>1 DEF RuntimeInv, MergeOfDeviceCalls
<1>4. RuntimeTypeOK'
    BY DEF RuntimeInv, RuntimeTypeOK
<1>5. QED
    BY <1>2, <1>3, <1>4, Moves

LEMMA CalibrationInv ==
    ASSUME RuntimeInv,
           Calibrate \/ SeeReady \/ Probe \/ StopProbing \/ Collect \/ ProbeThrows
               \/ StopWorker \/ Rethrow
    PROVE  RuntimeInv'
<1> DEFINE Cache == [slots : Slots, resident : SUBSET Expert, loads : Int]
<1>1. call.step \in {"calibrate", "await", "probe", "collect", "abort", "wait"}
    BY DEF Calibrate, SeeReady, Probe, StopProbing, Collect, ProbeThrows, StopWorker,
        Rethrow
<1>2. call \in HostCall
    BY <1>1, KindOf DEF RuntimeInv, HostSteps, BatchSteps
<1>3. UNCHANGED <<resizes, cache, workspace, merge, stream, traffic>>
    BY DEF Calibrate, SeeReady, Probe, StopProbing, Collect, ProbeThrows, StopWorker,
        Rethrow,
           steady, spaces, pool
<1>4. caches \in [Layout -> Cache] /\ calibration \in [threads : {0} \union Threads, loads : Int]
    BY DEF RuntimeInv, RuntimeTypeOK
<1>5. caches[cache].loads \in Int /\ calibration.loads \in Int /\ call.loads \in Int /\ call.threads \in Threads
    BY <1>2, <1>4, CachesKeepType DEF RuntimeInv, HostCall
<1>6. Accounted \in Int
    BY <1>5 DEF Accounted
<1>7. caches' \in [Layout -> Cache]
  <2>1. CASE caches' = caches
    BY <1>4, <2>1
  <2>2. CASE caches' = [caches EXCEPT ![cache].resident = {}]
    <3>1. RuntimeTypeOK /\ {} \in SUBSET Expert /\ 0 \in Int
        BY DEF RuntimeInv
    <3>2. [caches EXCEPT ![cache].resident = {}] \in [Layout -> Cache]
        BY <3>1, CachesKeepType
    <3>3. QED
        BY <2>2, <3>2
  <2>3. CASE \E n \in {0, 1} : caches' = [caches EXCEPT ![cache].loads = @ + n]
    <3>1. PICK n \in {0, 1} : caches' = [caches EXCEPT ![cache].loads = @ + n]
        BY <2>3
    <3>2. caches[cache].loads + n \in Int
        BY <1>5
    <3>3. QED
        BY <3>1, <3>2, <1>4, CachesKeepType DEF RuntimeInv, RuntimeTypeOK
  <2>4. QED
    BY <2>1, <2>2, <2>3
       DEF Calibrate, SeeReady, Probe, StopProbing, Collect, ProbeThrows, StopWorker,
           Rethrow, pool
<1>8. calibration' \in [threads : {0} \union Threads, loads : Int]
  <2>1. \/ calibration' = calibration
        \/ calibration' = [threads |-> call.threads, loads |-> Accounted]
        \/ calibration' = [calibration EXCEPT !.loads = Accounted]
    BY DEF Calibrate, SeeReady, Probe, StopProbing, Collect, ProbeThrows, StopWorker,
        Rethrow,
           probing
  <2>2. QED
    BY <1>4, <1>5, <1>6, <2>1
<1>9. call' \in HostCall /\ call'.step # "launch"
  <2>1. {"await", "probe", "collect", "abort", "wait", "load", "unwind"} \subseteq HostSteps
    BY DEF HostSteps, BatchSteps
  <2>2. \/ \E s \in {"await", "probe", "collect", "abort", "wait", "load", "unwind"} :
             \/ call' = [call EXCEPT !.step = s]
             \/ call' = [call EXCEPT !.step = s, !.loads = caches[cache].loads]
        \/ call' = [call EXCEPT !.probes = @ + 1] /\ call.step = "probe"
    BY DEF Calibrate, SeeReady, Probe, StopProbing, Collect, ProbeThrows, StopWorker,
        Rethrow, Goto
  <2>3. ASSUME NEW s \in {"await", "probe", "collect", "abort", "wait", "load", "unwind"},
               \/ call' = [call EXCEPT !.step = s]
               \/ call' = [call EXCEPT !.step = s, !.loads = caches[cache].loads]
        PROVE  call' \in HostCall /\ call'.step # "launch"
    <3>1. s \in HostSteps
        BY <2>1
    <3>2. QED
        BY <1>2, <1>5, <2>3, <3>1 DEF HostCall
  <2>4. ASSUME call' = [call EXCEPT !.probes = @ + 1], call.step = "probe"
        PROVE  call' \in HostCall /\ call'.step # "launch"
    <3>1. call.probes + 1 \in Int
        BY <1>2 DEF HostCall
    <3>2. QED
        BY <1>2, <2>4, <3>1 DEF HostCall
  <2>5. QED
    BY <2>2, <2>3, <2>4
<1>10. QED
    BY <1>1, <1>3, <1>7, <1>8, <1>9, Calibrates

(* The worker shares only its flags with the call. *)
LEMMA WorkerInv ==
    ASSUME RuntimeInv, WorkerStep \/ WorkerThrows
    PROVE  RuntimeInv'
<1>1. UNCHANGED <<call, resizes, cache, workspace, merge, stream, caches, calibration, traffic>>
    BY DEF WorkerStep, WorkerThrows, steady, spaces, pool
<1>2. RuntimeTypeOK'
    BY <1>1 DEF RuntimeInv, RuntimeTypeOK
<1>3. QED
    BY <1>1, <1>2, Moves DEF RuntimeInv, StreamByStep, WorkspaceCurrent, MergeOfDeviceCalls

-----------------------------------------------------------------------------
(* The theorems.                                                           *)
LEMMA RuntimeInductive ==
    ASSUME RuntimeInv, [RuntimeNext]_runtimeVars
    PROVE  RuntimeInv'
<1>1. CASE UNCHANGED runtimeVars
  <2>1. RuntimeTypeOK'
    BY <1>1 DEF runtimeVars, RuntimeInv, RuntimeTypeOK
  <2>2. QED
    BY <1>1, <2>1, Moves DEF runtimeVars, RuntimeInv, StreamByStep, WorkspaceCurrent,
        MergeOfDeviceCalls
<1>2. CASE \E l \in Layer, batches \in 1..MaxBatches :
               \/ \E t \in Threads : Execute(l, batches, t)
               \/ \E k \in TopK : ExecuteDevice(l, batches, k)
    BY <1>2, ExecuteInv, ExecuteDeviceInv
<1>3. CASE HostStep
    BY <1>3, BuildMergeInv, ReadRoutesInv, LoadExpertInv, EnsureWorkspaceInv,
        LaunchGraphInv,
       ReadRowsInv, EndBatchInv, ReduceInv, LeaveInv, CalibrationInv DEF HostStep
<1>4. CASE Throw \/ ProbeThrows
    BY <1>4, ThrowInv, CalibrationInv
<1>5. CASE WorkerStep \/ WorkerThrows
    BY <1>5, WorkerInv
<1>6. CASE DeviceStep
    BY <1>6, DeviceStepInv
<1>7. CASE \E s \in [Layout -> Slots] : Resize(s)
    BY <1>7, ResizeInv
<1>8. QED
    BY <1>1, <1>2, <1>3, <1>4, <1>5, <1>6, <1>7 DEF RuntimeNext

(* The whole invariant holds of every behaviour. *)
LEMMA RuntimeAlways == RuntimeSpec => []RuntimeInv
    BY InitRuntime, RuntimeInductive, PTL DEF RuntimeSpec

(* Every graph at work reads the arena of the selected cache of today
   (select frees the workspace when the layout changes, resize always;
   moe.cpp 554-567, 1148-1165).                                            *)
THEOREM GraphsReadSelected == RuntimeSpec => []GraphReadsSelected
<1>1. RuntimeInv => GraphReadsSelected
    BY DEF RuntimeInv
<1>2. QED
    BY <1>1, RuntimeAlways, PTL

(* The retained workspace, the merge workspace and the table fit the
   compute budget together, whichever was built last.                      *)
THEOREM BudgetShared == RuntimeSpec => []ComputeBudgetHeld
<1>1. RuntimeInv => ComputeBudgetHeld
    BY DEF RuntimeInv
<1>2. QED
    BY <1>1, RuntimeAlways, PTL

(* No step frees or replaces a workspace, or the caches, while work queued
   on the device still refers to it.                                       *)
THEOREM FreesWhenDrained == RuntimeSpec => NothingFreedInUse
<1> DEFINE Keeps == /\ workspace' # workspace => ~Queued("workspace")
                    /\ merge' # merge => ~Queued("merge")
                    /\ resizes' # resizes => ~Queued("arena")
<1>1. ASSUME RuntimeInv, RuntimeNext PROVE Keeps
  <2>1. \/ UNCHANGED <<workspace, merge, resizes>>
        \/ call.step \in {"idle", "merge"}
        \/ call.step = "arena" /\ UNCHANGED <<merge, resizes>>
    BY <1>1 DEF RuntimeNext, HostStep, Execute, ExecuteDevice, BuildMerge, ReadRoutes,
        LoadExpert,
           EnsureWorkspace, LaunchGraph, ReadRows, EndBatch, Reduce, Throw, Leave,
           Calibrate,
           SeeReady, Probe, StopProbing, Collect, ProbeThrows, StopWorker, Rethrow,
           WorkerStep,
           WorkerThrows, Resize, DeviceStep, steady, spaces
  <2>2. call.step \in {"idle", "merge"} => \A o : ~Queued(o)
    BY <1>1 DEF RuntimeInv, StreamByStep, Quiet, Queued
  <2>3. call.step = "arena" => ~Queued("workspace")
    BY <1>1 DEF RuntimeInv, StreamByStep
  <2>4. QED
    BY <2>1, <2>2, <2>3
<1>2. ASSUME RuntimeInv, [RuntimeNext]_runtimeVars PROVE [Keeps]_runtimeVars
    BY <1>1, <1>2
<1>3. QED
    BY <1>2, RuntimeAlways, PTL DEF RuntimeSpec, NothingFreedInUse

-----------------------------------------------------------------------------
(* The loads that metrics reports.                                         *)

Calibrating == {"await", "probe", "collect", "abort", "wait"}

(* What the calibration under way has loaded so far. *)
Measured == IF call.step \in Calibrating THEN caches[cache].loads - call.loads ELSE 0

LoadsAccounted == Loads - Measured - calibration.loads = traffic

CacheOf == [slots : Slots, resident : SUBSET Expert, loads : Int]
LoadsIn(c) == [l \in Layout |-> c[l].loads]

(* The sum is over a list, one element for each layout. *)
LEMMA LoadsList ==
    ASSUME NEW c \in [Layout -> CacheOf]
    PROVE  /\ LoadsIn(c) \in Seq(Int) /\ Len(LoadsIn(c)) = Cardinality(Layout)
           /\ \A l \in Layout : LoadsIn(c)[l] = c[l].loads /\ c[l].loads \in Int
           /\ Sum(LoadsIn(c)) \in Int
<1> DEFINE n == Cardinality(Layout)
           s == LoadsIn(c)
<1>1. n \in Nat /\ Layout = 1..n
    BY RuntimeAssumption, FS_CardinalityType
<1>2. \A l \in Layout : c[l].loads \in Int /\ s[l] = c[l].loads
    BY DEF CacheOf, LoadsIn
<1> HIDE DEF n
<1>3. s \in [1..n -> Int]
    BY <1>1, <1>2 DEF LoadsIn
<1> HIDE DEF s
<1>4. s \in Seq(Int) /\ Len(s) = n
    BY <1>1, <1>3, SeqDef, LenProperties
<1>5. PICK f \in [0..Len(s) -> Int] : Sum(s) = f[Len(s)]
    BY <1>4, SumRecursion
<1>6. Sum(s) \in Int
    BY <1>1, <1>4, <1>5
<1>7. QED
    BY <1>2, <1>4, <1>6 DEF n, s

(* A step that loads in the selected cache alone, by as much. *)
LEMMA LoadsOfOne ==
    ASSUME NEW c \in [Layout -> CacheOf], NEW d \in [Layout -> CacheOf], NEW k \in Layout,
           \A l \in Layout : l # k => d[l].loads = c[l].loads
    PROVE  /\ {Sum(LoadsIn(c)), Sum(LoadsIn(d)), c[k].loads, d[k].loads} \subseteq Int
           /\ Sum(LoadsIn(d)) = Sum(LoadsIn(c)) + d[k].loads - c[k].loads
<1> DEFINE n == Cardinality(Layout)
           s == LoadsIn(c)
           t == LoadsIn(d)
<1>1. k \in 1..n /\ Layout = 1..n
    BY RuntimeAssumption
<1>2. /\ s \in Seq(Int) /\ Len(s) = n /\ Sum(s) \in Int
      /\ \A l \in Layout : s[l] = c[l].loads /\ c[l].loads \in Int
    BY LoadsList
<1>3. /\ t \in Seq(Int) /\ Len(t) = n /\ Sum(t) \in Int
      /\ \A l \in Layout : t[l] = d[l].loads /\ d[l].loads \in Int
    BY LoadsList
<1> HIDE DEF n, s, t
<1>4. \A i \in 1..n : i # k => t[i] = s[i]
    BY <1>1, <1>2, <1>3
<1>5. Sum(t) = Sum(s) + t[k] - s[k]
  <2>1. k \in 1..Len(s) /\ Len(t) = Len(s) /\ \A i \in 1..Len(s) : i # k => t[i] = s[i]
    BY <1>1, <1>2, <1>3, <1>4
  <2>2. s \in Seq(Int) /\ t \in Seq(Int)
    BY <1>2, <1>3
  <2>3. QED
    BY <2>1, <2>2, SumOneChanged
<1>6. /\ {Sum(s), Sum(t), c[k].loads, d[k].loads} \subseteq Int
      /\ Sum(t) = Sum(s) + d[k].loads - c[k].loads
    BY <1>2, <1>3, <1>5
<1>7. QED
    BY <1>6 DEF s, t

(* A fresh cache has loaded nothing. *)
LEMMA NoLoads ==
    ASSUME NEW c \in [Layout -> CacheOf], \A l \in Layout : c[l].loads = 0
    PROVE  Sum(LoadsIn(c)) = 0
<1>1. LoadsIn(c) \in Seq(Int) /\ Len(LoadsIn(c)) = Cardinality(Layout)
    BY LoadsList
<1>2. \A i \in 1..Len(LoadsIn(c)) : LoadsIn(c)[i] = 0
    BY <1>1, LoadsList, RuntimeAssumption
<1>3. QED
    BY <1>1, <1>2, SumZeros

(* The account is kept by a step after which the loads of the selected
   cache, less those measured and those taken out, grow with the traffic.  *)
LEMMA KeepsAccount ==
    ASSUME RuntimeTypeOK, RuntimeTypeOK', LoadsAccounted,
           \A l \in Layout : l # cache => caches'[l].loads = caches[l].loads,
           NEW m \in Int, NEW n \in Int, Measured = m, Measured' = n,
           caches'[cache].loads - n - calibration'.loads - traffic'
               = caches[cache].loads - m - calibration.loads - traffic
    PROVE  LoadsAccounted'
<1>1. /\ caches \in [Layout -> CacheOf] /\ caches' \in [Layout -> CacheOf] /\ cache \in Layout
      /\ {calibration.loads, calibration'.loads, traffic, traffic'} \subseteq Int
    BY DEF RuntimeTypeOK, CacheOf
<1>2. Loads = Sum(LoadsIn(caches)) /\ Loads' = Sum(LoadsIn(caches'))
    BY DEF Loads, LoadsIn
<1>3. /\ {Loads, Loads', caches[cache].loads, caches'[cache].loads} \subseteq Int
      /\ Loads' = Loads + caches'[cache].loads - caches[cache].loads
  <2>1. \A c, d \in [Layout -> CacheOf], k \in Layout :
            (\A l \in Layout : l # k => d[l].loads = c[l].loads) =>
                /\ {Sum(LoadsIn(c)), Sum(LoadsIn(d)), c[k].loads, d[k].loads} \subseteq Int
                /\ Sum(LoadsIn(d)) = Sum(LoadsIn(c)) + d[k].loads - c[k].loads
    BY LoadsOfOne
  <2> HIDE DEF LoadsIn
  <2>2. /\ {Sum(LoadsIn(caches)), Sum(LoadsIn(caches')), caches[cache].loads,
            caches'[cache].loads} \subseteq Int
        /\ Sum(LoadsIn(caches')) = Sum(LoadsIn(caches)) + caches'[cache].loads - caches[cache].loads
    BY <1>1, <2>1
  <2>3. QED
    BY <1>2, <2>2
<1>4. Loads - m - calibration.loads = traffic
    BY DEF LoadsAccounted
<1>5. Loads' - n - calibration'.loads = traffic'
    BY <1>1, <1>3, <1>4
<1>6. QED
    BY <1>5 DEF LoadsAccounted

(* What is measured is a number: a calibrating call knows where it began. *)
LEMMA MeasuredType ==
    ASSUME RuntimeTypeOK
    PROVE  /\ Measured \in Int /\ caches[cache].loads \in Int
           /\ call.step \in Calibrating => call \in HostCall /\ call.loads \in Int
<1>1. caches[cache].loads \in Int
    BY DEF RuntimeTypeOK
<1>2. call.step \in Calibrating => call \in HostCall
    BY KindOf DEF Calibrating, HostSteps, BatchSteps
<1>3. call \in HostCall => call.loads \in Int
    BY DEF HostCall
<1>4. Measured \in Int
    BY <1>1, <1>2, <1>3 DEF Measured
<1>5. QED
    BY <1>1, <1>2, <1>3, <1>4

LEMMA InitAccount == RuntimeInit => LoadsAccounted
<1> SUFFICES ASSUME RuntimeInit PROVE LoadsAccounted
    OBVIOUS
<1>1. caches \in [Layout -> CacheOf] /\ \A l \in Layout : caches[l].loads = 0
    BY DEF RuntimeInit, Fresh, CacheOf
<1>2. Loads = 0
    BY <1>1, NoLoads DEF Loads, LoadsIn
<1>3. Measured = 0
    BY DEF RuntimeInit, Idle, Measured, Calibrating
<1>4. QED
    BY <1>2, <1>3 DEF RuntimeInit, LoadsAccounted

(* Outside a calibration, and within one, a step that touches no loads. *)
LEMMA AccountUntouched ==
    ASSUME RuntimeTypeOK, RuntimeTypeOK', LoadsAccounted,
           UNCHANGED <<caches, calibration, traffic>>,
           \/ call.step \notin Calibrating /\ call'.step \notin Calibrating
           \/ /\ call.step \in Calibrating /\ call'.step \in Calibrating
              /\ call'.loads = call.loads /\ cache' = cache
    PROVE  LoadsAccounted'
<1>1. Measured \in Int /\ Measured' = Measured
    BY MeasuredType DEF Measured
<1>2. /\ {caches[cache].loads, calibration.loads, traffic} \subseteq Int
      /\ caches' = caches /\ calibration' = calibration /\ traffic' = traffic
    BY DEF RuntimeTypeOK
<1>3. \A l \in Layout : l # cache => caches'[l].loads = caches[l].loads
    BY <1>2
<1> DEFINE m == Measured
<1>4. m \in Int /\ Measured = m /\ Measured' = m
    BY <1>1
<1> HIDE DEF m
<1>5. QED
    BY <1>2, <1>3, <1>4, KeepsAccount

(* What the probes load is measured; when it ends, it is taken out. *)
LEMMA AccountCalibration ==
    ASSUME RuntimeTypeOK, RuntimeTypeOK', LoadsAccounted,
           Calibrate \/ SeeReady \/ Probe \/ StopProbing \/ Collect \/ ProbeThrows
               \/ StopWorker \/ Rethrow
    PROVE  LoadsAccounted'
<1>1. /\ {caches[cache].loads, calibration.loads, traffic} \subseteq Int
      /\ cache \in Layout /\ caches \in [Layout -> CacheOf]
      /\ calibration \in [threads : {0} \union Threads, loads : Int]
    BY DEF RuntimeTypeOK, CacheOf
<1>2. traffic' = traffic /\ cache' = cache
    BY DEF Calibrate, SeeReady, Probe, StopProbing, Collect, ProbeThrows, StopWorker,
        Rethrow, steady, pool
<1>3. call.step \in Calibrating =>
          call \in HostCall /\ call.loads \in Int /\ Measured = caches[cache].loads - call.loads
    BY MeasuredType DEF Measured
<1>4. CASE SeeReady \/ StopProbing \/ StopWorker
  <2>1. /\ call.step \in Calibrating /\ call'.step \in Calibrating
        /\ call'.loads = call.loads
    <3>1. call.step \in Calibrating
        BY <1>4 DEF SeeReady, StopProbing, StopWorker, Calibrating
    <3>2. PICK s \in Calibrating : Goto(s)
        BY <1>4 DEF SeeReady, StopProbing, StopWorker, Calibrating
    <3>3. QED
        BY <1>3, <3>1, <3>2 DEF Goto, HostCall
  <2>2. UNCHANGED <<caches, calibration, traffic>>
    BY <1>4 DEF SeeReady, StopProbing, StopWorker, probing, pool
  <2>3. QED
    BY <1>2, <2>1, <2>2, AccountUntouched
<1>5. CASE Calibrate
  <2>1. call.step = "calibrate" /\ call \in HostCall
    BY <1>5, KindOf DEF Calibrate, HostSteps, BatchSteps
  <2>2. call'.step \in Calibrating /\ call'.loads = caches[cache].loads
    BY <1>5, <2>1 DEF Calibrate, HostCall, Calibrating
  <2>3. \A l \in Layout : caches'[l].loads = caches[l].loads
    BY <1>1, <1>5 DEF Calibrate, CacheOf
  <2>4. Measured = 0 /\ Measured' = 0
    BY <1>1, <1>2, <2>1, <2>2, <2>3 DEF Measured, Calibrating
  <2>5. calibration' = calibration
    BY <1>5 DEF Calibrate
  <2>6. caches'[cache].loads - 0 - calibration'.loads - traffic'
            = caches[cache].loads - 0 - calibration.loads - traffic
    BY <1>1, <1>2, <2>3, <2>5
  <2>7. QED
    BY <2>3, <2>4, <2>6, KeepsAccount
<1>6. CASE Probe \/ ProbeThrows
  <2>1. PICK n \in {0, 1} : caches' = [caches EXCEPT ![cache].loads = @ + n]
    BY <1>6 DEF Probe, ProbeThrows
  <2>2. /\ \A l \in Layout : l # cache => caches'[l].loads = caches[l].loads
        /\ caches'[cache].loads = caches[cache].loads + n
    BY <1>1, <2>1 DEF CacheOf
  <2>3. call.step \in Calibrating /\ call \in HostCall
    BY <1>3, <1>6 DEF Probe, ProbeThrows, Calibrating
  <2>4. call'.step \in Calibrating /\ call'.loads = call.loads
    BY <1>6, <2>3 DEF Probe, ProbeThrows, Goto, HostCall, Calibrating
  <2>5. calibration' = calibration
    BY <1>6 DEF Probe, ProbeThrows, probing
  <2> DEFINE m == caches[cache].loads - call.loads
  <2>6. m \in Int /\ m + n \in Int /\ Measured = m
    BY <1>1, <1>3, <2>3
  <2>7. Measured' = m + n
    BY <1>1, <1>2, <1>3, <2>2, <2>3, <2>4 DEF Measured
  <2>8. caches'[cache].loads - (m + n) - calibration'.loads - traffic'
            = caches[cache].loads - m - calibration.loads - traffic
    BY <1>1, <1>2, <2>2, <2>5, <2>6
  <2> HIDE DEF m
  <2>9. QED
    BY <2>2, <2>6, <2>7, <2>8, KeepsAccount
<1>7. CASE Collect \/ Rethrow
  <2>1. call.step \in Calibrating /\ call \in HostCall
    BY <1>3, <1>7 DEF Collect, Rethrow, Calibrating
  <2>2. \A l \in Layout : caches'[l].loads = caches[l].loads
    BY <1>1, <1>7 DEF Collect, Rethrow, CacheOf, pool
  <2>3. CASE calibration' = calibration /\ Goto("abort")
    <3>1. call'.step \in Calibrating /\ call'.loads = call.loads
        BY <2>1, <2>3 DEF Goto, HostCall, Calibrating
    <3> DEFINE m == caches[cache].loads - call.loads
    <3>2. m \in Int /\ Measured = m /\ Measured' = m
        BY <1>1, <1>2, <1>3, <2>1, <2>2, <3>1 DEF Measured
    <3>3. caches'[cache].loads - m - calibration'.loads - traffic'
              = caches[cache].loads - m - calibration.loads - traffic
        BY <1>1, <1>2, <2>2, <2>3
    <3> HIDE DEF m
    <3>4. QED
        BY <2>2, <3>2, <3>3, KeepsAccount
  <2>4. CASE /\ calibration'.loads = calibration.loads + caches[cache].loads - call.loads
             /\ Goto("load") \/ Goto("unwind")
    <3>1. call'.step \notin Calibrating
        BY <2>1, <2>4 DEF Goto, HostCall, Calibrating
    <3> DEFINE m == caches[cache].loads - call.loads
    <3>2. m \in Int /\ Measured = m /\ Measured' = 0
        BY <1>1, <1>3, <2>1, <3>1 DEF Measured
    <3>3. caches'[cache].loads - 0 - calibration'.loads - traffic'
              = caches[cache].loads - m - calibration.loads - traffic
        BY <1>1, <1>2, <1>3, <2>1, <2>2, <2>4
    <3> HIDE DEF m
    <3>4. QED
        BY <2>2, <3>2, <3>3, KeepsAccount
  <2>5. QED
    BY <1>1, <1>7, <2>3, <2>4 DEF Collect, Rethrow, Accounted
<1>8. QED
    BY <1>4, <1>5, <1>6, <1>7

(* The loads of a call are its traffic. *)
LEMMA AccountLoad ==
    ASSUME RuntimeTypeOK, RuntimeTypeOK', LoadsAccounted, NEW e \in Expert, LoadExpert(e)
    PROVE  LoadsAccounted'
<1>1. /\ {caches[cache].loads, calibration.loads, traffic} \subseteq Int
      /\ cache \in Layout /\ caches \in [Layout -> CacheOf]
    BY DEF RuntimeTypeOK, CacheOf
<1>2. PICK c \in Acquired(caches[cache], e) :
          /\ caches' = [caches EXCEPT ![cache] = c]
          /\ traffic' = traffic + c.loads - caches[cache].loads
    BY DEF LoadExpert
<1>3. caches'[cache] = c /\ \A l \in Layout : l # cache => caches'[l].loads = caches[l].loads
    BY <1>1, <1>2
<1>4. c.loads \in Int
    BY <1>3 DEF RuntimeTypeOK, LoadExpert, steady
<1>5. calibration' = calibration
    BY DEF LoadExpert, probing
<1>6. call.step \notin Calibrating /\ call'.step \notin Calibrating
  <2>1. call.step = "load" /\ call' = [call EXCEPT !.step = "arena"]
    BY DEF LoadExpert, Goto
  <2>2. call \in HostCall \union DeviceCall
    BY <2>1, Working
  <2>3. QED
    BY <2>1, <2>2 DEF HostCall, DeviceCall, Calibrating
<1>7. Measured = 0 /\ Measured' = 0
    BY <1>6 DEF Measured
<1>8. caches'[cache].loads - 0 - calibration'.loads - traffic'
          = caches[cache].loads - 0 - calibration.loads - traffic
    BY <1>1, <1>2, <1>3, <1>4, <1>5
<1>9. QED
    BY <1>3, <1>7, <1>8, KeepsAccount

(* A resize begins the account anew. *)
LEMMA AccountResize ==
    ASSUME RuntimeTypeOK, RuntimeTypeOK', NEW s \in [Layout -> Slots], Resize(s)
    PROVE  LoadsAccounted'
<1>1. caches' \in [Layout -> CacheOf] /\ \A l \in Layout : caches'[l].loads = 0
    BY DEF Resize, Fresh, CacheOf
<1>2. Loads' = 0
    BY <1>1, NoLoads DEF Loads, LoadsIn
<1>3. Measured' = 0
    BY DEF Resize, Measured, Calibrating
<1>4. calibration'.loads = 0 /\ traffic' = 0
    BY DEF Resize, RuntimeTypeOK
<1>5. QED
    BY <1>2, <1>3, <1>4 DEF LoadsAccounted

LEMMA AccountInductive ==
    ASSUME RuntimeInv, RuntimeInv', LoadsAccounted, [RuntimeNext]_runtimeVars
    PROVE  LoadsAccounted'
<1>1. RuntimeTypeOK /\ RuntimeTypeOK'
    BY DEF RuntimeInv
<1>2. CASE UNCHANGED <<call, cache, caches, calibration, traffic>>
    <2>1. call.step \in Calibrating => call'.loads = call.loads /\ cache' = cache
        BY <1>2
    <2>2. QED
        BY <1>1, <1>2, <2>1, AccountUntouched
<1>3. CASE /\ UNCHANGED <<caches, calibration, traffic>>
           /\ call.step \notin Calibrating /\ call'.step \notin Calibrating
    BY <1>1, <1>3, AccountUntouched
<1>4. ASSUME \/ \E l \in Layer, batches \in 1..MaxBatches :
                    \/ \E t \in Threads : Execute(l, batches, t)
                    \/ \E k \in TopK : ExecuteDevice(l, batches, k)
             \/ BuildMerge \/ ReadRoutes \/ \E n \in Count : EnsureWorkspace(n)
             \/ LaunchGraph \/ ReadRows \/ EndBatch \/ Reduce \/ Leave \/ Throw
      PROVE  /\ UNCHANGED <<caches, calibration, traffic>>
             /\ call.step \notin Calibrating /\ call'.step \notin Calibrating
  <2>1. UNCHANGED <<caches, calibration, traffic>> /\ call.step \notin Calibrating
    BY <1>4 DEF Execute, ExecuteDevice, BuildMerge, ReadRoutes, EnsureWorkspace,
        LaunchGraph, ReadRows, EndBatch, Reduce, Leave, Throw, probing, pool, Calibrating
  <2>2. CASE \E l \in Layer, batches \in 1..MaxBatches :
                    \/ \E t \in Threads : Execute(l, batches, t)
                    \/ \E k \in TopK : ExecuteDevice(l, batches, k)
    BY <2>1, <2>2 DEF Execute, ExecuteDevice, Calibrating
  <2>3. CASE Leave
    BY <2>1, <2>3 DEF Leave, Idle, Calibrating
  <2>4. CASE call \in HostCall \union DeviceCall /\
             \E s \in {"routes", "unwind", "load", "launch", "compute", "drain", "reduce"} :
                 \/ call' = [call EXCEPT !.step = s]
                 \/ call' = [call EXCEPT !.batches = @ - 1, !.step = s]
    BY <2>1, <2>4 DEF HostCall, DeviceCall, Calibrating
  <2>5. ASSUME \/ BuildMerge \/ ReadRoutes \/ \E n \in Count : EnsureWorkspace(n)
               \/ LaunchGraph \/ ReadRows \/ EndBatch \/ Reduce \/ Throw
        PROVE  \E s \in {"routes", "unwind", "load", "launch", "compute", "drain", "reduce"} :
                 \/ call' = [call EXCEPT !.step = s]
                 \/ call' = [call EXCEPT !.batches = @ - 1, !.step = s]
    BY <2>5 DEF BuildMerge, ReadRoutes, EnsureWorkspace, LaunchGraph, ReadRows, EndBatch,
        Reduce, Throw, Goto
  <2>6. ASSUME \/ BuildMerge \/ ReadRoutes \/ \E n \in Count : EnsureWorkspace(n)
               \/ LaunchGraph \/ ReadRows \/ EndBatch \/ Reduce \/ Throw
        PROVE  call \in HostCall \union DeviceCall
    <3>1. call.step # "idle"
        BY <2>6 DEF BuildMerge, ReadRoutes, EnsureWorkspace, LaunchGraph, ReadRows, EndBatch,
            Reduce, Throw
    <3>2. QED
        BY <1>1, <3>1, Working
  <2>7. QED
    BY <1>4, <2>1, <2>2, <2>3, <2>4, <2>5, <2>6
<1>5. CASE \/ Calibrate \/ SeeReady \/ Probe \/ StopProbing \/ Collect \/ ProbeThrows
           \/ StopWorker \/ Rethrow
    BY <1>1, <1>5, AccountCalibration
<1>6. CASE \E e \in Expert : LoadExpert(e)
    BY <1>1, <1>6, AccountLoad
<1>7. CASE \E s \in [Layout -> Slots] : Resize(s)
    BY <1>1, <1>7, AccountResize
<1>8. CASE UNCHANGED runtimeVars \/ WorkerStep \/ WorkerThrows \/ DeviceStep
    BY <1>2, <1>8 DEF runtimeVars, WorkerStep, WorkerThrows, DeviceStep, steady, probing, pool
<1>9. QED
    BY <1>3, <1>4, <1>5, <1>6, <1>7, <1>8 DEF RuntimeNext, HostStep

(* metrics reports the loads of the calls since the last resize, whatever
   calibrations ran, failed or were cancelled in between (moe.cpp 981-986,
   1148, 1164).                                                            *)
THEOREM MetricsAreExact == RuntimeSpec => []MetricsExact
<1>1. RuntimeInv /\ LoadsAccounted => MetricsExact
  <2> SUFFICES ASSUME RuntimeInv, LoadsAccounted, call.step \notin Calibrating
               PROVE  Loads - calibration.loads = traffic
    BY DEF MetricsExact, Calibrating
  <2>1. Measured = 0
    BY DEF Measured
  <2>2. Loads \in Int
    <3>1. caches \in [Layout -> CacheOf]
        BY DEF RuntimeInv, RuntimeTypeOK, CacheOf
    <3>2. QED
        BY <3>1, LoadsList DEF Loads, LoadsIn
  <2>3. QED
    BY <2>1, <2>2 DEF LoadsAccounted
<1>2. QED
    BY <1>1, InitAccount, AccountInductive, RuntimeAlways, PTL DEF RuntimeSpec
=============================================================================
