----------------------------- MODULE SessionRun -----------------------------
(***************************************************************************)
(* `Session` of the tensorrt crate: the pool of execution contexts, the    *)
(* pool of completion events, the cache of captured CUDA graphs and the    *)
(* two lists of in-flight work, as `Session::run` drives them              *)
(* (src/tensorrt/src/session.rs, src/tensorrt/src/candle.rs).              *)
(*                                                                         *)
(* A session is single threaded (RefCell, Rc), so the host is one process  *)
(* with a program counter.  The second actor is the GPU: every stream is a *)
(* FIFO queue of operations it completes one at a time, at any moment      *)
(* between two host steps.                                                 *)
(***************************************************************************)
EXTENDS Naturals, Sequences, FiniteSets

CONSTANTS
    Contexts,         (* identities an ExecutionContext can have               *)
    Events,           (* identities a CudaEventHandle can have                 *)
    Tensors,          (* device storages the callers' Candle tensors occupy    *)
    Streams,          (* CUDA streams                                          *)
    Devices,          (* CUDA devices                                          *)
    StreamDevice,     (* the device of each stream                             *)
    EventDevice,      (* the device on which each event identity is created    *)
    Bindings,         (* sets of storages one run binds (inputs and outputs)   *)
    InitialBackoff,   (* CUDA_GRAPH_INITIAL_BACKOFF_RUNS                       *)
    MaxBackoff,       (* CUDA_GRAPH_MAX_BACKOFF_RUNS                           *)
    MaxCacheEntries,  (* CUDA_GRAPH_MAX_CACHE_ENTRIES                          *)
    MaxQueued         (* model bound: operations waiting on one stream         *)

ASSUME DeviceAssumption ==
    /\ StreamDevice \in [Streams -> Devices]
    /\ EventDevice \in [Events -> Devices]

ASSUME BindingAssumption == Bindings \subseteq SUBSET Tensors

ASSUME BoundAssumption ==
    /\ InitialBackoff \in Nat \ {0}
    /\ MaxBackoff \in Nat
    /\ InitialBackoff <= MaxBackoff
    /\ MaxCacheEntries \in Nat \ {0}
    /\ MaxQueued \in Nat

VARIABLES
    contextPool,        (* contexts free for reuse                             *)
    inFlightContexts,   (* contexts of enqueued work, with event and keepalive *)
    inFlightGraphs,     (* launched graphs, with event and keepalive           *)
    eventPool,          (* completion events free for reuse                    *)
    cudaGraphCache,     (* captured graphs by key                              *)
    cudaGraphBackoff,   (* captures postponed after a failure, by key          *)
    pc,                 (* where the host is inside a Session call             *)
    run,                (* what the call in progress owns                      *)
    queue               (* the operations each stream has not completed        *)

vars == <<contextPool, inFlightContexts, inFlightGraphs, eventPool,
          cudaGraphCache, cudaGraphBackoff, pc, run, queue>>

-----------------------------------------------------------------------------
(* CudaGraphKey: equal exactly when the stream and every bound address are. *)
Keys == [stream : Streams, binding : SUBSET Tensors]

(* CudaGraphEntry: the context the capture consumed, and what the captured  *)
(* graph replays: the addresses that were bound, on the stream of capture.  *)
Graphs == [context : Contexts, exec : Keys]

Backoffs == [remaining_runs : Nat, next_runs : Nat]

InFlightContext ==
    [context : Contexts, event : Events, keepalive : SUBSET Tensors]

InFlightGraph ==
    [graph : Graphs, event : Events, keepalive : SUBSET Tensors]

(* The locals of one call: an Option is a set of at most one element.  The  *)
(* key names the stream and the storages of the call; the caller lends the  *)
(* tensors and `run_keepalive` clones them, so they live as long as it does. *)
Runs == [key : SUBSET Keys, context : SUBSET Contexts, event : SUBSET Events,
         graph : SUBSET Graphs]

NoRun == [key |-> {}, context |-> {}, event |-> {}, graph |-> {}]

Call(k, C, E, G) == [key |-> {k}, context |-> C, event |-> E, graph |-> G]

(* One operation of a stream: work that uses a context and reads or writes  *)
(* storages, or the record of an event.                                     *)
Ops == [contexts : SUBSET Contexts, tensors : SUBSET Tensors,
        records : SUBSET Events]

Work(c, T) == [contexts |-> {c}, tensors |-> T, records |-> {}]

Record(e) == [contexts |-> {}, tensors |-> {}, records |-> {e}]

(* Mutant of EventComplete: "not ready" taken for success.                  *)
EventAlwaysComplete(e) == TRUE

(* query_event: true once the stream has passed the event's record (and for *)
(* an event that was never recorded).                                       *)
EventComplete(e) ==
    \A s \in Streams : \A i \in DOMAIN queue[s] : e \notin queue[s][i].records

Enqueue(s, op) == queue' = [queue EXCEPT ![s] = Append(@, op)]

-----------------------------------------------------------------------------
(* Who owns a context, an event or a graph.  Nothing else holds one: what   *)
(* is in none of these places has been destroyed or does not exist yet.     *)
CachedGraphs == {cudaGraphCache[k] : k \in DOMAIN cudaGraphCache}

LiveGraphs == CachedGraphs \cup {f.graph : f \in inFlightGraphs} \cup run.graph

GraphContexts == {g.context : g \in LiveGraphs}

LiveContexts == contextPool \cup run.context \cup GraphContexts
                    \cup {f.context : f \in inFlightContexts}

LiveEvents == eventPool \cup run.event
                    \cup {f.event : f \in inFlightContexts}
                    \cup {f.event : f \in inFlightGraphs}

Idle == pc \in {"idle", "panicked"}

Init ==
    /\ contextPool = {}
    /\ inFlightContexts = {}
    /\ inFlightGraphs = {}
    /\ eventPool = {}
    /\ cudaGraphCache = [k \in {} |-> 0]
    /\ cudaGraphBackoff = [k \in {} |-> 0]
    /\ pc = "idle"
    /\ run = NoRun
    /\ queue = [s \in Streams |-> <<>>]

-----------------------------------------------------------------------------
(* The GPU completes the operation at the head of a stream.                 *)
GpuStep(s) ==
    /\ queue[s] # <<>>
    /\ queue' = [queue EXCEPT ![s] = Tail(@)]
    /\ UNCHANGED <<contextPool, inFlightContexts, inFlightGraphs, eventPool,
                   cudaGraphCache, cudaGraphBackoff, pc, run>>

-----------------------------------------------------------------------------
(* pooled_execution_context: reclaim, then pop a context or create one.     *)
(* Mutant of DoneContexts: a query that never reports completion.           *)
NothingDone == {}

DoneContexts == {f \in inFlightContexts : EventComplete(f.event)}

DoneGraphs == {f \in inFlightGraphs : EventComplete(f.event)}

(* reclaim_finished_contexts and reclaim_finished_graphs without an error.  *)
Reclaim(C, G) ==
    /\ inFlightContexts' = inFlightContexts \ C
    /\ inFlightGraphs' = inFlightGraphs \ G
    /\ eventPool' = eventPool \cup {f.event : f \in C} \cup {f.event : f \in G}

PoolAfterReclaim(C) == contextPool \cup {f.context : f \in C}

Acquire(k) ==
    /\ Idle
    /\ Len(queue[k.stream]) + 2 <= MaxQueued
    /\ LET pool == PoolAfterReclaim(DoneContexts)
       IN  \E c \in Contexts :
              /\ \/ c \in pool
                 \/ pool = {} /\ c \notin LiveContexts
              /\ contextPool' = pool \ {c}
              /\ run' = Call(k, {c}, {}, {})
    /\ Reclaim(DoneContexts, DoneGraphs)
    /\ pc' = "acquired"
    /\ UNCHANGED <<cudaGraphCache, cudaGraphBackoff, queue>>

(* clear_tensor_addresses fails on a popped context, which is destroyed, or *)
(* create_execution_context fails.                                          *)
AcquireFails ==
    /\ Idle
    /\ LET pool == PoolAfterReclaim(DoneContexts)
       IN  \/ pool = {} /\ contextPool' = {}
           \/ \E c \in pool : contextPool' = pool \ {c}
    /\ Reclaim(DoneContexts, DoneGraphs)
    /\ pc' = "idle"
    /\ UNCHANGED <<cudaGraphCache, cudaGraphBackoff, run, queue>>

(* query_event fails in the loop over the contexts: the entries it had      *)
(* already removed are destroyed, the others stay in flight.                *)
ReclaimContextsFails ==
    /\ Idle
    /\ \E C \in SUBSET DoneContexts :
          /\ C # inFlightContexts
          /\ inFlightContexts' = inFlightContexts \ C
    /\ pc' = "idle"
    /\ UNCHANGED <<contextPool, inFlightGraphs, eventPool, cudaGraphCache,
                   cudaGraphBackoff, run, queue>>

(* The same in the loop over the graphs, after the contexts were reclaimed. *)
ReclaimGraphsFails ==
    /\ Idle
    /\ contextPool' = PoolAfterReclaim(DoneContexts)
    /\ inFlightContexts' = inFlightContexts \ DoneContexts
    /\ eventPool' = eventPool \cup {f.event : f \in DoneContexts}
    /\ \E G \in SUBSET DoneGraphs :
          /\ G # inFlightGraphs
          /\ inFlightGraphs' = inFlightGraphs \ G
    /\ pc' = "idle"
    /\ UNCHANGED <<cudaGraphCache, cudaGraphBackoff, run, queue>>

(* PooledExecutionContext::drop, wherever a call ends while it still has its *)
(* pooled context: a failed check of shapes, plan or aliases, a failed event *)
(* creation, or a call such as infer_shapes that enqueues nothing.           *)
ReleaseContext ==
    /\ pc = "acquired"
    /\ contextPool' = contextPool \cup run.context
    /\ run' = NoRun
    /\ pc' = "idle"
    /\ UNCHANGED <<inFlightContexts, inFlightGraphs, eventPool, cudaGraphCache,
                   cudaGraphBackoff, queue>>

-----------------------------------------------------------------------------
(* run_host, run_to_device, run_mixed_to_device: enqueue_v3, then block.    *)
HostEnqueue ==
    /\ pc = "acquired"
    /\ \E k \in run.key, c \in run.context : Enqueue(k.stream, Work(c, k.binding))
    /\ pc' = "hostEnqueued"
    /\ UNCHANGED <<contextPool, inFlightContexts, inFlightGraphs, eventPool,
                   cudaGraphCache, cudaGraphBackoff, run>>

(* Mutant of HostSynchronize: return without waiting for the stream.        *)
HostReturnsEarly ==
    /\ pc = "hostEnqueued"
    /\ contextPool' = contextPool \cup run.context
    /\ run' = NoRun
    /\ pc' = "idle"
    /\ UNCHANGED <<inFlightContexts, inFlightGraphs, eventPool, cudaGraphCache,
                   cudaGraphBackoff, queue>>

(* Mutant of HostSynchronize: wait for the in-flight lists, which only the  *)
(* next call would empty.                                                   *)
HostWaitsForReclaim ==
    /\ pc = "hostEnqueued"
    /\ inFlightContexts = {} /\ inFlightGraphs = {}
    /\ contextPool' = contextPool \cup run.context
    /\ run' = NoRun
    /\ pc' = "idle"
    /\ UNCHANGED <<inFlightContexts, inFlightGraphs, eventPool, cudaGraphCache,
                   cudaGraphBackoff, queue>>

(* stream.synchronize() has returned; when a copy back fails first, the drop *)
(* of the output DeviceBuffers waits in cudaFree instead.  Either way the    *)
(* context goes back to the pool with its stream drained.                    *)
HostSynchronize ==
    /\ pc = "hostEnqueued"
    /\ \A k \in run.key : queue[k.stream] = <<>>
    /\ contextPool' = contextPool \cup run.context
    /\ run' = NoRun
    /\ pc' = "idle"
    /\ UNCHANGED <<inFlightContexts, inFlightGraphs, eventPool, cudaGraphCache,
                   cudaGraphBackoff, queue>>

-----------------------------------------------------------------------------
(* Mutant of CompletionEvent: one event pool for all devices.               *)
CompletionEventAnyDevice ==
    /\ pc = "acquired"
    /\ \E k \in run.key, e \in Events :
          /\ \/ e \in eventPool
             \/ /\ eventPool = {} /\ e \notin LiveEvents
                /\ EventDevice[e] = StreamDevice[k.stream]
          /\ eventPool' = eventPool \ {e}
          /\ run' = Call(k, run.context, {e}, {})
    /\ pc' = "ready"
    /\ UNCHANGED <<contextPool, inFlightContexts, inFlightGraphs,
                   cudaGraphCache, cudaGraphBackoff, queue>>

(* completion_event: pop an event of the stream's device or create one.     *)
CompletionEvent ==
    /\ pc = "acquired"
    /\ \E k \in run.key, e \in Events :
          LET device == StreamDevice[k.stream]
              pooled == {x \in eventPool : EventDevice[x] = device}
          IN  /\ EventDevice[e] = device
              /\ \/ e \in pooled
                 \/ pooled = {} /\ e \notin LiveEvents
              /\ eventPool' = eventPool \ {e}
              /\ run' = Call(k, run.context, {e}, {})
    /\ pc' = "ready"
    /\ UNCHANGED <<contextPool, inFlightContexts, inFlightGraphs,
                   cudaGraphCache, cudaGraphBackoff, queue>>

-----------------------------------------------------------------------------
(* enqueue_device_auto_graph.  Every path first reclaims finished graphs;   *)
(* BusyGraphs are the launches that are still in flight afterwards.         *)
BusyGraphs == inFlightGraphs \ DoneGraphs

(* The query of an event fails: the call returns, its event is destroyed.   *)
DispatchFails ==
    /\ pc = "ready"
    /\ \E G \in SUBSET DoneGraphs :
          /\ G # inFlightGraphs
          /\ inFlightGraphs' = inFlightGraphs \ G
    /\ contextPool' = contextPool \cup run.context
    /\ run' = NoRun
    /\ pc' = "idle"
    /\ UNCHANGED <<inFlightContexts, eventPool, cudaGraphCache,
                   cudaGraphBackoff, queue>>

(* CudaGraphExec::launch: the graph replays what was captured, on the stream *)
(* it is given.                                                              *)
Launch(g, s) == Enqueue(s, Work(g.context, g.exec.binding))

(* The key is cached: replay the graph.  The pooled context stays with the  *)
(* call and is not used.                                                    *)
ReplayCached ==
    /\ pc = "ready"
    /\ \E k \in run.key :
          /\ k \in DOMAIN cudaGraphCache
          /\ Launch(cudaGraphCache[k], k.stream)
          /\ run' = Call(k, run.context, run.event, {cudaGraphCache[k]})
    /\ Reclaim({}, DoneGraphs)
    /\ pc' = "deferGraph"
    /\ UNCHANGED <<contextPool, cudaGraphCache, cudaGraphBackoff>>

(* The launch of a cached graph fails.  The scrutinee of the `if let` still *)
(* borrows the cache, so the borrow_mut that should evict the graph panics: *)
(* the cache keeps the graph, unwinding destroys the event and returns the  *)
(* context to the pool.                                                     *)
ReplayFails ==
    /\ pc = "ready"
    /\ run.key \subseteq DOMAIN cudaGraphCache
    /\ Reclaim({}, DoneGraphs)
    /\ contextPool' = contextPool \cup run.context
    /\ run' = NoRun
    /\ pc' = "panicked"
    /\ UNCHANGED <<cudaGraphCache, cudaGraphBackoff, queue>>

(* Mutant of SkipsCapture: remaining_runs is not compared with 0.           *)
SkipsCaptureAlways(k) == k \in DOMAIN cudaGraphBackoff

(* should_skip_cuda_graph_capture *)
SkipsCapture(k) ==
    /\ k \in DOMAIN cudaGraphBackoff
    /\ cudaGraphBackoff[k].remaining_runs # 0

(* Mutant of Doubled: the limit is forgotten.                               *)
DoubledUnbounded(n) == 2 * n

Doubled(n) == IF 2 * n <= MaxBackoff THEN 2 * n ELSE MaxBackoff

(* record_cuda_graph_capture_failure: CudaGraphBackoff::new or              *)
(* CudaGraphBackoff::back_off_again.                                        *)
BackedOff(k) ==
    IF k \in DOMAIN cudaGraphBackoff
    THEN [remaining_runs |-> cudaGraphBackoff[k].next_runs,
          next_runs |-> Doubled(cudaGraphBackoff[k].next_runs)]
    ELSE [remaining_runs |-> InitialBackoff, next_runs |-> Doubled(InitialBackoff)]

(* The three reasons for a plain enqueue of a key that is not cached: other *)
(* graphs are in flight, the capture is postponed, or it just failed.       *)
GraphsBusy(k) == BusyGraphs # {} /\ UNCHANGED cudaGraphBackoff

CapturePostponed(k) ==
    /\ BusyGraphs = {}
    /\ SkipsCapture(k)
    /\ cudaGraphBackoff' = [cudaGraphBackoff EXCEPT ![k].remaining_runs = @ - 1]

CaptureFailed(k) ==
    /\ BusyGraphs = {}
    /\ ~SkipsCapture(k)
    /\ cudaGraphBackoff' = [j \in DOMAIN cudaGraphBackoff \cup {k} |->
                               IF j = k THEN BackedOff(k) ELSE cudaGraphBackoff[j]]

PlainPath(k) ==
    /\ k \notin DOMAIN cudaGraphCache
    /\ GraphsBusy(k) \/ CapturePostponed(k) \/ CaptureFailed(k)

EnqueuePlain ==
    /\ pc = "ready"
    /\ \E k \in run.key, c \in run.context :
          PlainPath(k) /\ Enqueue(k.stream, Work(c, k.binding))
    /\ Reclaim({}, DoneGraphs)
    /\ pc' = "deferContext"
    /\ UNCHANGED <<contextPool, cudaGraphCache, run>>

(* Binding an address or enqueue_v3 fails: the event is destroyed.          *)
EnqueuePlainFails ==
    /\ pc = "ready"
    /\ \E k \in run.key : PlainPath(k)
    /\ Reclaim({}, DoneGraphs)
    /\ contextPool' = contextPool \cup run.context
    /\ run' = NoRun
    /\ pc' = "idle"
    /\ UNCHANGED <<cudaGraphCache, queue>>

(* Mutant of KeptKeys: off by one at the limit.                             *)
KeptKeysOffByOne ==
    LET cached == DOMAIN cudaGraphCache
    IN  IF Cardinality(cached) > MaxCacheEntries
        THEN {cached \ {victim} : victim \in cached}
        ELSE {cached}

(* cache_cuda_graph: which entries stay.  A full cache gives up one entry,  *)
(* whichever its hash map iterates first.                                   *)
KeptKeys ==
    LET cached == DOMAIN cudaGraphCache
    IN  IF Cardinality(cached) >= MaxCacheEntries
        THEN {cached \ {victim} : victim \in cached}
        ELSE {cached}

(* Mutant of Capturable: graphs in flight do not matter.                    *)
CapturableWhileBusy(k) ==
    /\ k \notin DOMAIN cudaGraphCache
    /\ ~SkipsCapture(k)

Capturable(k) ==
    /\ k \notin DOMAIN cudaGraphCache
    /\ BusyGraphs = {}
    /\ ~SkipsCapture(k)

ClearBackoff(k) ==
    cudaGraphBackoff' = [j \in DOMAIN cudaGraphBackoff \ {k} |-> cudaGraphBackoff[j]]

(* capture_device_graph moves the pooled context into the new cache entry,  *)
(* then the graph is launched.                                              *)
CaptureAndLaunch ==
    /\ pc = "ready"
    /\ \E k \in run.key, c \in run.context, kept \in KeptKeys :
          LET entry == [context |-> c, exec |-> k]
          IN  /\ Capturable(k)
              /\ cudaGraphCache' = [j \in kept \cup {k} |->
                                       IF j = k THEN entry ELSE cudaGraphCache[j]]
              /\ ClearBackoff(k)
              /\ Launch(entry, k.stream)
              /\ run' = Call(k, {}, run.event, {entry})
    /\ Reclaim({}, DoneGraphs)
    /\ pc' = "deferGraph"
    /\ UNCHANGED contextPool

(* The first launch fails: the new entry is removed with its context, and   *)
(* the event recycled.                                                      *)
CapturedLaunchFails ==
    /\ pc = "ready"
    /\ \E k \in run.key, kept \in KeptKeys :
          /\ Capturable(k)
          /\ cudaGraphCache' = [j \in kept |-> cudaGraphCache[j]]
          /\ ClearBackoff(k)
    /\ inFlightGraphs' = BusyGraphs
    /\ eventPool' = eventPool \cup run.event \cup {f.event : f \in DoneGraphs}
    /\ run' = NoRun
    /\ pc' = "idle"
    /\ UNCHANGED <<contextPool, inFlightContexts, queue>>

-----------------------------------------------------------------------------
(* Mutant of DeferContext: the pooled guard is not emptied by into_inner,   *)
(* so its drop also returns the context to the pool.                        *)
DeferContextKeepsGuard ==
    /\ pc = "deferContext"
    /\ \E k \in run.key, c \in run.context, e \in run.event :
          /\ Enqueue(k.stream, Record(e))
          /\ inFlightContexts' = inFlightContexts \cup
                {[context |-> c, event |-> e, keepalive |-> k.binding]}
    /\ contextPool' = contextPool \cup run.context
    /\ run' = NoRun
    /\ pc' = "idle"
    /\ UNCHANGED <<inFlightGraphs, eventPool, cudaGraphCache, cudaGraphBackoff>>

(* Mutant of DeferContext: the event is recorded on another stream.         *)
DeferContextWrongStream ==
    /\ pc = "deferContext"
    /\ \E k \in run.key, c \in run.context, e \in run.event, s \in Streams :
          /\ Enqueue(s, Record(e))
          /\ inFlightContexts' = inFlightContexts \cup
                {[context |-> c, event |-> e, keepalive |-> k.binding]}
    /\ run' = NoRun
    /\ pc' = "idle"
    /\ UNCHANGED <<contextPool, inFlightGraphs, eventPool, cudaGraphCache,
                   cudaGraphBackoff>>

(* defer_context_until_stream_complete: record the event behind the work    *)
(* and keep context, event and tensors until it is complete.                *)
DeferContext ==
    /\ pc = "deferContext"
    /\ \E k \in run.key, c \in run.context, e \in run.event :
          /\ Enqueue(k.stream, Record(e))
          /\ inFlightContexts' = inFlightContexts \cup
                {[context |-> c, event |-> e, keepalive |-> k.binding]}
    /\ run' = NoRun
    /\ pc' = "idle"
    /\ UNCHANGED <<contextPool, inFlightGraphs, eventPool, cudaGraphCache,
                   cudaGraphBackoff>>

(* defer_graph_until_stream_complete; a pooled context the replay did not   *)
(* need goes back to the pool when the call returns.                        *)
DeferGraph ==
    /\ pc = "deferGraph"
    /\ \E k \in run.key, g \in run.graph, e \in run.event :
          /\ Enqueue(k.stream, Record(e))
          /\ inFlightGraphs' = inFlightGraphs \cup
                {[graph |-> g, event |-> e, keepalive |-> k.binding]}
    /\ contextPool' = contextPool \cup run.context
    /\ run' = NoRun
    /\ pc' = "idle"
    /\ UNCHANGED <<inFlightContexts, eventPool, cudaGraphCache, cudaGraphBackoff>>

(* Mutant of DeferFails: the error is returned without synchronizing.       *)
DeferFailsUnsynchronized ==
    /\ pc \in {"deferContext", "deferGraph"}
    /\ contextPool' = contextPool \cup run.context
    /\ eventPool' = eventPool \cup run.event
    /\ run' = NoRun
    /\ pc' = "idle"
    /\ UNCHANGED <<inFlightContexts, inFlightGraphs, cudaGraphCache,
                   cudaGraphBackoff, queue>>

(* Either of them cannot grow its list or record the event: the stream is   *)
(* synchronized before context, event and tensors are let go.               *)
DeferFails ==
    /\ pc \in {"deferContext", "deferGraph"}
    /\ \A k \in run.key : queue[k.stream] = <<>>
    /\ contextPool' = contextPool \cup run.context
    /\ eventPool' = eventPool \cup run.event
    /\ run' = NoRun
    /\ pc' = "idle"
    /\ UNCHANGED <<inFlightContexts, inFlightGraphs, cudaGraphCache,
                   cudaGraphBackoff, queue>>

-----------------------------------------------------------------------------
(* Session::drop: wait for the event of every entry in flight, destroying   *)
(* each entry after its wait, contexts before graphs; then everything else. *)
DropSession ==
    /\ Idle
    /\ pc' = "dropping"
    /\ UNCHANGED <<contextPool, inFlightContexts, inFlightGraphs, eventPool,
                   cudaGraphCache, cudaGraphBackoff, run, queue>>

DropContext ==
    /\ pc = "dropping"
    /\ \E f \in DoneContexts : inFlightContexts' = inFlightContexts \ {f}
    /\ UNCHANGED <<contextPool, inFlightGraphs, eventPool, cudaGraphCache,
                   cudaGraphBackoff, pc, run, queue>>

DropGraph ==
    /\ pc = "dropping"
    /\ inFlightContexts = {}
    /\ \E f \in DoneGraphs : inFlightGraphs' = inFlightGraphs \ {f}
    /\ UNCHANGED <<contextPool, inFlightContexts, eventPool, cudaGraphCache,
                   cudaGraphBackoff, pc, run, queue>>

(* Mutant of DropRest: the captured graphs are forgotten.                   *)
DropRestKeepsGraphs ==
    /\ pc = "dropping"
    /\ inFlightContexts = {} /\ inFlightGraphs = {}
    /\ contextPool' = {}
    /\ eventPool' = {}
    /\ pc' = "dropped"
    /\ UNCHANGED <<inFlightContexts, inFlightGraphs, cudaGraphCache,
                   cudaGraphBackoff, run, queue>>

DropRest ==
    /\ pc = "dropping"
    /\ inFlightContexts = {} /\ inFlightGraphs = {}
    /\ contextPool' = {}
    /\ eventPool' = {}
    /\ cudaGraphCache' = [k \in {} |-> 0]
    /\ cudaGraphBackoff' = [k \in {} |-> 0]
    /\ pc' = "dropped"
    /\ UNCHANGED <<inFlightContexts, inFlightGraphs, run, queue>>

-----------------------------------------------------------------------------
(* The steps of a call that has begun, each of which it takes by itself.    *)
CallStep ==
    \/ ReleaseContext \/ HostEnqueue \/ HostSynchronize \/ CompletionEvent
    \/ DispatchFails \/ ReplayCached \/ ReplayFails
    \/ EnqueuePlain \/ EnqueuePlainFails \/ CaptureAndLaunch \/ CapturedLaunchFails
    \/ DeferContext \/ DeferGraph \/ DeferFails

DropStep == DropContext \/ DropGraph \/ DropRest

(* The caller starts a call or drops the session.                           *)
CallerStep ==
    \/ \E s \in Streams, b \in Bindings : Acquire([stream |-> s, binding |-> b])
    \/ AcquireFails \/ ReclaimContextsFails \/ ReclaimGraphsFails
    \/ DropSession

Next == CallerStep \/ CallStep \/ DropStep \/ \E s \in Streams : GpuStep(s)

Spec == Init /\ [][Next]_vars

-----------------------------------------------------------------------------
(* The type of every variable.                                              *)
TypeOK ==
    /\ contextPool \subseteq Contexts
    /\ inFlightContexts \subseteq InFlightContext
    /\ inFlightGraphs \subseteq InFlightGraph
    /\ eventPool \subseteq Events
    /\ DOMAIN cudaGraphCache \subseteq Keys
    /\ cudaGraphCache \in [DOMAIN cudaGraphCache -> Graphs]
    /\ DOMAIN cudaGraphBackoff \subseteq Keys
    /\ cudaGraphBackoff \in [DOMAIN cudaGraphBackoff -> Backoffs]
    /\ pc \in {"idle", "panicked", "acquired", "hostEnqueued", "ready",
               "deferContext", "deferGraph", "dropping", "dropped"}
    /\ run \in Runs
    /\ queue \in [Streams -> Seq(Ops)]

(* Every operation that waits on a stream.                                  *)
PendingOps == UNION {{queue[s][i] : i \in DOMAIN queue[s]} : s \in Streams}

(* The storages the session keeps from being freed: the keepalives of what  *)
(* is in flight, and the tensors lent to the call in progress.              *)
RetainedTensors ==
    (UNION {f.keepalive : f \in inFlightContexts})
        \cup (UNION {f.keepalive : f \in inFlightGraphs})
        \cup (UNION {k.binding : k \in run.key})

(* While a stream still has work to do, the context and every storage of    *)
(* that work are kept alive by the session, and the context is not free for *)
(* another run: "Session keeps the bound Candle tensor storage alive        *)
(* internally until the enqueued work has completed" (session.rs, run).     *)
WorkRetained ==
    \A op \in PendingOps :
        /\ op.tensors \subseteq RetainedTensors
        /\ op.contexts \subseteq LiveContexts \ contextPool

(* A context belongs to one owner: the pool, the call in progress, one      *)
(* entry in flight or one captured graph; so does an event.  (A Vec that    *)
(* held a context twice would hand it to two runs at once.)                 *)
OwnedOnce ==
    /\ contextPool \cap run.context = {}
    /\ GraphContexts \cap (contextPool \cup run.context) = {}
    /\ eventPool \cap run.event = {}
    /\ \A f \in inFlightContexts :
          /\ f.context \notin contextPool \cup run.context \cup GraphContexts
          /\ f.event \notin eventPool \cup run.event
    /\ \A f \in inFlightGraphs : f.event \notin eventPool \cup run.event
    /\ \A f \in inFlightContexts, g \in inFlightGraphs : f.event # g.event
    /\ \A f, g \in inFlightContexts :
          f # g => f.context # g.context /\ f.event # g.event
    /\ \A f, g \in inFlightGraphs : f # g => f.event # g.event
    /\ \A g, h \in LiveGraphs : g # h => g.context # h.context

(* A context never has work on two streams at once: TensorRT gives it one   *)
(* set of activation buffers, so overlapping executions would corrupt them. *)
OneStreamPerContext ==
    \A s, t \in Streams : \A i \in DOMAIN queue[s], j \in DOMAIN queue[t] :
        queue[s][i].contexts \cap queue[t][j].contexts # {} => s = t

(* An event that is free for reuse has no record waiting: recording it      *)
(* again would move the completion of the run that recorded it first.  And  *)
(* an event is only recorded on a stream of the device it was created on.   *)
EventsReusable ==
    /\ \A op \in PendingOps : op.records \cap (eventPool \cup run.event) = {}
    /\ \A s \in Streams : \A i \in DOMAIN queue[s] :
          \A e \in queue[s][i].records : EventDevice[e] = StreamDevice[s]

(* An event that is complete covers its run: when the host sees it done,    *)
(* nothing on any stream uses the run's context any more; a replayed graph  *)
(* may still be in use, but then by a later replay that is itself tracked.  *)
CompletionCovers ==
    /\ \A f \in DoneContexts : \A op \in PendingOps : f.context \notin op.contexts
    /\ \A f \in DoneGraphs : (\E op \in PendingOps : f.graph.context \in op.contexts)
          => \/ f.graph \in run.graph
             \/ \E g \in BusyGraphs : g.graph = f.graph

(* The captures and their keys agree, and the cache respects its limit.     *)
CacheSound ==
    /\ Cardinality(DOMAIN cudaGraphCache) <= MaxCacheEntries
    /\ \A k \in DOMAIN cudaGraphCache : cudaGraphCache[k].exec = k

(* A postponed capture is always due within the next back-off interval; the *)
(* interval doubles from the initial one and never passes its limit.        *)
BackoffBounded ==
    \A k \in DOMAIN cudaGraphBackoff :
        /\ cudaGraphBackoff[k].remaining_runs <= cudaGraphBackoff[k].next_runs
        /\ InitialBackoff <= cudaGraphBackoff[k].next_runs
        /\ cudaGraphBackoff[k].next_runs <= MaxBackoff

(* A graph leaves the cache only when no stream is replaying it.            *)
EvictionIdle ==
    [][\A k \in DOMAIN cudaGraphCache \ DOMAIN cudaGraphCache' :
          \A op \in PendingOps : cudaGraphCache[k].context \notin op.contexts]_vars

(* The GPU completes what it was given, a call that began runs on, and a    *)
(* drop that began continues.  The caller owes nothing.                     *)
Fairness ==
    /\ \A s \in Streams : WF_vars(GpuStep(s))
    /\ WF_vars(CallStep)
    /\ WF_vars(DropStep)

FairSpec == Spec /\ Fairness

(* Every call returns (or panics), even when it must wait for the GPU.      *)
CallReturns == (pc \notin {"idle", "panicked", "dropping", "dropped"}) ~> Idle

(* If the caller keeps making calls that succeed in taking a context, what  *)
(* is in flight is reclaimed: no run pins its context, event and tensors    *)
(* for ever.                                                                *)
AcquireAny == \E s \in Streams, b \in Bindings : Acquire([stream |-> s, binding |-> b])

InFlightEvents ==
    {f.event : f \in inFlightContexts} \cup {f.event : f \in inFlightGraphs}

ReclaimedIfUsed ==
    []<><<AcquireAny>>_vars =>
        \A e \in Events : (e \in InFlightEvents) ~> (e \notin InFlightEvents)

(* The launch of a cached graph that fails is reported by the Result of     *)
(* `run`, after the graph was evicted (session.rs:448-452), not by a panic. *)
LaunchFailureReturns == pc # "panicked"

(* Dropping the session ends, whatever was in flight, and leaves nothing    *)
(* running on a context.                                                    *)
DropEnds == (pc = "dropping") ~> (pc = "dropped" /\ LiveContexts = {})

-----------------------------------------------------------------------------
(* The inductive invariant behind the safety properties.                    *)

(* What the call in progress owns at each point of its way.                 *)
CallShape ==
    \/ /\ pc \in {"idle", "panicked", "dropping", "dropped"}
       /\ run = NoRun
    \/ /\ pc \in {"acquired", "hostEnqueued"}
       /\ \E k \in Keys, c \in Contexts : run = Call(k, {c}, {}, {})
    \/ /\ pc \in {"ready", "deferContext"}
       /\ \E k \in Keys, c \in Contexts, e \in Events :
             /\ EventDevice[e] = StreamDevice[k.stream]
             /\ run = Call(k, {c}, {e}, {})
    \/ /\ pc = "deferGraph"
       /\ \E k \in Keys, C \in SUBSET Contexts, e \in Events, g \in Graphs :
             /\ EventDevice[e] = StreamDevice[k.stream]
             /\ g.exec = k
             /\ run = Call(k, C, {e}, {g})

GraphsKeyed == \A k \in DOMAIN cudaGraphCache : cudaGraphCache[k].exec = k

(* The operation at position i of stream s is work of an entry in flight,   *)
(* whose event is recorded behind it...                                     *)
Tracks(s, i, context, keepalive, event) ==
    /\ queue[s][i].contexts = {context}
    /\ queue[s][i].tensors = keepalive
    /\ \E j \in DOMAIN queue[s] : i < j /\ event \in queue[s][j].records

ContextTracks(s, i) ==
    \E f \in inFlightContexts : Tracks(s, i, f.context, f.keepalive, f.event)

GraphTracks(s, i) ==
    \E f \in inFlightGraphs :
        /\ f.graph.exec.stream = s
        /\ Tracks(s, i, f.graph.context, f.keepalive, f.event)

(* ...or work the call in progress has enqueued and not yet deferred.       *)
CallTracks(s, i) ==
    /\ pc \in {"hostEnqueued", "deferContext", "deferGraph"}
    /\ \E k \in run.key :
          /\ s = k.stream
          /\ queue[s][i].tensors = k.binding
    /\ queue[s][i].contexts = IF pc = "deferGraph"
                              THEN {g.context : g \in run.graph}
                              ELSE run.context

IsRecord(s, i) == queue[s][i].contexts = {} /\ queue[s][i].tensors = {}

Accounted ==
    \A s \in Streams : \A i \in DOMAIN queue[s] :
        IsRecord(s, i) \/ ContextTracks(s, i) \/ GraphTracks(s, i) \/ CallTracks(s, i)

(* A waiting record is the only one of its event, which is in flight and of *)
(* the stream's device.                                                     *)
RecordsOwned ==
    \A s \in Streams : \A i \in DOMAIN queue[s] : \A e \in queue[s][i].records :
        /\ e \in InFlightEvents
        /\ EventDevice[e] = StreamDevice[s]
        /\ \A t \in Streams : \A j \in DOMAIN queue[t] :
              e \in queue[t][j].records => s = t /\ i = j

IInv ==
    /\ TypeOK
    /\ CallShape
    /\ OwnedOnce
    /\ GraphsKeyed
    /\ Accounted
    /\ RecordsOwned
=============================================================================
