# Verification of tensorrt-rs

TLA+ modules, TLC configurations and TLAPS proofs about `tensorrt` (safe Rust
bindings of TensorRT, with a `Session` that runs Candle tensors) and
`tensorrt_llm` (bindings of the TensorRT-LLM executor), kept beside the code in
`src/`. Everything here is translated from the Rust and C++ sources; CUDA,
TensorRT and TensorRT-LLM themselves are external and are modelled from the way
the crates use them.

## The system

What both crates have in common is that a call returns **before** the GPU has
done the work. Somebody must then keep alive what the GPU still uses (device
tensors, execution contexts, native responses), must know when it is over (CUDA
events, recorded behind the work on its stream and recycled in pools), and must
do so on every path, the failing ones included. A unit test hardly reaches any
of this: it takes several runs, a slow GPU and a failure in the right place, and
the consequence is a wrong number or a use of freed device memory.

| part | state | operations | interacts with |
|---|---|---|---|
| `Session` runs (`tensorrt/src/session.rs`, `candle.rs`) | `context_pool`, `in_flight_contexts`, `in_flight_graphs`, `event_pool`, `cuda_graph_cache`, `cuda_graph_backoff` | `run`, `run_host`, `run_to_device`, `run_mixed_to_device`, `infer_shapes`, drop | TensorRT contexts, CUDA streams, events, graphs; Candle tensors of the caller |
| shapes of contexts (`session.rs`, `engine.rs`, `session/plan.rs`) | `ExecutionContext::input_shapes`, `run_plan_cache`, the shapes inside TensorRT | set shapes if needed, plan outputs | the context pool, which makes contexts circulate |
| prepared sessions (`prepared.rs`) | one context with fixed shapes, its bound addresses, staging buffers | `enqueue_device`, `enqueue_mixed_to_device`, the runs that wait, the in-flight guard, drop | stream, host bytes and device memory of the caller |
| Candle adapter (`candle.rs`) | none | tensors to bindings, output allocation, alias check, keepalive | `Session` |
| CUDA handles (`cuda.rs`) | raw handles | create, record, query, synchronize, capture, launch, copy | all of the above |
| engine, runtime (`engine.rs`, `tensorrt-sys`) | reference-counted handles | deserialize, inspect, create contexts | `Session` |
| sizes and types (`tensor.rs`, `data_type.rs`, `session/select.rs`) | none | checked products, byte lengths, validation, selection by name | the adapter, `Session` |
| LLM `Executor` (`tensorrt_llm/src/executor.rs`) | pools of request buffers, sink scratch and events, shared by threads | `run`, with or without an output sink | the native shim |
| native shim (`tensorrt_llm-sys/native/*.cpp`) | retained responses | `run`, `run_into`, free | TensorRT-LLM, CUDA streams |
| LLM outputs (`output.rs`) | lazily built tensors over native memory | accessors | the response guard |
| LLM requests, sampling, builder | none (values) | validation, conversion | the executor |

What makes each part correct:

* **Session runs**: while work waits on a stream, its context and every tensor
  it reads or writes are retained; a context and an event have one owner; a
  context never has work on two streams; a completion event covers its run; a
  pooled event has no record pending; a graph is evicted only when idle; cache
  and back-off respect their limits; every call returns; dropping the session
  ends and leaves nothing; in-flight work is reclaimed if the session is used.
* **Shapes**: what TensorRT executes, and what outputs are sized for, is what
  the caller asked for, whatever the context did before.
* **Prepared sessions**: an inference executes with the bytes and addresses of
  its own call; the context is never reused or destroyed under it; nothing is
  pending when the session and the caller's bytes are free (finding 4: this
  fails); a run that waits returns.
* **Staged runs**: queued work has the context and buffers it uses; a run
  returns what the engine computes from its own inputs; bound memory covers what
  the engine accesses; engine, contexts and work end in that order.
* **LLM runs with a sink**: native responses and sink tensors outlive the copies;
  `synchronize` means delivered; the last response wins; an output that no
  response carried is reported; events are reused only when complete.
* **LLM requests**: the backend reads what the caller asked for, whatever the
  pooled buffers held before; a request that the crate accepts does not make the
  shim throw; a virtual token has its row.
* **LLM responses**: the caller reads the values of the answer until it drops the
  response, and no read panics; sink tensors are written whole and by one output;
  what leaks when something throws is bounded.
* **LLM configuration**: the executor runs with what the caller set.

What is hard: interleaving of host and GPU, of threads in `Executor`, of several
runs of one session; error paths that release what the GPU still uses; caches
that remember more than they should; the order of operations on a stream.

## Modules

| module | models | run by | theorems |
|---|---|---|---|
| `SessionRun` | the session's pools, in-flight lists, graph cache and back-off as `run` and the synchronous runs drive them | `MCSessionRun` | `SessionRunProofs` |
| `StagedRun` | the runs with temporary buffers or a guard, binding by binding: staging, addresses, launch, copies back, handles | `MCStagedRun` | `StagedRunProofs`, `StagedDataProofs` |
| `TensorBindings` | checks of modes, types, shapes and bytes of a binding | with `StagedRun` | - |
| `ContextShapes` | the shapes pooled contexts hold and remember, and the plan cache | `MCContextShapes` | `ContextShapesProofs` |
| `PreparedRun` | prepared sessions: staging copies, addresses, launch, guard, drop | `MCPreparedRun` | `PreparedRunProofs` |
| `SinkRun` | LLM runs with output sinks: shim, event pool, responses | `MCSinkRun` | `SinkRunProofs` |
| `RequestParts`, `RequestChecks` | a request with its parts; what the executor refuses | with `ExecutorSetup` | - |
| `RequestWire` | the layout of a request in pooled buffers and what the shim reads back | with `ExecutorSetup` | `WireProofs` |
| `SinkTensors`, `SinkScratch`, `TensorTypes` | names and ranges of sink tensors, their description to the shim, type codes | with `ExecutorSetup` | `ExecutorProofs` |
| `RequestRun` | threads that prepare and submit requests; pools of buffers and scratch | with `ExecutorSetup` | `ExecutorProofs` |
| `OutputWire` | the native response, its memory, and the lazy tensors over it | with `ExecutorSetup` | `ExecutorProofs` |
| `ExecutorCalls` | whole calls of `Executor::run`: `RequestRun`, the answer, the response until its drop | with `ExecutorSetup` | `ExecutorProofs` |
| `ExecutorPromise` | abstract: what `run` promises a caller; `ExecutorCalls` implements it | with `ExecutorSetup` | `ExecutorProofs` |
| `BuilderWire` | the configuration: defaults, eagle rules, layout, what the shim reads | with `ExecutorSetup` | `ExecutorProofs` |
| `ExecutorSetup` | an executor created, used by `ExecutorCalls`, dropped and created again | `MCExecutorSetup` | `ExecutorProofs` |

The LLM side is a chain of `EXTENDS`: `TensorTypes`, `RequestParts`,
`RequestChecks`, `RequestWire`, `RequestRun`, `ExecutorCalls`, `ExecutorSetup`;
`OutputWire` and `BuilderWire` join it where responses and configurations do.
`SinkRun` stands beside it: it has the time in which the copies of a response are
pending, which `ExecutorCalls` leaves out (there a sink holds what it will hold
when the copies are over).

### SessionRun

A session is single threaded (`RefCell`, `Rc`: neither `Send` nor `Sync`), so
the host is one process with a program counter `pc`. The second actor is the
GPU: `queue[s]` is the FIFO of operations that stream `s` has not completed, and
`GpuStep(s)` completes the head at any moment between two host steps. The
variables carry the names of the fields. What the call in progress owns is `run`:
its key (stream and bound storages), its context, its completion event, a graph.

* `Acquire` is `pooled_execution_context` with both reclaims; its three failures
  (`AcquireFails`, `ReclaimContextsFails`, `ReclaimGraphsFails`) lose exactly
  what the code has moved out of the lists when it returns.
* `HostEnqueue`, `HostSynchronize` are the runs that wait before they return.
* `CompletionEvent` takes an event of the stream's device.
* `enqueue_device_auto_graph` is one action per path: `ReplayCached`,
  `ReplayFails`, `EnqueuePlain`, `EnqueuePlainFails`, `CaptureAndLaunch`,
  `CapturedLaunchFails`, `DispatchFails`, each with the reclaim of graphs every
  path begins with, its effect on back-off and eviction included.
* `DeferContext`, `DeferGraph`, `DeferFails` record the event and hand the work
  to the in-flight lists; when that fails the stream is drained first.
* `DropSession`, `DropContext`, `DropGraph`, `DropRest` are `Session::drop`.

A tensor is a storage identity; the storages of a key stand for its addresses,
because `CudaGraphKey` is equal exactly when stream and addresses are. The
eviction of `cache_cuda_graph` takes any key, as the iteration order of a
`HashMap` does. After a panic (`ReplayFails`) a caller may still use the session,
so `panicked` is idle. `mem::forget` of a guard is not modelled.
A wait that fails while the code is already failing or dropping (a lost CUDA
context) is taken to have waited: nothing on that device runs any more.

### ContextShapes

Each call that touches shapes is one step; only the end of asynchronous work
comes between them, and makes contexts with different histories circulate.
`AppliedBy` is the loop of `set_input_shapes`, which leaves the inputs before the
refused one set. `executed` observes the last work: the shapes asked for, those
TensorRT held, and those the outputs were planned from.

### PreparedRun

A call borrows the session mutably and hands the borrow to its guard, so there is
one call or guard at a time, `call`, and `pc` says how far it is: `staging`
(`prepare_mixed_input_pointers`, binding by binding), `bound`, `guarded`,
`failing` (a wait failed; the guard drops and waits again). The queues outlive
it: a failed call leaves its copies there. A value stands for the content of host
bytes or the identity of device memory; `asked` is what the call binds, `bound`
the addresses the context holds, `staging` the content of the staging buffers.
A `PreparedDeviceSession` is the instance without staged inputs; an output is a
binding that is not staged. Bindings that validation refuses change nothing and
are left out; so is a guard leaked with `mem::forget`. `assume_synchronized` is
unsafe: its caller is taken to have waited for the inference. Dropping the session is two
steps, in the order of its fields: the context, with no wait for what a failed call left
(`DropSession`), then the staging buffers, whose `cudaFree` waits (`FreeStaging`). A
`Session`'s own
`enqueue_device` has the same guard around a context nobody else has.

### StagedRun

A call goes through the steps of the code: infer shapes (`run_allocating`), take a
context from the pool or create one, set shapes if they are not those set last,
stage or bind the inputs one by one, validate, allocate or bind the outputs, launch,
copy back, synchronize, return. `call` holds what the Rust frame owns: the context,
the temporary buffers (`temps`), the addresses of inputs (`bound`) and outputs
(`targets`); `Return` drops them in the order of the code, buffers before the
context. `Fail` is an early return at any of these steps. Contexts of `run_device`
and `enqueue_device` are their own and die with the call or its guard.

Nothing in the code asks for distinct names, and TensorRT may refuse any input
(`MayRefuse`): a tensor named twice has the shape and the address set last, and a refusal
leaves the shapes of the inputs before it set while the context goes on remembering the
request before (`ShapesRefused`, finding 2). Two properties depend on what a caller or an
engine does here, and say so as hypotheses of their theorems:

* `BoundCovers` (`AddressesCover`) needs `RefusedFirst`: after a later refusal the
  remembered request matches shapes that the context no longer has, and inputs are checked
  against the request. In the run it holds without it, with refusals of the second input,
  because the outputs are checked against the shapes of the context and those of the run's
  engine tell the shape of its input. An engine whose outputs do not is finding 2.
* `ReturnsComputed` (`OutputsComputed`) needs `OutputsOnce`. `select_outputs` and
  `run_host` accept a name twice; the engine writes to the memory bound last, and the
  earlier one is returned with what its buffer had. `results` keeps one value by name, that
  of the last.

An address is null, a temporary buffer, or memory that the caller lends. The device
reads it when the work is executed: memory holds an input, an output of a call or
`Junk`, and `Computed` gives an output only if each input address holds that call's
input by then. A binding whose size was computed with wrapping products would pass
the check and is what `BoundCovers` is about: `usize` ends at `MaxSize`.

External: `broken` is an error of the device's work, which CUDA reports in every later
call; `cudaFree` waits for the device (CUDA does not promise it in words, but its
implementation does, and the code relies on it when a call fails with copies pending).
The runtime is dropped with the session
even where guards keep the engine; that TensorRT allows it is its own affair, and
`ReleasedInOrder` is about the engine. A session is opened again only when the engine
of the last one is gone.

### SinkRun

`Executor` is `Send` and `Sync`, so each member of `Runs` is a thread: its run,
the `Response` it returned, its next run. `pc` follows the shim: `prepared`
(`OutputSinkParts::new`), `waiting` (`awaitResponses`), `early` (copies of
responses that are not final), `final` (`copy_responses_with_stream`),
`draining` (its handler), then `held` (a `Response` in the caller's hands) or
`dropping` (refused by `ensure_all_written`). A response is the set of sink
outputs it carries; a stream operation is the copies of one response or a
record. `Release` is what every exit does: free the responses, recycle scratch
and event, whose destructor waits unless it is known complete.

Each caller passes one stream (`StreamOf`) in all its runs; several may share
one. The device of an event is left out (`SessionRun` has it). A response with
an error, or the final one, is the last of its batch. Host memory that only one
run can reach (request buffers, names, shapes) is left out; of the scratch the
written flags are kept, because they outlive a run in the pool. The copy loop
assumes that copies of one response are enqueued as one operation: no other
operation of that run can come between them.

### RequestRun, RequestWire and the request side

A request is a record; an option is a set of at most one element. `Accepted` is
`prepare_request`'s validation. `Filled` lays the lists out in `RequestBuffers` and
`Encoded` builds the structure of pointers, counts and flags, in that order, as the
code does; `RequestReadable` and `RequestRead` are the shim's checks and what it makes
of them. `Meant` states the request independently of any layout, and `ReadAsAsked`
compares the two. The steps of a thread are `Refuse`, `Accept`, `Checkout`, `Prepare`,
`Submit`, `Finish`, `ReturnRefused`; buffers are boxed, so an identity stands for an
address. Fields that are only copied are left out: request type, names of logits
processors, serialized state, endpoints, transfer mode, task and request ids, position
deltas. The validation profile uses the engine's `max_num_tokens`, also where the
builder overrides it. `config.rs` does not check that vocabulary and hidden size are
positive; `RequestAssumption` says they are.

### OutputWire, ExecutorCalls, ExecutorPromise

An answer is a batch of responses, each an error or a result. `heap` maps the blocks
that a response allocates, or borrows from the retained responses, to what they hold;
a block that was freed reads as `Garbage`. `Return` is the shim from the answer on:
`AwaitError` and `ReturnError` are its two places to throw, with the blocks that are
freed and those that are not, `ReturnResponses` copies into the sink by name and fills
the structure. `Open` validates and takes the final response, `ReadTensorOf` reads one
tensor for the first time, `Close` drops the response.

`ExecutorPromise` has no buffers, pointers or pools: the backend gets a task, the
caller one outcome of it, until it releases it. `KeepsPromise` is its specification
under the mapping that takes the request from what the shim *read* and the response
from what its lazy tensors *decode now*, so a recycled buffer or a freed block breaks
it.

Two places where the code does something a reader may not expect, described by the
properties: a sink tensor called `logits` receives both context and generation logits,
one over the other (`DeliveredWhole` names the exception; the test in `request.rs`
1008-1027 keeps the name), and `copy_additional_outputs` sets `named_tensors` after its
loop, so that the tensors allocated before something throws in it are never freed
(`OnlyNamedTensorsLeak`).

### BuilderWire, ExecutorSetup

`Defaulted`, `LimitsFit` and `BuilderValid` are `from_builder`; `ConfigEncoded`,
`ConfigReadable` and `ConfigRead` the way to the shim, with the rules for eagle choices
and for runtime defaults of the KV cache; `ConfigMeant` states the result without them.
Setters that only replace a field are not modelled one by one: a builder is the record
they leave. A choice without tokens or an empty guided vocabulary entry is accepted by
the crate and makes creation throw.

## Runs

| run | cfg | checks | bounds |
|---|---|---|---|
| `session_safety` | `MCSessionRun.cfg` | all safety properties of `SessionRun` | 2 streams of 1 device, 3 contexts, 3 events, 2 overlapping sets of storages, cache of 1, back-off 1 to 2, 4 operations a stream |
| `session_live` | `MCSessionLive.cfg` | `CallReturns`, `DropEnds`, `ReclaimedIfUsed`, events by device | a stream on each of 2 devices, 2 contexts, 3 events, 1 set of storages |
| `session_panic` | `MCSessionPanic.cfg` | finds `LaunchFailureReturns` violated | as `session_safety` |
| `shapes_memory` | `MCContextShapes.cfg` | `ExecutedAsAsked`, `PlannedAsAsked` when only the first input can be refused | 3 contexts, 3 inputs, 2 shapes |
| `shapes_refused` | `MCContextShapesRefused.cfg` | finds `ExecutedAsAsked` violated when the second input can be refused | the same |
| `prepared_guard` | `MCPreparedRun.cfg` | `ExecutesAsAsked`, `ContextIdleWhenFree`, `RunReturns` with every failure, for a caller that changes streams only when nothing is pending | 2 streams, 3 bindings of which 2 staged, 2 values |
| `prepared_failed` | `MCPreparedFailed.cfg` | finds `IdleWhenFree` violated | the same, any caller |
| `sink_pool` | `MCSinkRun.cfg` | `ReturnedRetained`, `EventsReusable`, `EventCovers` | 2 threads with a stream each, 2 events, 1 output, 2 batches of 1 response |
| `sink_delivery` | `MCSinkDelivery.cfg` | `DeliveredLast`, `AllWritten`, `RunReturns` | 1 thread, 2 outputs, 2 batches of up to 2 responses, another stream |
| `sink_sources` | `MCSinkSources.cfg` | finds `SourcesAlive` violated | 1 thread, 1 output |
| `executor_setup` | `MCExecutorSetup.cfg` | `ReadAsAsked`, `AcceptedIsReadable`, `VirtualTokensHaveRows`, `BuffersOwned`, `ReadsNeverPanic`, `OnlyNamedTensorsLeak`, `DeliveredWhole`, `ConfiguredAsAsked`, refinement `KeepsPromise` | 2 threads, 2 buffers, 19 calls, up to 7 answers to each, 14 setups, 1 tensor read of a response |
| `session_staged` | `MCStagedRun.cfg` | `WorkOwned`, `ReturnsComputed`, `BoundCovers`, `ReleasedInOrder` | 2 calls at a time (one may be a guard), 2 contexts, 3 buffers, 2 streams, 8 requests of all kinds, one that names an input twice, refusals of the first and second input, `usize` of 4 bits |

Bounds that are not in the code: `MaxQueued` (operations on a stream when a call
begins: enough for two runs of one stream to be pending while a third starts),
`MaxBatches` (batches before a request must end) and `MaxBatch` (responses in
one). `InitialBackoff`, `MaxBackoff` and `MaxCacheEntries` are constants of the
code with small values: a cache of one evicts on every second capture, and a
back-off of 1 to 2 reaches both the doubling and the limit. Contexts and events
are identities: their number bounds how many are alive at once, and a call that
would need another is simply not taken. Three contexts allow one in the pool,
one in flight and one in a call or a graph; two threads and two events make an
event pass from one thread to the other. `MaxReads` (tensors read of one response) is
enough for one to be read while the next is not; `MaxAddress` bounds device memory.
`MaxSize` is `usize::MAX`: a request of `MCStagedRun` has exactly the bytes to which its
product wraps. The calls, answers and setups of `MCExecutorSetup` use every field of a
request and of a configuration at least once, each empty list that is accepted, and
each way to be refused or to make the shim throw. None of the theorems has a bound.

`CHECK_DEADLOCK FALSE` is set in the runs of `SessionRun` and `PreparedRun`
only: a session that was dropped stops.

**Fairness.** `SessionRun`: the GPU completes what it was given (`WF` of
`GpuStep(s)`), a call that began runs on (`WF` of `CallStep`) and so does a drop
(`WF` of `DropStep`). `PreparedRun`: `WF` of `GpuStep(s)` and of
what the host does inside a call (`HostStep`), never of a guard the caller keeps.
`SinkRun`: `WF` of `GpuStep(s)` and of each run's own steps
(`RunStep(r)`), which includes that the backend answers. These are the progress
of a thread that the operating system schedules and of a device that is not
lost. No caller is assumed to do anything, and no failure to happen:
`ReclaimedIfUsed` therefore has its own premise, a caller that keeps taking
contexts, because nothing reclaims in the background.

## Findings

1. `session.rs:449` (`session_panic`): when the launch of a cached graph fails,
   the cache is borrowed by the scrutinee of the `if let` while the eviction
   borrows it mutably: `run` panics and the graph stays cached.
2. `session.rs:1735` (`shapes_refused`): a refused shape leaves the earlier
   inputs set in TensorRT while the context still remembers the previous
   request; the next run with that request skips setting shapes and executes
   with the mixture.
3. `tensorrt_llm_executor.cpp:1780` (`sink_sources`): responses that are not
   final are copied asynchronously and destroyed with their copies pending.
4. `prepared.rs:265` (`prepared_failed`): a call that fails after its first
   staging copy returns without a guard and without waiting. The copy still reads
   the caller's bytes and writes a buffer the next call shares: on another stream
   that call may execute with the bytes of the failed one.

## Proofs

The proof modules prove the safety
properties for all values of the constants that satisfy the named assumptions
(`DeviceAssumption`, `BindingAssumption`, `BoundAssumption`, `InputAssumption`,
`PreparedAssumption`, `SinkAssumption`, `RequestAssumption`, `CallsAssumption`,
`AnswersAssumption`, `SetupsAssumption`, `SetupAssumption`,
`StagedAssumption`, `EngineAssumption`), which TLC evaluates in every run. Conditions that
the code does not enforce (`RefusedFirst`, `OutputsOnce`, `Orderly`) are not assumptions
but hypotheses of the theorems that need them.

* **SessionRun.** The properties speak of pending work, but no list of the
  session mentions the streams, so none is inductive. `IInv` adds the missing
  link: `CallShape` (what a call owns at each `pc`), `Accounted` (an operation
  that waits is a record, or is tracked: an in-flight entry has its context and
  tensors and a record of the entry's event waits *behind it on the same
  stream*, or it belongs to the call in progress), `RecordsOwned` (a waiting
  record is the only one of its event, which is in flight). When an event is
  complete no record of it waits, so nothing it tracked waits: reclaiming is
  sound. `OneStreamPerContext` and `EvictionIdle` follow because a context's
  tracked work is on its entry's, or its graph's, stream.
* **ContextShapes.** `MemoryAccurate` (what a live context remembers is what
  TensorRT holds) is inductive exactly if a refused call has applied nothing:
  `RefusedFirst`, which the theorems assume and finding 2 shows to be necessary. The
  plans follow: what is cached was inferred from accurate memory (`PlansAsAsked`).
* **PreparedRun.** `IInv` says that the inference is the last operation of its
  call's stream and that what precedes it there `Settles` every staging buffer on
  the call's bytes: the last copy to it brings them. That needs the copies of all
  calls to be on one stream, which is where `Orderly` enters: no failure, or a
  caller that changes streams only when nothing is pending. `ContextNeverShared`
  needs neither; `IdleWithoutFailures` shows that only a failure makes finding 4
  possible.
* **SinkRun.** `IInv` is `TypeOK`, one holder per event, and `Tracked`: a pending
  record belongs to a response nobody knows complete; a pending copy of the
  returned batch has its source, is on its run's stream, and either its run has
  yet to record or is draining, or the record waits behind it. `Release` then
  needs only that no such copy is left (`Clear`), which each exit establishes in
  its own way: nothing copied yet, drained, or event complete.

* **SinkRun, delivery.** `DeliveryInv` says what each sink tensor will hold once the
  copies pending on its run's stream are over: `LeftWith` looks at the last operation of
  the queue that writes the tensor, or at the tensor itself if none does; `Followed` ties
  the copies of a returned response to the record of its event. `synchronize` leaves
  nothing of the run pending (`Settled`), which gives `LastResponseDelivered` and
  `EveryTensorWritten`.
* **RequestWire.** What a request goes through on its way to the shim, in `WireProofs`.
  Lists of words, hashes and choices travel as one list of tokens and one of offsets;
  `PartBetweenEnds` says that in what `FlattenSeq` joins, each part stands between the
  lengths of what was joined before it and with it, which is what the offsets are
  (`WordsReadBack`). Tensors need `EmptyTensor`: a valid tensor has no bytes exactly if it
  has no elements. `RequestReadBack` and `RequestIsReadable` put the fields together:
  an accepted request is read as meant and refused by none of the shim's own checks.
  Lists are joined and dimensions multiplied by folds: no induction theorem of the
  library can be used, so the steps of a fold are given by a function on prefixes
  (`Joining`, `Multiplied`, `Inferring`), its existence and its values are proved of the
  least number for which they would fail (`LeastElement`, `SetInduction`).
* **ExecutorSetup.** `IInv` of `ExecutorProofs`: buffers are owned once, free buffers are
  empty (`FreeAreEmpty`), and buffers under way hold what `Filled` makes of the request of
  their thread from *empty* buffers (`HoldsItsRequest`). So what the shim reads is a
  function of the request alone, for any number of threads, calls and recycled buffers,
  and `RequestReadBack` says that it is the request: `EveryRequestSurvives`. `SinkInv`
  adds the sink of each call in progress, laid out in a scratch that was cleared, and why
  the shim threw; with `RequestIsReadable` and `SinkReadBack` that gives
  `AcceptedRequestsReadable`. `CallsPrepareRequests` shows that `ExecutorSetup` implements
  `RequestRun`, whose invariants it inherits. `AliasCheckExact` is about the operator
  alone: the check of half-open ranges refuses exactly the outputs that share a byte.
  `CallsAssumption` says that calls have the types of `request.rs`, nothing else: what is
  refused, and what is not, is the code's.

* **ExecutorCalls.** `OutputInv` says of a response under way, or in a caller's hands, that
  it is of the one accepted call of its thread and of one answer to it (`AnswerOf`), that
  its memory is `HeapOf` that answer and what was read of a tensor is what its block held
  (`OpenedOf`), and that nothing but tensors of additional outputs outlives a throw
  (`Leaked`). `ReadingNeverPanics` then is a fact about layouts: what a lazy tensor claims
  of bytes and shape is what `from_lazy` computes (`LazyBytes`, `ValidIsExpected`).
  `CallsKeepPromise` is the refinement: `ResponsePresents` shows that the lazy tensors over
  the heap, read now or cached, are exactly the outputs that the answer has and the sink
  did not take, with their offsets, and `PromiseKept` goes through the steps of a call.
  `SinksDelivered` follows the writes to a sink's tensors in order (`Writing`): of the
  results of an answer the last one that has an output writes it last (`LastWins`), and no
  other output ends in the same tensor (`OutputsApart`). That holds because of how the
  backend names additional outputs, after outputs of the engine with a prefix of
  `context_` or `generation_`; an engine output that itself has such a prefix could share
  a tensor with another. `BackendNames` says so, the theorem has it as its hypothesis, and
  `MCExecutorSetup` assumes it of its answers.
* **BuilderWire.** `ConfiguredAsMeant`: a configuration travels as parts (values, flags,
  options, lists) and a few sections of its own, and `ConfigReadBack` shows of each that it
  is read as it was meant. Choices are laid out like words, but no pointer is null and
  nobody checked them: `ChoicesReadBack` says that they come back whatever they are, and
  that only one without tokens can be refused, from which `ConfigRefused` has why the
  constructor throws. `EagleEnabled` goes through the setters in order: the section of
  eagle travels exactly if one of them was called. `KvCacheReadBack` has that a default of
  the runtime never replaces what the caller set. `SetupsAssumption` says that setups have
  the types of `builder.rs` and that eagle is enabled by the setters of the setup alone.
* **StagedRun.** Every early return frees the call's buffers and gives up its context,
  so `WorkOwned` needs to know when work can be left. `IInv` has, for a call under way,
  what it holds at each step (`CallTyped`); every context in one place, pool, call or
  guard (`Placed`); the engine's handles counted as contexts plus the Session
  (`Counted`, from which `EngineOutlives` follows); addresses of a held context null,
  of the call's buffers, or of its caller's memory, which is why the addresses of the last
  call are cleared (`Addressed`); every work on the stream of who waits for it
  (`WorkPlaced`); and that a call without buffers has nothing queued outside the steps that
  wait (`Quiet`: with buffers, freeing them waits for the device). These proofs use no
  assumption about the engine, the requests or what fails.
* **StagedRun, bindings.** `BInv` follows a call's bindings to the device: those bound so
  far were checked (`Sized`) and are at a buffer of their bytes or at the caller's memory
  (`PlacedAt`), no buffer serves two (`Apart`), the context has the shapes of the call
  from the moment they are set (`CallShapes`; a context remembers only what it was set to,
  `ShapesRemembered`, or a cached shape would stand for another), each address is that of
  the binding of its name (`CallAddressed`), and so is that of queued work (`CallWork`).
  What is left is arithmetic: `TensorByteLen` checks every product against `usize::MAX`
  and the engine does not, so `AddressesCover` compares two folds over the dims, step by
  step (`CountsExist`, `BytesAreFold`): as long as no product overflows they are the same
  number. `EngineAssumption` says that an engine has finitely many tensors and infers dims
  for the shapes its inputs may have, `StagedAssumption` that bindings have the types of
  `tensor.rs`. Names may be given twice: `Agrees` compares a context's shapes with the last
  binding of each name (`IsLast`). Only what depends on that comparison is under
  `RefusedFirst`, which `ShapesAreRefused` needs: a refused call has then set nothing that
  the context does not remember.
* **StagedRun, data.** `OutputsComputed` is about interleavings: a call returns while
  work of guards is pending, buffers and contexts are used again, and a stream may be
  shared. `DInv` says what the device has done at each step: an input of the call is in
  its buffer or its copy waits (`Loaded`); after the launch the inference waits or the
  outputs are computed (`Computing`); outputs queued for the caller are copied or about to
  be (`CopiedBack`). Each needs the order of a stream (`Ordered`: of one call, copies in,
  then the inference, then copies out, so that when the inference is at the head no input
  is still to come), and that what others do leaves the buffers alone, which is `Apart`
  and `Placed`. A guard's inference is on memory of the caller alone (`Guarded`), so its
  result survives all that the Session does meanwhile. The property is about bytes and where
  they are; in which shapes the engine reads them is `ExecutedAsAsked`, so no hypothesis
  about refusals is needed here;
  `OutputsOnce` makes each output's address that of the memory given for it. `Synchronize` finds the stream
  empty: then all outputs are computed, and a call concludes (`Concluded`).

Only model-checked: liveness (`CallReturns`, `DropEnds`, `ReclaimedIfUsed`,
`RunReturns` of both modules that have it), which the prover cannot reach.

## Not modelled

* Raw bindings, build scripts, error and string conversions: no state.
* The switch of devices while an event is created, and the inside of a graph capture
  (`cuda.rs` 147-297): calls to CUDA in a fixed order with no state of the crate between
  them. What the session does when they fail is in `SessionRun`.
* Candle's storages and layouts, copies that Candle makes of tensors that are not
  contiguous, conversions between f32 and bf16: numbers.
* `config.rs`'s parsing of `config.json`, and setters that only replace a field.
* Deserialization and inspection of engines, the logger: a session opens with a fixed
  description of its engine.
* Whatever TensorRT, TensorRT-LLM and CUDA do inside.
* `mem::forget` of a guard.
* Growth of `run_plan_cache` and `cuda_graph_backoff`, which nothing trims: the code
  promises no limit to check against.
* Copies that a failed LLM run left on one stream while its caller goes on with the same
  tensors on another: each caller keeps to one stream (`StreamOf`).

What could be added: the inside of a graph capture with the errors of each of its calls.
