------------------------------ MODULE StagedRun ------------------------------
(***************************************************************************)
(* The runs of a Session that copy through temporary device buffers or     *)
(* return a guard: run_allocating, run_host, run_to_device,                *)
(* run_mixed_to_device, run_device and enqueue_device                      *)
(* (src/tensorrt/src/session.rs), with the device buffers, the contexts    *)
(* and the engine that they hold (cuda.rs, engine.rs).                     *)
(*                                                                         *)
(* A Session belongs to one host thread (it is not Sync), so calls do not  *)
(* overlap each other; they overlap the work they leave on the streams,    *)
(* which the device does in its own time, in the order of each stream.     *)
(***************************************************************************)
EXTENDS TensorBindings, FiniteSets

CONSTANTS
    Ids,          \* calls under way or whose guard is held
    Contexts,     \* execution contexts of TensorRT
    Buffers,      \* addresses that cudaMalloc returns
    Streams,
    Engine,       \* the engine's tensors: name -> [mode, dims, dtype]
    Inferred(_),  \* shape inference: dims of the inputs -> dims of the outputs
    Requests,     \* the calls that are made: [kind, inputs, outputs]
    MayRefuse,    \* positions of the inputs whose shape TensorRT may refuse
    MaxSize       \* usize::MAX

(* The io_tensors of the Session.                                           *)
Tensors == [n \in DOMAIN Engine |-> IoTensor(Engine[n])]
Named(mode) == {n \in DOMAIN Tensors : Tensors[n].mode = mode}
Distinct(bindings) == \A i, j \in DOMAIN bindings :
                          bindings[i].name = bindings[j].name => i = j

(***************************************************************************)
(* Two conditions on the calls, which the code does not check and some     *)
(* properties need: they are hypotheses where they are used.  A call may   *)
(* name a tensor twice, the last binding counts; and a shape may be        *)
(* refused after those of earlier inputs were set (see ContextShapes).     *)
(***************************************************************************)
OutputsOnce == \A r \in Requests : Distinct(r.outputs)

RefusedFirst ==
    /\ MayRefuse \subseteq {1}
    /\ \A r \in Requests : \A i \in 2 .. Len(r.inputs) : Fits(Tensors, r.inputs[i], "input")

(***************************************************************************)
(* The types of calls: shapes are lists of numbers, memory of the device   *)
(* has a data type, and where results are not copied out the outputs are   *)
(* memory of the device (DeviceTensor, DeviceTensorMut).                   *)
(***************************************************************************)
IsBinding(b) ==
    /\ b.dims \in Seq(Int)
    /\ b.at = "device" => b.dtypes # {}

ASSUME StagedAssumption ==
    \A r \in Requests :
        /\ r.inputs \in Seq(ToSet(r.inputs)) /\ r.outputs \in Seq(ToSet(r.outputs))
        /\ \A b \in ToSet(r.inputs) : IsBinding(b)
        /\ r.kind \notin {"host", "allocating"} =>
               \A b \in ToSet(r.outputs) : IsBinding(b) /\ b.at = "device"

(* The dims that an input may have in a context: the engine's own, or those *)
(* that a call asks for.  Of these the engine infers shapes.                *)
DimsOf(n) == {Tensors[n].dims} \cup
             {b.dims : b \in {c \in UNION {ToSet(r.inputs) : r \in Requests} : c.name = n}}

ASSUME EngineAssumption ==
    /\ IsFiniteSet(DOMAIN Engine)
    /\ \A n \in DOMAIN Engine : Engine[n].dims \in Seq(Int) /\ Engine[n].dtype \in Int
    /\ \A dims \in [Named("input") -> UNION {DimsOf(n) : n \in Named("input")}] :
          (\A n \in Named("input") : dims[n] \in DimsOf(n)) =>
              \A n \in Named("output") :
                  n \in DOMAIN Inferred(dims) /\ Inferred(dims)[n] \in Seq(Int)

VARIABLES
    session,  \* whether the Session exists
    refs,     \* strong references to the engine (Rc); it is destroyed at zero
    exists,   \* the contexts that exist
    pool,     \* context_pool
    address,  \* of each context, the address bound to each tensor
    shapes,   \* of each context, the dims of its inputs, and input_shapes
    call,     \* the call under way, if any
    guards,   \* the EnqueuedInference values that the caller holds
    size,     \* of each live buffer, its bytes
    memory,   \* what each live buffer holds
    queue,    \* work of each stream
    broken,   \* whether CUDA reported an error of the device's work
    results   \* of each call, what it returned and what its outputs hold: by
              \* name, for a name given twice the memory that was given last

resources == <<session, refs, exists, pool>>
bound == <<address, shapes>>
device == <<size, memory, queue, broken>>
vars == <<resources, bound, call, guards, device, results>>

NoCall == [step |-> "idle"]
NullAddress == [of |-> "null"]
Temporary(b) == [of |-> "buffer", buffer |-> b]
Junk == [of |-> "junk"]
InputOf(id, name) == [of |-> "input", id |-> id, name |-> name]
OutputOf(id, name) == [of |-> "output", id |-> id, name |-> name]

(* Memory that the caller lends to a call.                                  *)
CallerMemory(id, binding) ==
    [of |-> "caller", id |-> id, name |-> binding.name, bytes |-> binding.bytes]

Unbound == [n \in DOMAIN Tensors |-> NullAddress]
NoShapes == [dims |-> [n \in Named("input") |-> Tensors[n].dims], cached |-> <<>>]

(* A map with the entries of another for the keys that it lacks.            *)
Over(f, g) == [k \in DOMAIN f \cup DOMAIN g |-> IF k \in DOMAIN f THEN f[k] ELSE g[k]]

(* IExecutionContext::getTensorShape                                        *)
ContextDims(c) == Over(shapes[c].dims, Inferred(shapes[c].dims))

Pooled(kind) == kind \in {"host", "allocating", "to_device", "mixed"}
CopiesOut(kind) == kind \in {"host", "allocating"}

Init ==
    /\ session = TRUE /\ refs = 1 /\ exists = {} /\ pool = <<>>
    /\ address = [c \in Contexts |-> Unbound]
    /\ shapes = [c \in Contexts |-> NoShapes]
    /\ call = NoCall /\ guards = {}
    /\ size = <<>> /\ memory = <<>>
    /\ queue = [s \in Streams |-> <<>>] /\ broken = FALSE
    /\ results = [i \in Ids |-> [status |-> "none", holds |-> <<>>]]

-----------------------------------------------------------------------------
(* Steps of a call.                                                         *)

At(step) == call.step = step
Goto(step) == call' = [call EXCEPT !.step = step]

(* An early return with an error: what the call holds is released.          *)
Fail == call' = [call EXCEPT !.step = "return", !.ok = FALSE]

Begin ==
    /\ call = NoCall /\ session
    /\ \E id \in Ids, r \in Requests, s \in Streams :
         /\ \A g \in guards : g.id # id
         /\ call' = [step |-> IF r.kind = "allocating" THEN "infer" ELSE "context",
                     id |-> id, kind |-> r.kind, stream |-> s, inputs |-> r.inputs,
                     outputs |-> r.outputs, context |-> {}, temps |-> {},
                     bound |-> <<>>, targets |-> <<>>, copied |-> 0, ok |-> TRUE]
         /\ results' = [results EXCEPT ![id] =
                [status |-> "none", holds |-> [n \in {o.name : o \in ToSet(r.outputs)} |-> Junk]]]
    /\ UNCHANGED <<resources, bound, guards, device>>

(* clear_tensor_addresses, of a context that was used before.               *)
(* Mutant of Cleared: the addresses of the last call stay bound.            *)
ClearedKept(c) == address[c]
Cleared(c) == [n \in DOMAIN address[c] |-> NullAddress]

(* Mutant of EngineClone: a context does not hold the engine.               *)
EngineBorrow(n) == n
(* create_execution_context clones the handle of the engine.               *)
EngineClone(n) == n + 1
EngineRelease(n) == n - 1

(* pooled_execution_context, for the call to go on at step next.            *)
Reuse(next) ==
    /\ pool # <<>>
    /\ LET c == Last(pool) IN
         /\ pool' = Front(pool)
         /\ address' = [address EXCEPT ![c] = Cleared(c)]
         /\ call' = [call EXCEPT !.step = next, !.context = {c}]
    /\ UNCHANGED <<session, refs, exists, shapes>>

(* TensorRT refuses a null address: the context is not pooled again.        *)
ReuseFails ==
    /\ pool # <<>>
    /\ pool' = Front(pool)
    /\ exists' = exists \ {Last(pool)}
    /\ refs' = EngineRelease(refs)
    /\ Fail
    /\ UNCHANGED <<session, bound>>

Create(next) ==
    /\ Pooled(call.kind) => pool = <<>>
    /\ \E c \in Contexts \ exists :
         /\ exists' = exists \cup {c}
         /\ address' = [address EXCEPT ![c] = Unbound]
         /\ shapes' = [shapes EXCEPT ![c] = NoShapes]
         /\ call' = [call EXCEPT !.step = next, !.context = {c}]
    /\ refs' = EngineClone(refs)
    /\ UNCHANGED <<session, pool>>

CreateFails ==
    /\ Pooled(call.kind) => pool = <<>>
    /\ Fail
    /\ UNCHANGED <<resources, bound>>

Acquire(next) ==
    /\ \/ Pooled(call.kind) /\ (Reuse(next) \/ ReuseFails)
       \/ Create(next) \/ CreateFails
    /\ UNCHANGED <<guards, device, results>>

GetContext == At("context") /\ Acquire("shapes")
InferContext == At("infer") /\ Acquire("infer_shapes")

Held == CHOOSE c \in call.context : TRUE

(* set_input_shapes_if_needed: nothing is done for the shapes set last.     *)
Asked == [i \in DOMAIN call.inputs |->
              [name |-> call.inputs[i].name, dims |-> call.inputs[i].dims]]

ShapesKnown == shapes[Held].cached = Asked

(* The last of the first k bindings that is of tensor n.                    *)
LastOf(bindings, k, n) == Max({i \in 1 .. k : bindings[i].name = n})

(* The context's dims with those of the call's first k inputs set.          *)
DimsUpTo(k) ==
    [n \in DOMAIN shapes[Held].dims |->
        IF \E i \in 1 .. k : call.inputs[i].name = n
        THEN call.inputs[LastOf(call.inputs, k, n)].dims
        ELSE shapes[Held].dims[n]]

ShapesSet ==
    \/ ShapesKnown /\ UNCHANGED shapes
    \/ /\ ~ShapesKnown
       /\ \A i \in DOMAIN call.inputs : Fits(Tensors, call.inputs[i], "input")
       /\ shapes' = [shapes EXCEPT ![Held] = [dims |-> DimsUpTo(Len(call.inputs)),
                                              cached |-> Asked]]

(* An input is refused, by validation or by TensorRT: the shapes before it  *)
(* stay set, and the context remembers what it did.                         *)
ShapesRefused ==
    /\ ~ShapesKnown
    /\ \E k \in DOMAIN call.inputs :
         /\ \A i \in 1 .. k - 1 : Fits(Tensors, call.inputs[i], "input")
         /\ k \in MayRefuse \/ ~Fits(Tensors, call.inputs[k], "input")
         /\ shapes' = [shapes EXCEPT ![Held].dims = DimsUpTo(k - 1)]

SetShapes ==
    /\ At("shapes")
    /\ \/ ShapesSet /\ Goto("inputs")
       \/ ShapesRefused /\ Fail
    /\ UNCHANGED <<resources, address, guards, device, results>>

(***************************************************************************)
(* run_allocating: infer_shapes and select_outputs, then host memory of    *)
(* their sizes, in the order asked for; no name selects every output.  The *)
(* context is pooled again before run_host takes one.                      *)
(***************************************************************************)
Selected == IF call.outputs = <<>> THEN SetToSeq(Named("output"))
            ELSE [i \in DOMAIN call.outputs |-> call.outputs[i].name]

AllocatedOutput(name, dims) ==
    HostOutput(name, dims,
               CHOOSE n \in TensorByteLen(dims, Tensors[name].dtype, MaxSize) : TRUE)

OutputsInferred ==
    LET dims == Inferred(shapes'[Held].dims) IN
      /\ ToSet(Selected) \subseteq Named("output")
      /\ \A n \in ToSet(Selected) : TensorByteLen(dims[n], Tensors[n].dtype, MaxSize) # {}
      /\ call' = [call EXCEPT !.step = "context", !.context = {},
                              !.outputs = [i \in DOMAIN Selected |->
                                  AllocatedOutput(Selected[i], dims[Selected[i]])]]
      /\ results' = [results EXCEPT ![call.id].holds = [n \in ToSet(Selected) |-> Junk]]

InferShapes ==
    /\ At("infer_shapes")
    /\ \/ ShapesSet /\ OutputsInferred
       \/ /\ ShapesRefused \/ ShapesSet
          /\ call' = [call EXCEPT !.step = "return", !.ok = FALSE, !.context = {}]
          /\ UNCHANGED results
    /\ pool' = Append(pool, Held)
    /\ UNCHANGED <<session, refs, exists, address, guards, device>>

-----------------------------------------------------------------------------
(* Temporary buffers and work.                                              *)

With(f, key, value) == [k \in DOMAIN f \cup {key} |-> IF k = key THEN value ELSE f[k]]
Without(f, keys) == [k \in DOMAIN f \ keys |-> f[k]]

(* DeviceBuffer::new: cudaMalloc, never of zero bytes.                      *)
Allocates(b, bytes) ==
    /\ bytes > 0 /\ ~broken
    /\ size' = With(size, b, bytes) /\ memory' = With(memory, b, Junk)
    /\ UNCHANGED broken

Enqueues(stream, work) ==
    ~broken /\ queue' = [queue EXCEPT ![stream] = Append(@, work)]

InputValid(input) ==
    /\ Fits(Tensors, input, "input") /\ TypeValid(Tensors, input)
    /\ IF input.at = "device" THEN DeviceBytesValid(input, MaxSize)
       ELSE HostBytesValid(Tensors, input, MaxSize)

(***************************************************************************)
(* stage_input_bindings, stage_mixed_input_bindings, one input at a time.  *)
(* enqueue_device_on_context checks its inputs in the same way, and binds  *)
(* each at once: on its context no one else can see the difference.        *)
(***************************************************************************)
StageInput ==
    /\ At("inputs") /\ Len(call.bound) < Len(call.inputs)
    /\ LET input == call.inputs[Len(call.bound) + 1]
           Bind(a, temps) == call' = [call EXCEPT !.bound = Append(@, a),
                                                  !.temps = @ \cup temps] IN
         \/ /\ InputValid(input)
            /\ IF input.at = "staged"
               THEN \E b \in Buffers \ DOMAIN size :
                      /\ Allocates(b, input.bytes)
                      /\ Enqueues(call.stream, [op |-> "copy_in", id |-> call.id,
                                                name |-> input.name, buffer |-> b])
                      /\ Bind(Temporary(b), {b})
               ELSE Bind(CallerMemory(call.id, input), {}) /\ UNCHANGED device
         \/ Fail /\ UNCHANGED device
    /\ UNCHANGED <<resources, bound, guards, results>>

(* The context's addresses with the first k bindings of a sequence set.     *)
Binding(bindings, targets, k) ==
    [n \in DOMAIN Tensors |->
        IF \E i \in 1 .. k : bindings[i].name = n
        THEN targets[LastOf(bindings, k, n)]
        ELSE address[Held][n]]

(* TensorRT may refuse an address.                                          *)
BindAll(bindings, targets, next) ==
    \E k \in 0 .. Len(bindings) :
        /\ address' = [address EXCEPT ![Held] = Binding(bindings, targets, k)]
        /\ \/ k = Len(bindings) /\ Goto(next)
           \/ Fail

BindInputs ==
    /\ At("inputs") /\ Len(call.bound) = Len(call.inputs)
    /\ BindAll(call.inputs, call.bound, "outputs")
    /\ UNCHANGED <<resources, shapes, guards, device, results>>

OutputValid(output) ==
    /\ Fits(Tensors, output, "output") /\ TypeValid(Tensors, output)
    /\ ContextDims(Held)[output.name] = output.dims
    /\ IF CopiesOut(call.kind) THEN HostBytesValid(Tensors, output, MaxSize)
       ELSE DeviceBytesValid(output, MaxSize)

(* Outputs in host memory get a buffer; those of the device are bound.      *)
PrepareOutput ==
    /\ At("outputs") /\ Len(call.targets) < Len(call.outputs)
    /\ LET output == call.outputs[Len(call.targets) + 1]
           Target(a, temps) == call' = [call EXCEPT !.targets = Append(@, a),
                                                    !.temps = @ \cup temps] IN
         \/ /\ OutputValid(output)
            /\ IF CopiesOut(call.kind)
               THEN \E b \in Buffers \ DOMAIN size :
                      /\ Allocates(b, output.bytes)
                      /\ Target(Temporary(b), {b})
                      /\ UNCHANGED <<queue, address>>
               ELSE LET a == CallerMemory(call.id, output) IN
                      /\ Target(a, {})
                      /\ address' = [address EXCEPT ![Held][output.name] = a]
                      /\ UNCHANGED device
         \/ Fail /\ UNCHANGED <<device, address>>
    /\ UNCHANGED <<resources, shapes, guards, results>>

BindOutputs ==
    /\ At("outputs") /\ Len(call.targets) = Len(call.outputs)
    /\ BindAll(call.outputs, call.targets, "enqueue")
    /\ UNCHANGED <<resources, shapes, guards, device, results>>

(* enqueue_v3 is refused while an address is null or a dimension unknown.   *)
Ready == \A n \in DOMAIN Tensors :
            /\ address[Held][n] # NullAddress
            /\ \A i \in DOMAIN ContextDims(Held)[n] : ContextDims(Held)[n][i] >= 0

AfterEnqueue == IF CopiesOut(call.kind) THEN "copy_out"
                ELSE IF call.kind = "enqueue" THEN "return" ELSE "synchronize"

Enqueue ==
    /\ At("enqueue")
    /\ \/ /\ Ready
          /\ Enqueues(call.stream, [op |-> "infer", id |-> call.id, context |-> Held,
                                    address |-> address[Held], dims |-> ContextDims(Held)])
          /\ Goto(AfterEnqueue)
       \/ Fail /\ UNCHANGED queue
    /\ UNCHANGED <<resources, bound, guards, size, memory, broken, results>>

CopyOut ==
    /\ At("copy_out")
    /\ \/ /\ call.copied < Len(call.outputs)
          /\ LET i == call.copied + 1 IN
               Enqueues(call.stream, [op |-> "copy_out", id |-> call.id,
                                      name |-> call.outputs[i].name,
                                      buffer |-> call.targets[i].buffer])
          /\ call' = [call EXCEPT !.copied = @ + 1]
       \/ call.copied < Len(call.outputs) /\ Fail /\ UNCHANGED queue
       \/ call.copied = Len(call.outputs) /\ Goto("synchronize") /\ UNCHANGED queue
    /\ UNCHANGED <<resources, bound, guards, size, memory, broken, results>>

-----------------------------------------------------------------------------
(* Completion.                                                              *)

(* Mutant of Synchronized: the call returns while its work is queued.       *)
SynchronizedLater(s) == TRUE
(* cudaStreamSynchronize                                                    *)
Synchronized(s) == queue[s] = <<>> /\ ~broken

(* After an error of its work the device does nothing more, and every later *)
(* call of CUDA reports the error.                                          *)
Abandoned == broken' = TRUE /\ queue' = [s \in Streams |-> <<>>]

Synchronize ==
    /\ At("synchronize")
    /\ \/ Synchronized(call.stream) /\ Goto("return") /\ UNCHANGED <<queue, broken>>
       \/ Abandoned /\ Fail
    /\ UNCHANGED <<resources, bound, guards, size, memory, results>>

(* cudaFree waits for the device before it frees.                           *)
Freed(buffers) ==
    /\ buffers # {} => \A s \in Streams : queue[s] = <<>>
    /\ size' = Without(size, buffers) /\ memory' = Without(memory, buffers)

(* ExecutionContext and its handle of the engine are dropped.               *)
Destroy(contexts) ==
    /\ exists' = exists \ contexts
    /\ refs' = IF contexts = {} THEN refs ELSE EngineRelease(refs)

(* The call's buffers are dropped, then its context.                        *)
Return ==
    /\ At("return")
    /\ Freed(call.temps)
    /\ LET inFlight == call.kind = "enqueue" /\ call.ok IN
         /\ guards' = IF inFlight THEN guards \cup {[id |-> call.id, stream |-> call.stream,
                                                     context |-> Held]}
                      ELSE guards
         /\ IF Pooled(call.kind)
            THEN /\ pool' = pool \o SetToSeq(call.context)
                 /\ UNCHANGED <<exists, refs>>
            ELSE /\ Destroy(IF inFlight THEN {} ELSE call.context)
                 /\ UNCHANGED pool
         /\ results' = [results EXCEPT ![call.id].status =
                IF inFlight THEN "none" ELSE IF call.ok THEN "ok" ELSE "error"]
    /\ call' = NoCall
    /\ UNCHANGED <<session, bound, queue, broken>>

(* EnqueuedInference::synchronize; a drop waits as well.                    *)
EndGuard ==
    /\ call = NoCall
    /\ \E g \in guards, ok \in BOOLEAN :
         /\ IF ok THEN Synchronized(g.stream) /\ UNCHANGED <<queue, broken>>
            ELSE Abandoned
         /\ guards' = guards \ {g}
         /\ Destroy({g.context})
         /\ results' = [results EXCEPT ![g.id].status = IF ok THEN "ok" ELSE "error"]
    /\ UNCHANGED <<session, pool, bound, call, size, memory>>

(* Its pool, its handle of the engine and the runtime; guards may be left.  *)
DropSession ==
    /\ call = NoCall /\ session
    /\ session' = FALSE
    /\ pool' = <<>>
    /\ exists' = exists \ ToSet(pool)
    /\ refs' = EngineRelease(refs) - Len(pool)
    /\ UNCHANGED <<bound, call, guards, device, results>>

OpenSession ==
    /\ ~session /\ refs = 0
    /\ session' = TRUE /\ refs' = 1
    /\ UNCHANGED <<exists, pool, bound, call, guards, device, results>>

-----------------------------------------------------------------------------
(* The device does the next work of a stream.                               *)

Read(a) == IF a.of = "buffer" THEN IF a.buffer \in DOMAIN memory THEN memory[a.buffer] ELSE Junk
           ELSE InputOf(a.id, a.name)

Computed(work, name) ==
    IF \A n \in Named("input") : Read(work.address[n]) = InputOf(work.id, n)
    THEN OutputOf(work.id, name) ELSE Junk

(* The buffers, and the caller's memory, that an inference writes.          *)
Infers(work) ==
    LET BufferOf(n) == {b \in DOMAIN memory : work.address[n] = Temporary(b)}
        Lent(id, n) == /\ work.address[n].of = "caller"
                       /\ work.address[n].id = id IN
      /\ memory' = [b \in DOMAIN memory |->
            LET n == {m \in Named("output") : b \in BufferOf(m)} IN
              IF n = {} THEN memory[b] ELSE Computed(work, CHOOSE m \in n : TRUE)]
      /\ results' = [id \in Ids |-> [results[id] EXCEPT !.holds =
            [n \in DOMAIN @ |-> IF n \in Named("output") /\ Lent(id, n)
                                THEN Computed(work, n) ELSE @[n]]]]

Work(s) ==
    /\ queue[s] # <<>>
    /\ LET work == Head(queue[s]) IN
         CASE work.op = "copy_in" ->
                /\ memory' = [memory EXCEPT ![work.buffer] = InputOf(work.id, work.name)]
                /\ UNCHANGED results
           [] work.op = "infer" -> Infers(work)
           [] work.op = "copy_out" ->
                /\ results' = [results EXCEPT ![work.id].holds[work.name] =
                                   Read(Temporary(work.buffer))]
                /\ UNCHANGED memory
    /\ queue' = [queue EXCEPT ![s] = Tail(@)]
    /\ UNCHANGED <<resources, bound, call, guards, size, broken>>

Next ==
    \/ Begin \/ GetContext \/ InferContext \/ InferShapes \/ SetShapes
    \/ StageInput \/ BindInputs \/ PrepareOutput \/ BindOutputs
    \/ Enqueue \/ CopyOut \/ Synchronize \/ Return
    \/ EndGuard \/ DropSession \/ OpenSession
    \/ \E s \in Streams : Work(s)

Spec == Init /\ [][Next]_vars

-----------------------------------------------------------------------------
(***************************************************************************)
(* What the device is still to do stays possible: the context, the buffers *)
(* and the memory of the caller that it uses are those of a call under way *)
(* or of a guard.  Nothing is left of a call that returned, with or        *)
(* without an error, and a context is pooled only when its work is done.   *)
(***************************************************************************)
UsesOnly(work, contexts, temps) ==
    IF work.op = "infer"
    THEN /\ work.context \in contexts \cap exists
         /\ \A n \in DOMAIN Tensors :
              LET a == work.address[n] IN
                IF a.of = "buffer" THEN a.buffer \in temps \cap DOMAIN size
                ELSE a.of = "caller" /\ a.id = work.id
    ELSE work.buffer \in temps \cap DOMAIN size

WorkOwned ==
    \A s \in Streams : \A work \in ToSet(queue[s]) :
        \/ call # NoCall /\ call.id = work.id /\ UsesOnly(work, call.context, call.temps)
        \/ \E g \in guards : g.id = work.id /\ UsesOnly(work, {g.context}, {})

(***************************************************************************)
(* After a call or a guard reports success, each output holds what the     *)
(* engine computes from the bytes of that call's inputs, whatever the      *)
(* context and the buffers were used for before.  That these are read in   *)
(* the shapes asked for is ExecutedAsAsked of ContextShapes.               *)
(***************************************************************************)
ReturnsComputed ==
    \A id \in Ids : results[id].status = "ok" =>
        \A n \in DOMAIN results[id].holds : results[id].holds[n] = OutputOf(id, n)

(***************************************************************************)
(* The memory behind each address of an inference has the bytes that the   *)
(* engine accesses for the shapes of its context, although the sizes are   *)
(* computed by checked products of the call's shapes and the shapes may be *)
(* left from an earlier call.                                              *)
(***************************************************************************)
BytesBehind(a) == IF a.of = "buffer" THEN size[a.buffer] ELSE a.bytes

BoundCovers ==
    \A s \in Streams : \A work \in ToSet(queue[s]) :
        work.op = "infer" =>
            \A n \in DOMAIN Tensors :
                BytesBehind(work.address[n]) >= AccessedBytes(Engine[n], work.dims[n])

(***************************************************************************)
(* The engine outlives its contexts and their work, also when guards are   *)
(* kept after the Session is dropped.                                      *)
(***************************************************************************)
ReleasedInOrder ==
    refs = 0 => exists = {} /\ \A s \in Streams : queue[s] = <<>>
=============================================================================
