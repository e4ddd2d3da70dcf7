------------------------------ MODULE RequestRun ------------------------------
(***************************************************************************)
(* Threads that share an Executor of tensorrt_llm prepare requests, hand   *)
(* them to the shim and give the request buffers back                      *)
(* (src/tensorrt_llm/src/executor.rs: Executor::run, prepare_request,      *)
(* RequestBufferPool; request.rs: what a sink adds to a request).          *)
(*                                                                         *)
(* A call is a request and optionally a sink, a sequence of tensors [name, *)
(* code, dims, start] in device memory.  Buffers are boxed: an identity    *)
(* stands for an address.                                                  *)
(***************************************************************************)
EXTENDS RequestWire, SinkTensors, SinkScratch

CONSTANTS
    Threads,    (* threads that call Executor::run                          *)
    Buffers,    (* addresses request buffers can have                       *)
    Calls,      (* what the threads call run with                           *)
    Profile,    (* ValidationProfile of the engine                          *)
    MaxAddress  (* the largest address                                      *)

SinkTensor == [name : Seq(STRING), code : DOMAIN CodeBytes, dims : Seq(Nat), start : Nat]

(* The types of the arguments of run.                                       *)
CallTyped(call) ==
    /\ RequestTyped(call.request)
    /\ IsOption(call.sink)
    /\ \A tensors \in call.sink : tensors \in Seq(SinkTensor)

ASSUME CallsAssumption == \A call \in Calls : CallTyped(call)

ASSUME RequestAssumption ==
    /\ Cardinality(Buffers) >= Cardinality(Threads)
    /\ Profile.vocab_size \in Nat \ {0} /\ Profile.hidden_size \in Nat \ {0}
    /\ MaxAddress \in Nat

VARIABLES
    pc,         (* where each thread is in run                              *)
    asked,      (* its request, with what the sink adds                     *)
    sink,       (* its sink                                                 *)
    scratch,    (* what its sink is described by                            *)
    scratches,  (* OutputSinkScratchPool::scratch, a stack                  *)
    held,       (* the buffers it has checked out                           *)
    pool,       (* RequestBufferPool::buffers, a stack                      *)
    memory,     (* what the buffers at an address hold                      *)
    wire,       (* its sys::Request                                         *)
    read        (* what the shim read, or nothing: it threw                 *)

requestVars == <<pc, asked, sink, scratch, scratches, held, pool, memory, wire, read>>

scratchVars == <<scratch, scratches>>

RequestInit ==
    /\ pc = [t \in Threads |-> "idle"]
    /\ asked = [t \in Threads |-> {}]
    /\ sink = [t \in Threads |-> {}]
    /\ scratch = [t \in Threads |-> EmptyScratch]
    /\ scratches = <<>>
    /\ held = [t \in Threads |-> {}]
    /\ pool = <<>>
    /\ memory = [b \in Buffers |-> EmptyBuffers]
    /\ wire = [t \in Threads |-> {}]
    /\ read = [t \in Threads |-> {}]

-----------------------------------------------------------------------------
(* Request::infer_output_tensor_name: a sink tensor asks for its output.    *)
Inferred(r, name) ==
    CASE name = ContextLogits -> [r EXCEPT !.flags = @ \cup {"return_context_logits"}]
      [] name = GenerationLogits -> [r EXCEPT !.flags = @ \cup {"return_generation_logits"}]
      [] name = EncoderOutput -> [r EXCEPT !.flags = @ \cup {"return_encoder_output"}]
      [] OTHER -> [r EXCEPT !.outputs = IF Contains(@, name) THEN @ ELSE Append(@, name)]

(* run, of the names in the sink                                            *)
WithSink(call) ==
    IF call.sink = {} THEN call.request
    ELSE FoldLeft(Inferred, call.request, NamesOf(The(call.sink)))

SinkRange(tensor) == MemoryRange(tensor.start, SinkBytes(tensor))

(* OutputSinkParts::new: the tensors of a sink have names and memory of     *)
(* their own.                                                               *)
SinkLaidOut(tensors) ==
    /\ \A i \in DOMAIN tensors :
           /\ tensors[i].name # <<>>
           /\ RangeFits(tensors[i].start, SinkBytes(tensors[i]), MaxAddress)
    /\ OutputsDisjoint([i \in DOMAIN tensors |-> SinkRange(tensors[i])])

(* run gets as far as the request buffers.                                  *)
CallAccepted(call) ==
    /\ \A tensors \in call.sink : SinkLaidOut(tensors)
    /\ Accepted(WithSink(call), Profile)

(* OutputSinkScratchPool::checkout: the last scratch given back, or a new   *)
(* one.                                                                     *)
ScratchTaken == IF scratches = <<>> THEN EmptyScratch ELSE Last(scratches)
ScratchesLeft == IF scratches = <<>> THEN <<>> ELSE Front(scratches)

(* run refuses the request: no buffers were taken.  The scratch of its sink *)
(* is given back if the sink itself was accepted.                           *)
Refuse(t) ==
    /\ pc[t] = "idle"
    /\ \E call \in Calls :
          /\ ~CallAccepted(call)
          /\ scratches' = IF call.sink = {} THEN scratches
                          ELSE IF SinkLaidOut(The(call.sink))
                          THEN Append(ScratchesLeft, EmptyScratch)
                          ELSE ScratchesLeft
    /\ pc' = [pc EXCEPT ![t] = "refused"]
    /\ UNCHANGED <<asked, sink, scratch, held, pool, memory, wire, read>>

(* OutputSinkParts::new, validate_request and the tensors of the request    *)
Accept(t) ==
    /\ pc[t] = "idle"
    /\ \E call \in Calls :
          /\ CallAccepted(call)
          /\ asked' = [asked EXCEPT ![t] = {WithSink(call)}]
          /\ sink' = [sink EXCEPT ![t] = call.sink]
          /\ IF call.sink = {} THEN UNCHANGED scratchVars
             ELSE /\ scratch' = [scratch EXCEPT
                                    ![t] = LaidOut(ScratchTaken, The(call.sink))]
                  /\ scratches' = ScratchesLeft
    /\ pc' = [pc EXCEPT ![t] = "accepted"]
    /\ UNCHANGED <<held, pool, memory, wire, read>>

InUse == (UNION {held[t] : t \in Threads}) \cup {pool[i] : i \in DOMAIN pool}

(* Mutant of Checkout: the buffers stay in the pool.                        *)
CheckoutShared(t) ==
    /\ pc[t] = "accepted"
    /\ \E b \in Buffers :
          /\ IF pool = <<>> THEN b \notin InUse ELSE b = pool[Len(pool)]
          /\ held' = [held EXCEPT ![t] = {b}]
    /\ pc' = [pc EXCEPT ![t] = "holding"]
    /\ UNCHANGED <<asked, sink, scratchVars, pool, memory, wire, read>>

(* RequestBufferPool::checkout: the last buffers given back, or new ones.   *)
Checkout(t) ==
    /\ pc[t] = "accepted"
    /\ \E b \in Buffers :
          /\ IF pool = <<>> THEN b \notin InUse ELSE b = pool[Len(pool)]
          /\ held' = [held EXCEPT ![t] = {b}]
          /\ pool' = IF pool = <<>> THEN pool ELSE Front(pool)
    /\ pc' = [pc EXCEPT ![t] = "holding"]
    /\ UNCHANGED <<asked, sink, scratchVars, memory, wire, read>>

(* prepare_request lays the lists out and builds the structure.             *)
Prepare(t) ==
    /\ pc[t] = "holding"
    /\ \E b \in held[t], r \in asked[t] :
          /\ memory' = [memory EXCEPT ![b] = Filled(@, r)]
          /\ wire' = [wire EXCEPT ![t] = {Encoded(r, Profile, Filled(memory[b], r))}]
    /\ pc' = [pc EXCEPT ![t] = "prepared"]
    /\ UNCHANGED <<asked, sink, scratchVars, held, pool, read>>

(* validate_output_sink                                                     *)
SinkReadable(t) == sink[t] # {} => SinkNamesValid(NamesOf(SinkSeen(scratch[t])))

(* The shim is called: request_from_sys and validate_output_sink throw, or  *)
(* the request is queued.                                                   *)
Submit(t) ==
    /\ pc[t] = "prepared"
    /\ \E b \in held[t], w \in wire[t] :
          IF RequestReadable(w, memory[b]) /\ SinkReadable(t)
          THEN /\ read' = [read EXCEPT ![t] = {RequestRead(w, memory[b])}]
               /\ pc' = [pc EXCEPT ![t] = "submitted"]
          ELSE /\ pc' = [pc EXCEPT ![t] = "threw"]
               /\ UNCHANGED read
    /\ UNCHANGED <<asked, sink, scratchVars, held, pool, memory, wire>>

(* Mutant of Recycled: the buffers keep what they hold.                     *)
RecycledAsIs(b) == memory

(* RequestBuffers::clear                                                    *)
Recycled(b) == [memory EXCEPT ![b] = EmptyBuffers]

(* run returns: the prepared request is dropped and its buffers given back, *)
(* and so is the scratch of the sink, cleared.                              *)
Finish(t) ==
    /\ pc[t] \in {"submitted", "threw"}
    /\ \E b \in held[t] :
          /\ memory' = Recycled(b)
          /\ pool' = Append(pool, b)
    /\ held' = [held EXCEPT ![t] = {}]
    /\ wire' = [wire EXCEPT ![t] = {}]
    /\ read' = [read EXCEPT ![t] = {}]
    /\ asked' = [asked EXCEPT ![t] = {}]
    /\ sink' = [sink EXCEPT ![t] = {}]
    /\ scratch' = [scratch EXCEPT ![t] = EmptyScratch]
    /\ scratches' = IF sink[t] = {} THEN scratches ELSE Append(scratches, EmptyScratch)
    /\ pc' = [pc EXCEPT ![t] = "idle"]

(* run returns the error of a refused request.                              *)
ReturnRefused(t) ==
    /\ pc[t] = "refused"
    /\ pc' = [pc EXCEPT ![t] = "idle"]
    /\ UNCHANGED <<asked, sink, scratchVars, held, pool, memory, wire, read>>

(* The executor is dropped, which no thread is using, and its pools with it. *)
DropPools ==
    /\ \A t \in Threads : pc[t] = "idle"
    /\ pool' = <<>>
    /\ scratches' = <<>>
    /\ memory' = [b \in Buffers |-> EmptyBuffers]
    /\ UNCHANGED <<pc, asked, sink, scratch, held, wire, read>>

RequestStep(t) ==
    \/ Refuse(t) \/ Accept(t) \/ Checkout(t) \/ Prepare(t) \/ Submit(t)
    \/ Finish(t) \/ ReturnRefused(t)

RequestNext == DropPools \/ \E t \in Threads : RequestStep(t)

RequestSpec == RequestInit /\ [][RequestNext]_requestVars

-----------------------------------------------------------------------------
(* The tensors that reach the backend: those with elements.                 *)
Passed(option) ==
    {Received(t.value, TypeCodes[t.dtype], t.dims, t.gpu) :
        t \in {u \in option : Product(u.dims) # 0}}

(* The request as it was asked for, independent of how it travels: every    *)
(* option and list of it, but for lists and tensors that are empty.         *)
Meant(r) ==
    [r EXCEPT
        !.tensors = [f \in TensorFields |-> Passed(@[f])],
        !.sampling.beam_width_array = @ \ {<<>>},
        !.prompt = Passed(@), !.bias = Passed(@), !.mrope = Passed(@),
        !.extra_ids = IF r.prompt = {} THEN <<>> ELSE TokenExtraIds(r, Profile),
        !.position_ids = @ \ {<<>>}, !.encoder_tokens = @ \ {<<>>},
        !.draft = {[d EXCEPT !.logits = Passed(@)] : d \in @},
        !.lora = {[l EXCEPT !.weights = Passed(@), !.config = Passed(@)] : l \in @},
        !.context = {[c EXCEPT !.draft_tokens = @ \ {<<>>}] : c \in @}]

(* What the shim reads is what was asked, whatever requests used the        *)
(* buffers before and whatever other threads prepare meanwhile.             *)
ReadAsAsked ==
    \A t \in Threads : pc[t] = "submitted" => read[t] = {Meant(r) : r \in asked[t]}

(* The shim never throws on a request that the executor accepted, unless    *)
(* the tensor an mrope_config requires has no elements, an output the       *)
(* caller asks for has no name, or two tensors of the sink go by the same   *)
(* name: every other check of request_from_sys follows from                 *)
(* validate_request and the layout.                                         *)
AcceptedIsReadable ==
    \A t \in Threads : pc[t] = "threw" =>
        \/ \E r \in asked[t] : \E c \in r.mrope : Product(c.dims) = 0
        \/ \E r \in asked[t] : Contains(r.outputs, <<>>)
        \/ \E tensors \in sink[t] : ~SinkNamesValid(NamesOf(tensors))

(* In an accepted request whose extra ids the executor computes, a token    *)
(* past the vocabulary stands for a row the prompt table has, the one that  *)
(* its extra id names.                                                      *)
VirtualTokensHaveRows ==
    \A t \in Threads : \A r \in asked[t] : \A p \in r.prompt :
        r.extra_ids = {} =>
            \A i \in DOMAIN r.tokens : r.tokens[i] >= Profile.vocab_size =>
                LET row == TokenExtraIds(r, Profile)[i]
                IN  row < p.dims[1] /\ Profile.vocab_size + row = r.tokens[i]

(* Buffers are in one place, and hold nothing when they are pooled.         *)
BuffersOwned ==
    /\ \A t, u \in Threads : t # u => held[t] \cap held[u] = {}
    /\ \A t \in Threads : \A i \in DOMAIN pool : pool[i] \notin held[t]
    /\ \A i, j \in DOMAIN pool : i # j => pool[i] # pool[j]
    /\ \A i \in DOMAIN pool : memory[pool[i]] = EmptyBuffers

(* The states of a thread; it holds buffers exactly in the middle of run.   *)
RequestTypeOK ==
    /\ pc \in [Threads -> {"idle", "refused", "accepted", "holding", "prepared",
                           "submitted", "threw"}]
    /\ held \in [Threads -> SUBSET Buffers]
    /\ pool \in Seq(Buffers)
    /\ \A t \in Threads : pc[t] \in {"holding", "prepared", "submitted", "threw"}
                              => \E b \in Buffers : held[t] = {b}
    /\ \A t \in Threads : pc[t] \in {"idle", "refused", "accepted"} => held[t] = {}
===============================================================================
