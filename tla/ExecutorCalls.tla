---------------------------- MODULE ExecutorCalls ----------------------------
(***************************************************************************)
(* Calls of Executor::run from the request to the response and until the   *)
(* caller drops it: RequestRun, what the shim makes of the answer of the   *)
(* backend (copy_responses_with_stream of tensorrt_llm_executor.cpp), and  *)
(* the Response over it (executor.rs, output.rs).                          *)
(*                                                                         *)
(* The answer is the batch of responses that await_final_responses         *)
(* returns; a response is an error or a result (OutputWire).  Memory of a  *)
(* sink is what it holds once its copies have completed: when they do is   *)
(* the subject of SinkRun.                                                 *)
(***************************************************************************)
EXTENDS RequestRun, OutputWire

CONSTANTS
    Answers(_, _),  (* the batches with which the backend may answer a      *)
                    (* request that has a sink, or has none                 *)
    MaxReads        (* bound: tensors that a caller reads of a response     *)

ASSUME AnswersAssumption ==
    \A call \in Calls : \A results \in Answers(WithSink(call), call.sink) :
        /\ results # <<>> /\ IsList(results)
        /\ \A i \in DOMAIN results : ResultTyped(results[i])

(* All answers have outputs that are named so.                              *)
BackendNames ==
    \A call \in Calls : \A results \in Answers(WithSink(call), call.sink) :
        \A i \in DOMAIN results : NamedByBackend(results[i])

VARIABLES
    stage,      (* where the response of each thread is                     *)
    answer,     (* the batch that its call returned, and for which sink     *)
    heap,       (* what its last call of the shim allocated                 *)
    outputs,    (* sys::Output of each response of the batch                *)
    response,   (* its Response: lazy tensors with what their cells hold    *)
    filled      (* what the call wrote, by device address                   *)

outputVars == <<stage, answer, heap, outputs, response, filled>>

executorVars == <<requestVars, outputVars>>

Nothing == [x \in {} |-> x]

ExecutorInit ==
    /\ RequestInit
    /\ stage = [t \in Threads |-> "none"]
    /\ answer = [t \in Threads |-> {}]
    /\ heap = [t \in Threads |-> Nothing]
    /\ outputs = [t \in Threads |-> <<>>]
    /\ response = [t \in Threads |-> <<>>]
    /\ filled = [t \in Threads |-> Nothing]

-----------------------------------------------------------------------------
(* Copies into the sink.                                                    *)

SinkTensorsOf(option) == IF option = {} THEN <<>> ELSE The(option)

(* validate_tensor_view                                                     *)
FitsTensor(o, tensors) ==
    \A i \in TargetOf(o.name, NamesOf(tensors)) :
        tensors[i].code = o.tensor.code /\ tensors[i].dims = o.tensor.dims

(* copy_response throws: an error, or an output that does not fit.          *)
Misfits(result, tensors) ==
    LET list == Emitted(result, NamesOf(tensors))
    IN  {k \in DOMAIN list : ~FitsTensor(list[k], tensors)}

Throws(result, tensors) == result.error \/ Misfits(result, tensors) # {}

(* copy_tensor_to_sink: the bytes of an output, at the addresses of its     *)
(* tensor.                                                                  *)
WrittenTo(mem, o, tensors) ==
    LET tensor == tensors[The(TargetOf(o.name, NamesOf(tensors)))]
        target == {a \in 0 .. MaxAddress : a \in Covered(SinkRange(tensor))}
    IN  [a \in DOMAIN mem \cup target |->
            IF a \in target THEN [value |-> o.tensor.value, byte |-> a - tensor.start]
            ELSE mem[a]]

(* The outputs of a batch that go to the sink, in the order they are copied *)
TakenOf(results, tensors) ==
    FlattenSeq([i \in DOMAIN results |->
        Taken(Emitted(results[i], NamesOf(tensors)), NamesOf(tensors))])

Filling(results, tensors) ==
    FoldLeft(LAMBDA mem, o : WrittenTo(mem, o, tensors), Nothing, TakenOf(results, tensors))

(* ensure_all_written: every tensor of the sink had its flag set.           *)
AllWritten(results, tensors) ==
    LET names == NamesOf(tensors)
    IN  UNION {TargetOf(o.name, names) : o \in ToSet(TakenOf(results, tensors))}
            = DOMAIN tensors

-----------------------------------------------------------------------------
(* The named tensors of a response that were allocated when its m-th output *)
(* threw.                                                                   *)
NamedBefore(i, result, tensors, m) ==
    LET names == NamesOf(tensors)
        named == Additional(result, names)
        before == SubSeq(named, 1, Min({m - 1, Len(named)}))
    IN  {TensorOutput(i, o.name, o.tensor).data.block : o \in ToSet(Kept(before, names))}
        \ {Null.block}

(* Mutant of FreedResponses: the one that threw is not counted.             *)
FreedResponsesCopied(i, results) == 1 .. i - 1

(* copy_responses_with_stream, when response i throws: how many it frees.   *)
FreedResponses(i, results) == 1 .. Min({i, Len(results)})

(* What is left of a batch whose response i threw at its m-th output, or    *)
(* is an error (m = 0).                                                     *)
LeftBy(i, m, results, tensors, deferred) ==
    LET names == NamesOf(tensors)
        copied == [j \in 1 .. i |->
                      IF j < i THEN Copied(j, results[j], names, deferred,
                                              Len(Emitted(results[j], names)) + 1)
                      ELSE IF m = 0 THEN NoOutput
                      ELSE Copied(i, results[i], names, FALSE, m)]
        allocated == (UNION {Blocks(copied[j]) : j \in 1 .. i})
                     \cup IF m = 0 THEN {} ELSE NamedBefore(i, results[i], tensors, m)
        freed == UNION {Blocks(copied[j]) : j \in FreedResponses(i, results)}
    IN  [b \in allocated \ freed |-> [p \in {"all"} |-> Garbage]]

(* await_final_responses copies the responses that are not final into the   *)
(* sink before any is returned, and throws at one that does not fit.        *)
AwaitThrows(results, tensors) ==
    \E i \in DOMAIN results : /\ ~results[i].error /\ ~results[i].is_final
                              /\ Misfits(results[i], tensors) # {}

AwaitError(t, results, tensors) ==
    /\ AwaitThrows(results, tensors)
    /\ heap' = [heap EXCEPT ![t] = Nothing]
    /\ stage' = [stage EXCEPT ![t] = "failed"]
    /\ UNCHANGED <<answer, outputs, filled>>

(* copy_responses_with_stream throws at the first response that does, and   *)
(* frees what it copied.                                                    *)
ReturnError(t, results, tensors) ==
    \E i \in DOMAIN results :
        /\ ~AwaitThrows(results, tensors)
        /\ Throws(results[i], tensors)
        /\ \A j \in 1 .. i - 1 : ~Throws(results[j], tensors)
        /\ LET m == IF results[i].error THEN 0 ELSE Min(Misfits(results[i], tensors))
           IN  heap' = [heap EXCEPT ![t] = LeftBy(i, m, results, tensors, sink[t] # {})]
        /\ stage' = [stage EXCEPT ![t] = "failed"]
        /\ UNCHANGED <<answer, outputs, filled>>

(* It returns a response for each; they are kept if there is a sink.        *)
ReturnResponses(t, results, tensors) ==
    LET names == NamesOf(tensors)
        copied == [i \in DOMAIN results |->
                      Copied(i, results[i], names, sink[t] # {},
                             Len(Emitted(results[i], names)) + 1)]
    IN  /\ \A i \in DOMAIN results : ~Throws(results[i], tensors)
        /\ heap' = [heap EXCEPT ![t] = HeapOf(results, copied)]
        /\ outputs' = [outputs EXCEPT ![t] = copied]
        /\ filled' = [filled EXCEPT ![t] = Filling(results, tensors)]
        /\ answer' = [answer EXCEPT ![t] = {[results |-> results, tensors |-> SinkTensorsOf(sink[t])]}]
        /\ stage' = [stage EXCEPT ![t] = "returned"]

(* The backend answers, and the shim returns.                               *)
Return(t) ==
    /\ pc[t] = "submitted" /\ stage[t] = "none"
    /\ \E r \in asked[t] : \E results \in Answers(r, sink[t]) :
          LET tensors == SinkSeen(scratch[t])
          IN  \/ AwaitError(t, results, tensors)
              \/ ReturnError(t, results, tensors)
              \/ ReturnResponses(t, results, tensors)
    /\ UNCHANGED <<requestVars, response>>

(* responses_free                                                           *)
Freed(t) ==
    LET gone == UNION {Blocks(outputs[t][i]) : i \in DOMAIN outputs[t]}
    IN  [b \in DOMAIN heap[t] \ gone |-> heap[t][b]]

(* The response that run returns: the first that is final.                  *)
FinalIndex(t) ==
    {i \in DOMAIN outputs[t] : /\ outputs[t][i].is_final
                               /\ \A j \in 1 .. i - 1 : ~outputs[t][j].is_final}

OpenedWith(t, i) ==
    LET lazies == LazyTensors(outputs[t][i])
    IN  [k \in DOMAIN lazies |-> [lazy |-> lazies[k], cell |-> {}]]

CanOpen(t) ==
    /\ \E i \in FinalIndex(t) : \A lazy \in ToSet(LazyTensors(outputs[t][i])) :
          Valid(lazy, heap[t])
    /\ \A a \in answer[t] : AllWritten(a.results, a.tensors)

(* Mutant of Open: the response does not keep the raw responses alive.      *)
OpenUnguarded(t) ==
    /\ stage[t] = "returned" /\ CanOpen(t)
    /\ \E i \in FinalIndex(t) : response' = [response EXCEPT ![t] = OpenedWith(t, i)]
    /\ heap' = [heap EXCEPT ![t] = Freed(t)]
    /\ stage' = [stage EXCEPT ![t] = "open"]
    /\ UNCHANGED <<requestVars, answer, outputs, filled>>

(* final_response_from_sys, ensure_all_written                              *)
Open(t) ==
    /\ stage[t] = "returned" /\ CanOpen(t)
    /\ \E i \in FinalIndex(t) : response' = [response EXCEPT ![t] = OpenedWith(t, i)]
    /\ stage' = [stage EXCEPT ![t] = "open"]
    /\ UNCHANGED <<requestVars, answer, heap, outputs, filled>>

(* They return an error: the raw responses are dropped.                     *)
OpenError(t) ==
    /\ stage[t] = "returned" /\ ~CanOpen(t)
    /\ heap' = [heap EXCEPT ![t] = Freed(t)]
    /\ stage' = [stage EXCEPT ![t] = "failed"]
    /\ UNCHANGED <<requestVars, answer, outputs, response, filled>>

(* run returns.                                                             *)
Conclude(t) ==
    /\ pc[t] = "threw" \/ stage[t] \in {"open", "failed"}
    /\ Finish(t)
    /\ stage' = [stage EXCEPT ![t] = IF @ = "open" THEN @ ELSE "none"]
    /\ IF stage[t] = "open" THEN UNCHANGED <<answer, outputs, filled>>
       ELSE /\ answer' = [answer EXCEPT ![t] = {}]
            /\ outputs' = [outputs EXCEPT ![t] = <<>>]
            /\ filled' = [filled EXCEPT ![t] = Nothing]
    /\ UNCHANGED <<heap, response>>

TensorsRead(t) == {k \in DOMAIN response[t] : response[t][k].cell # {}}

(* ExecutorOutput::get: the tensor is made when it is first asked for.      *)
ReadTensorOf(t, k) ==
    /\ pc[t] = "idle" /\ stage[t] = "open" /\ k \notin TensorsRead(t)
    /\ Cardinality(TensorsRead(t)) < MaxReads
    /\ response' = [response EXCEPT ![t][k].cell = {Decoded(response[t][k].lazy, heap[t])}]
    /\ UNCHANGED <<requestVars, stage, answer, heap, outputs, filled>>

(* The caller drops the response.                                           *)
Close(t) ==
    /\ pc[t] = "idle" /\ stage[t] = "open"
    /\ heap' = [heap EXCEPT ![t] = Freed(t)]
    /\ stage' = [stage EXCEPT ![t] = "none"]
    /\ answer' = [answer EXCEPT ![t] = {}]
    /\ outputs' = [outputs EXCEPT ![t] = <<>>]
    /\ response' = [response EXCEPT ![t] = <<>>]
    /\ filled' = [filled EXCEPT ![t] = Nothing]
    /\ UNCHANGED requestVars

(* A step of RequestRun; a thread drops its response before it runs again.  *)
Prepares(t) ==
    /\ \/ stage[t] = "none" /\ (Refuse(t) \/ Accept(t))
       \/ Checkout(t) \/ Prepare(t) \/ Submit(t) \/ ReturnRefused(t)
    /\ UNCHANGED outputVars

RunStep(t) == Prepares(t) \/ Return(t) \/ Open(t) \/ OpenError(t) \/ Conclude(t)

ResponseStep(t) == Close(t) \/ \E k \in DOMAIN response[t] : ReadTensorOf(t, k)

(* The executor is dropped; responses outlive it.                           *)
DropExecutor == DropPools /\ UNCHANGED outputVars

ExecutorNext ==
    \/ \E t \in Threads : RunStep(t) \/ ResponseStep(t)
    \/ DropExecutor

ExecutorSpec == ExecutorInit /\ [][ExecutorNext]_executorVars

-----------------------------------------------------------------------------
(* The outputs of the result that run returns, and the tensors of the       *)
(* response, by name: what a reader of the documentation expects of them.   *)
FinalResult(results) ==
    results[CHOOSE i \in DOMAIN results : /\ results[i].is_final
                                          /\ \A j \in 1 .. i - 1 : ~results[j].is_final]

ListPresented(result, n) ==
    LET all == FlattenSeq(result.lists[n])
    IN  IF all = <<>> THEN {}
        ELSE {[name |-> <<n>>, value |-> all]}
             \cup {[name |-> <<m>>, value |-> Offsets(result.lists[n])] : m \in OffsetNames[n]}

TensorPresented(o, name) ==
    [name |-> name, value |-> IF Product(o.tensor.dims) = 0 THEN <<>> ELSE o.tensor.value]

Presented(results, names) ==
    LET result == FinalResult(results)
    IN  (UNION {ListPresented(result, n) : n \in ToSet(ListNames)})
        \cup {TensorPresented(o, o.name) : o \in ToSet(Kept(Logits(result), names))}
        \cup {TensorPresented(o, Exposed(o.name)) :
                  o \in ToSet(Kept(Additional(result, names), names))}

(* A tensor that was accepted when the response was made can be read: the   *)
(* expectations of to_tensor hold, so reading never panics.                 *)
ReadsNeverPanic ==
    \A t \in Threads : \A k \in DOMAIN response[t] : Expected(response[t][k].lazy)

(* A thread without a response or a call in progress owns no memory of the  *)
(* shim, unless its last call threw in the middle of the additional outputs *)
(* of a response: then those copied before are lost, and nothing else.      *)
OnlyNamedTensorsLeak ==
    \A t \in Threads : pc[t] = "idle" /\ stage[t] = "none" =>
        \A b \in DOMAIN heap[t] : b[2] = "tensor" /\ b[3] \notin ToSet(LogitNames)

(* When run has returned a response, every tensor of the sink holds all the *)
(* bytes of the last output it takes, and the outputs of a result share a   *)
(* tensor only if both logits go to a tensor called logits.                 *)
DeliveredWhole ==
    \A t \in Threads : \A a \in answer[t] : stage[t] = "open" =>
        LET names == NamesOf(a.tensors)
            taken == TakenOf(a.results, a.tensors)
            Goes(k, i) == i \in TargetOf(taken[k].name, names)
        IN  /\ \A i \in DOMAIN a.tensors : \E k \in DOMAIN taken :
                  /\ Goes(k, i)
                  /\ \A m \in k + 1 .. Len(taken) : ~Goes(m, i)
                  /\ \A n \in 0 .. SinkBytes(a.tensors[i]) - 1 :
                        filled[t][a.tensors[i].start + n]
                            = [value |-> taken[k].tensor.value, byte |-> n]
            /\ \A j \in DOMAIN a.results :
                  LET list == Emitted(a.results[j], names)
                  IN  \A k, m \in DOMAIN list :
                          k < m /\ TargetOf(list[k].name, names) \cap TargetOf(list[m].name, names) # {}
                              => /\ list[k].name = ContextLogits
                                 /\ list[m].name = GenerationLogits

-----------------------------------------------------------------------------
(* Calls implement ExecutorPromise: the backend has what the shim read, and *)
(* a caller holds the values its lazy tensors hold, or would be read with   *)
(* now.                                                                     *)
TaskOf(call) ==
    [request |-> Meant(WithSink(call)), into |-> call.sink, asked |-> WithSink(call)]

GivenTo(t) ==
    IF pc[t] # "submitted" THEN {}
    ELSE {[request |-> r, into |-> sink[t], asked |-> a] : r \in read[t], a \in asked[t]}

TensorsNow(t) ==
    {[name |-> response[t][k].lazy.name,
      value |-> IF response[t][k].cell # {} THEN The(response[t][k].cell)
                ELSE Decoded(response[t][k].lazy, heap[t])] :
        k \in DOMAIN response[t]}

Promise == INSTANCE ExecutorPromise WITH
    Callers <- Threads,
    Tasks <- {TaskOf(call) : call \in {c \in Calls : CallAccepted(c)}},
    Outcomes <- LAMBDA task :
        {Presented(results, NamesOf(SinkTensorsOf(task.into))) :
            results \in Answers(task.asked, task.into)},
    given <- [t \in Threads |-> GivenTo(t)],
    got <- [t \in Threads |-> IF stage[t] = "open" THEN {TensorsNow(t)} ELSE {}]

(* Every call of run, and every response, is one of ExecutorPromise: the    *)
(* backend has exactly what the caller asked for, and the response has      *)
(* exactly the outputs of the final result of its answer that no tensor of  *)
(* the sink took, with their values, until it is dropped.                   *)
KeepsPromise == Promise!PromiseSpec
==============================================================================
