------------------------------- MODULE SinkRun -------------------------------
(***************************************************************************)
(* `Executor::run` of tensorrt_llm for requests with additional outputs:   *)
(* model outputs copied by a CUDA stream into tensors of the caller (the   *)
(* sink), shared event pool included (src/tensorrt_llm/src/executor.rs and *)
(* src/tensorrt_llm-sys/native/tensorrt_llm_executor.cpp).                 *)
(*                                                                         *)
(* Executor is Send and Sync: each member of Runs is a thread's run, then  *)
(* the Response it returned, then the next run of that thread.  A response *)
(* of the backend is the set of sink outputs it carries.  Host memory that *)
(* only one run can reach (scratch, request buffers) is left out but for   *)
(* the written flags.                                                      *)
(***************************************************************************)
EXTENDS Naturals, FiniteSets, Sequences

CONSTANTS
    Runs,          (* runs in progress or whose response is alive            *)
    Streams,       (* CUDA streams of the callers                            *)
    StreamOf,      (* the stream each caller passes with its outputs         *)
    Events,        (* identities a CUDA event can have                       *)
    Names,         (* outputs of a sink                                      *)
    MaxBatches,    (* bound: awaitResponses calls that return responses      *)
    MaxBatch,      (* bound: responses in one such batch                     *)
    MaxQueued      (* bound: operations a stream still has when a run starts *)

ASSUME SinkAssumption ==
    /\ StreamOf \in [Runs -> Streams]
    /\ MaxBatches \in Nat \ {0}
    /\ MaxBatch \in Nat \ {0}
    /\ MaxQueued \in Nat

VARIABLES
    pc,         (* where each run is                                         *)
    event,      (* the completion event a run holds: none or one             *)
    eventPool,  (* CudaEventPool::events                                     *)
    batches,    (* batches a run has received                                *)
    batch,      (* the responses it owns now, in order                       *)
    ending,     (* whether that batch has the final response, or an error    *)
    copied,     (* responses of the batch the current loop has copied        *)
    written,    (* the `written` flags of the sink                           *)
    synced,     (* PooledCudaEvent::synchronized                             *)
    content,    (* what each tensor of the sink holds                        *)
    queue       (* operations each stream has not completed                  *)

vars == <<pc, event, eventPool, batches, batch, ending, copied, written, synced,
          content, queue>>

hostVars == <<pc, event, eventPool, batches, batch, ending, copied, written, synced>>

(* What a sink tensor holds: nothing of this run, a copy made while later   *)
(* responses were awaited, or the i-th response of the batch returned.      *)
Unset == 0
Early == 1
Returned(i) == i + 1

Contents == {Unset, Early} \cup {Returned(i) : i \in 1 .. MaxBatch}

Endings == {"more", "final", "error"}

(* The batches awaitResponses can return.                                   *)
Batches == UNION {[1 .. n -> SUBSET Names] : n \in 1 .. MaxBatch}

(* A stream operation: the copies of one response, or an event record.      *)
Ops == [run : Runs, names : SUBSET Names, value : Contents, batch : 0 .. MaxBatches,
        records : SUBSET Events]

Copies(r, value) ==
    [run |-> r, names |-> batch[r][copied[r] + 1], value |-> value,
     batch |-> batches[r], records |-> {}]

Record(r) ==
    [run |-> r, names |-> {}, value |-> Unset, batch |-> batches[r], records |-> event[r]]

Enqueue(s, op) == queue' = [queue EXCEPT ![s] = Append(@, op)]

(* cudaEventSynchronize returns: no record of the event is pending.  An     *)
(* event that was never recorded is complete.                               *)
EventComplete(e) ==
    \A s \in Streams : \A i \in DOMAIN queue[s] : e \notin queue[s][i].records

LiveEvents == eventPool \cup (UNION {event[r] : r \in Runs})

Init ==
    /\ pc = [r \in Runs |-> "idle"]
    /\ event = [r \in Runs |-> {}]
    /\ eventPool = {}
    /\ batches = [r \in Runs |-> 0]
    /\ batch = [r \in Runs |-> <<>>]
    /\ ending = [r \in Runs |-> "more"]
    /\ copied = [r \in Runs |-> 0]
    /\ written = [r \in Runs |-> {}]
    /\ synced = [r \in Runs |-> FALSE]
    /\ content = [r \in Runs |-> [x \in Names |-> Unset]]
    /\ queue = [s \in Streams |-> <<>>]

-----------------------------------------------------------------------------
(* The GPU completes the head of a stream.                                  *)
GpuStep(s) ==
    /\ queue[s] # <<>>
    /\ LET op == Head(queue[s])
       IN  content' = [content EXCEPT ![op.run] =
               [x \in Names |-> IF x \in op.names THEN op.value ELSE @[x]]]
    /\ queue' = [queue EXCEPT ![s] = Tail(@)]
    /\ UNCHANGED hostVars

(* The tensors of a sink that no run uses; what they hold does not matter.  *)
Blank(r) == [content EXCEPT ![r] = [x \in Names |-> Unset]]

(* Mutant of ClearedFlags: a recycled scratch keeps its written flags.      *)
KeptFlags(r) == written[r]

(* OutputSinkScratch::clear, before the scratch is pooled again.            *)
ClearedFlags(r) == {}

(* The responses are destroyed, the scratch is recycled, and so is the      *)
(* event, whose destructor waits for it unless it is known to be complete.  *)
Release(r) ==
    /\ synced[r] \/ \A e \in event[r] : EventComplete(e)
    /\ pc' = [pc EXCEPT ![r] = "idle"]
    /\ event' = [event EXCEPT ![r] = {}]
    /\ eventPool' = eventPool \cup event[r]
    /\ batches' = [batches EXCEPT ![r] = 0]
    /\ batch' = [batch EXCEPT ![r] = <<>>]
    /\ ending' = [ending EXCEPT ![r] = "more"]
    /\ copied' = [copied EXCEPT ![r] = 0]
    /\ written' = [written EXCEPT ![r] = ClearedFlags(r)]
    /\ synced' = [synced EXCEPT ![r] = FALSE]
    /\ content' = Blank(r)
    /\ UNCHANGED queue

(* OutputSinkParts::new: an event from the pool, a new one if there is none; *)
(* the sink's tensors hold nothing of this run.                             *)
Checkout(r) ==
    /\ pc[r] = "idle"
    /\ Len(queue[StreamOf[r]]) <= MaxQueued
    /\ \E e \in Events :
          /\ e \in eventPool \/ (eventPool = {} /\ e \notin LiveEvents)
          /\ event' = [event EXCEPT ![r] = {e}]
          /\ eventPool' = eventPool \ {e}
    /\ pc' = [pc EXCEPT ![r] = "prepared"]
    /\ content' = Blank(r)
    /\ UNCHANGED <<batches, batch, ending, copied, written, synced, queue>>

(* The sink or the request is refused, by Rust or by the shim; or the       *)
(* backend fails while responses are awaited.                               *)
Refused(r) ==
    /\ pc[r] \in {"prepared", "waiting"}
    /\ Release(r)

(* enqueueRequest                                                           *)
Submit(r) ==
    /\ pc[r] = "prepared"
    /\ pc' = [pc EXCEPT ![r] = "waiting"]
    /\ UNCHANGED <<event, eventPool, batches, batch, ending, copied, written, synced, content, queue>>

(* awaitResponses returns a batch.  Nothing follows a final response or an  *)
(* error, and the backend ends every request.                               *)
Receive(r) ==
    /\ pc[r] = "waiting"
    /\ batches[r] < MaxBatches
    /\ \E b \in Batches, last \in Endings :
          /\ batches[r] + 1 = MaxBatches => last # "more"
          /\ batch' = [batch EXCEPT ![r] = b]
          /\ ending' = [ending EXCEPT ![r] = last]
    /\ batches' = [batches EXCEPT ![r] = @ + 1]
    /\ pc' = [pc EXCEPT ![r] = "early"]
    /\ UNCHANGED <<event, eventPool, copied, written, synced, content, queue>>

-----------------------------------------------------------------------------
(* Mutant of HasFinal: an error is not taken for the end of the request.    *)
HasFinalResult(r) == ending[r] = "final"

(* is_final_or_error, of the last response of the batch                     *)
HasFinal(r) == ending[r] # "more"

(* await_final_responses copies the responses that are not final.           *)
EarlyCount(r) == IF HasFinal(r) THEN Len(batch[r]) - 1 ELSE Len(batch[r])

CopyEarly(r) ==
    /\ pc[r] = "early"
    /\ copied[r] < EarlyCount(r)
    /\ Enqueue(StreamOf[r], Copies(r, Early))
    /\ written' = [written EXCEPT ![r] = @ \cup batch[r][copied[r] + 1]]
    /\ copied' = [copied EXCEPT ![r] = @ + 1]
    /\ UNCHANGED <<pc, event, eventPool, batches, batch, ending, synced, content>>

(* A copy throws: the responses are destroyed and run returns the error.    *)
EarlyFails(r) ==
    /\ pc[r] = "early"
    /\ copied[r] < EarlyCount(r)
    /\ Release(r)

(* The next iteration destroys the batch...                                 *)
EarlyDone(r) ==
    /\ pc[r] = "early"
    /\ copied[r] = EarlyCount(r)
    /\ ~HasFinal(r)
    /\ pc' = [pc EXCEPT ![r] = "waiting"]
    /\ batch' = [batch EXCEPT ![r] = <<>>]
    /\ copied' = [copied EXCEPT ![r] = 0]
    /\ UNCHANGED <<event, eventPool, batches, ending, written, synced, content, queue>>

(* ...unless it has the final response or an error, and is returned.        *)
Awaited(r) ==
    /\ pc[r] = "early"
    /\ copied[r] = EarlyCount(r)
    /\ HasFinal(r)
    /\ pc' = [pc EXCEPT ![r] = "final"]
    /\ copied' = [copied EXCEPT ![r] = 0]
    /\ UNCHANGED <<event, eventPool, batches, batch, ending, written, synced, content, queue>>

-----------------------------------------------------------------------------
(* copy_responses_with_stream allocates its result before it retains the    *)
(* responses: a failure there destroys them.                                *)
AllocationFails(r) ==
    /\ pc[r] = "final"
    /\ copied[r] = 0
    /\ Release(r)

(* Mutant of CopyFinal: the responses are copied from the last to the first. *)
CopyFinalReversed(r) ==
    /\ pc[r] = "final"
    /\ copied[r] < Len(batch[r])
    /\ ~(ending[r] = "error" /\ copied[r] + 1 = Len(batch[r]))
    /\ LET i == Len(batch[r]) - copied[r]
       IN  Enqueue(StreamOf[r], [Copies(r, Returned(i)) EXCEPT !.names = batch[r][i]])
    /\ written' = [written EXCEPT ![r] = @ \cup batch[r][copied[r] + 1]]
    /\ copied' = [copied EXCEPT ![r] = @ + 1]
    /\ UNCHANGED <<pc, event, eventPool, batches, batch, ending, synced, content>>

(* Every response of the batch is copied, again if it is not final; one     *)
(* with an error throws.                                                    *)
CopyFinal(r) ==
    /\ pc[r] = "final"
    /\ copied[r] < Len(batch[r])
    /\ ~(ending[r] = "error" /\ copied[r] + 1 = Len(batch[r]))
    /\ Enqueue(StreamOf[r], Copies(r, Returned(copied[r] + 1)))
    /\ written' = [written EXCEPT ![r] = @ \cup batch[r][copied[r] + 1]]
    /\ copied' = [copied EXCEPT ![r] = @ + 1]
    /\ UNCHANGED <<pc, event, eventPool, batches, batch, ending, synced, content>>

(* Mutant of CopyFinalFails: the error returns without its event.           *)
CopyFinalFailsWithoutEvent(r) ==
    /\ pc[r] = "final"
    /\ pc' = [pc EXCEPT ![r] = "idle"]
    /\ UNCHANGED <<event, eventPool, batches, batch, ending, copied, written, synced,
                   content, queue>>

(* A copy or the record of the event throws: the handler drains the stream. *)
CopyFinalFails(r) ==
    /\ pc[r] = "final"
    /\ pc' = [pc EXCEPT ![r] = "draining"]
    /\ UNCHANGED <<event, eventPool, batches, batch, ending, copied, written, synced,
                   content, queue>>

(* Mutant of Drained: the handler does not wait.                            *)
DrainedAtOnce(r) ==
    /\ pc[r] = "draining"
    /\ Release(r)

(* cudaStreamSynchronize waits at least for the operations of this run.     *)
Drained(r) ==
    /\ pc[r] = "draining"
    /\ \A i \in DOMAIN queue[StreamOf[r]] : queue[StreamOf[r]][i].run # r
    /\ Release(r)

(* The stream of the record.  Mutant: another stream, if there is one.      *)
OtherStream(r) ==
    IF Streams = {StreamOf[r]} THEN StreamOf[r]
    ELSE CHOOSE s \in Streams : s # StreamOf[r]

RecordStream(r) == StreamOf[r]

(* The event is recorded and the responses are returned.  final_response    *)
(* keeps them alive; ensure_all_written refuses a sink with a tensor that   *)
(* no response carried, which drops them.                                   *)
RecordEvent(r) ==
    /\ pc[r] = "final"
    /\ copied[r] = Len(batch[r])
    /\ Enqueue(RecordStream(r), Record(r))
    /\ pc' = [pc EXCEPT ![r] = IF written[r] = Names THEN "held" ELSE "dropping"]
    /\ UNCHANGED <<event, eventPool, batches, batch, ending, copied, written, synced, content>>

-----------------------------------------------------------------------------
(* Response::synchronize                                                    *)
Synchronize(r) ==
    /\ pc[r] = "held"
    /\ ~synced[r]
    /\ \A e \in event[r] : EventComplete(e)
    /\ synced' = [synced EXCEPT ![r] = TRUE]
    /\ UNCHANGED <<pc, event, eventPool, batches, batch, ending, copied, written, content, queue>>

(* Mutant of DropResponse: RawResponses frees without waiting.              *)
DropResponseAtOnce(r) ==
    /\ pc[r] \in {"held", "dropping"}
    /\ pc' = [pc EXCEPT ![r] = "idle"]
    /\ event' = [event EXCEPT ![r] = {}]
    /\ eventPool' = eventPool \cup event[r]
    /\ batch' = [batch EXCEPT ![r] = <<>>]
    /\ content' = Blank(r)
    /\ UNCHANGED <<batches, ending, copied, written, synced, queue>>

(* The Response is dropped: RawResponses::drop and responses_free wait for  *)
(* the event and free the responses; the event is recycled.                 *)
DropResponse(r) ==
    /\ pc[r] \in {"held", "dropping"}
    /\ Release(r)

-----------------------------------------------------------------------------
(* The steps a run makes by itself once it is called...                     *)
RunStep(r) ==
    \/ Submit(r) \/ Receive(r)
    \/ CopyEarly(r) \/ EarlyDone(r) \/ Awaited(r)
    \/ CopyFinal(r) \/ CopyFinalFails(r) \/ Drained(r) \/ RecordEvent(r)
    \/ pc[r] = "dropping" /\ DropResponse(r)

(* ...the failures that may cut it short...                                 *)
FailureStep(r) == Refused(r) \/ EarlyFails(r) \/ AllocationFails(r)

(* ...and what the caller decides.                                          *)
CallerStep(r) == Checkout(r) \/ Synchronize(r) \/ DropResponse(r)

Next ==
    \/ \E r \in Runs : RunStep(r) \/ FailureStep(r) \/ CallerStep(r)
    \/ \E s \in Streams : GpuStep(s)

Spec == Init /\ [][Next]_vars

(* The host runs, the backend answers, the GPU completes its work; no       *)
(* failure has to happen and no caller has to use or drop a Response.       *)
Fairness ==
    /\ \A r \in Runs : WF_vars(RunStep(r))
    /\ \A s \in Streams : WF_vars(GpuStep(s))

FairSpec == Spec /\ Fairness

-----------------------------------------------------------------------------
(* The type of every variable; a run that is not idle holds one event, an   *)
(* idle one has given it back.                                              *)
TypeOK ==
    /\ pc \in [Runs -> {"idle", "prepared", "waiting", "early", "final", "draining",
                        "held", "dropping"}]
    /\ event \in [Runs -> SUBSET Events]
    /\ \A r \in Runs : pc[r] # "idle" => \E e \in Events : event[r] = {e}
    /\ \A r \in Runs : pc[r] = "idle" => event[r] = {}
    /\ eventPool \subseteq Events
    /\ batches \in [Runs -> 0 .. MaxBatches]
    /\ batch \in [Runs -> Seq(SUBSET Names)]
    /\ \A r \in Runs : Len(batch[r]) <= MaxBatch
    /\ ending \in [Runs -> Endings]
    /\ copied \in [Runs -> 0 .. MaxBatch]
    /\ written \in [Runs -> SUBSET Names]
    /\ synced \in [Runs -> BOOLEAN]
    /\ content \in [Runs -> [Names -> Contents]]
    /\ queue \in [Streams -> Seq(Ops)]

(* A copy of the batch that run returns.                                    *)
IsReturned(op) == op.value \notin {Unset, Early}

(* The run of a copy still owns the response the copy reads.                *)
OwnsSource(op) ==
    \E i \in DOMAIN batch[op.run] :
        op.value = Returned(i) /\ op.names = batch[op.run][i]

(* While a copy of the returned batch is pending, its run still owns the    *)
(* response it reads and has not let the caller reuse the sink: returning   *)
(* an error and dropping a Response wait for those copies                   *)
(* (TensorRtLlmRsDeferredCopies, RawResponses::drop).                       *)
ReturnedRetained ==
    \A s \in Streams : \A i \in DOMAIN queue[s] :
        IsReturned(queue[s][i]) =>
            /\ pc[queue[s][i].run] \in {"final", "draining", "held", "dropping"}
            /\ OwnsSource(queue[s][i])

(* An event that is pooled, or held by a run that will record it, has no    *)
(* pending record of an earlier run, and no two runs hold the same event    *)
(* (CudaEventPool, shared by threads).                                      *)
EventsReusable ==
    /\ \A r \in Runs : \A q \in Runs \ {r} : event[r] \cap event[q] = {}
    /\ \A r \in Runs : event[r] \cap eventPool = {}
    /\ \A e \in eventPool : EventComplete(e)
    /\ \A r \in Runs : \A e \in event[r] :
           pc[r] \notin {"held", "dropping"} => EventComplete(e)

(* Once the event of a returned response is complete, so that synchronize   *)
(* returns, no copy of that response is pending.                            *)
EventCovers ==
    \A r \in Runs :
        pc[r] \in {"held", "dropping"} /\ (\A e \in event[r] : EventComplete(e)) =>
            \A s \in Streams : \A i \in DOMAIN queue[s] :
                ~(queue[s][i].run = r /\ IsReturned(queue[s][i]))

(* The last response of the batch that carries x is the i-th.               *)
IsLastCarrier(r, x, i) ==
    /\ x \in batch[r][i]
    /\ \A j \in DOMAIN batch[r] : x \in batch[r][j] => j <= i

(* After synchronize each sink tensor that the returned batch carries holds *)
(* the copy of the last response in it that carries the tensor.             *)
DeliveredLast ==
    \A r \in Runs : pc[r] = "held" /\ synced[r] =>
        \A x \in Names, i \in DOMAIN batch[r] :
            IsLastCarrier(r, x, i) => content[r][x] = Returned(i)

(* After synchronize every tensor of the sink was written by this run: what *)
(* ensure_all_written promises of flags that are set before the copies run. *)
AllWritten ==
    \A r \in Runs : pc[r] = "held" /\ synced[r] =>
        \A x \in Names : content[r][x] # Unset

(* A run returns: a response or an error.                                   *)
RunReturns ==
    \A r \in Runs : (pc[r] \notin {"idle", "held"}) ~> (pc[r] \in {"idle", "held"})

(* No pending copy reads a response that was destroyed: what the handler of *)
(* copy_responses_with_stream drains the stream for                         *)
(* (tensorrt_llm_executor.cpp:1744-1748).                                   *)
SourcesAlive ==
    \A s \in Streams : \A i \in DOMAIN queue[s] :
        LET op == queue[s][i]
        IN  op.names # {} => /\ pc[op.run] \notin {"idle", "prepared", "waiting"}
                             /\ op.batch = batches[op.run]

-----------------------------------------------------------------------------
(* The inductive invariant of the proofs.                                   *)

(* An event is in one place.                                                *)
Owned ==
    /\ \A r \in Runs : \A q \in Runs \ {r} : event[r] \cap event[q] = {}
    /\ \A r \in Runs : event[r] \cap eventPool = {}

SyncedHeld == \A r \in Runs : synced[r] => pc[r] = "held"

(* A pending record is of a response that nobody knows complete.            *)
RecordTracked(op) ==
    op.records # {} => /\ pc[op.run] \in {"held", "dropping"}
                       /\ ~synced[op.run]
                       /\ op.records = event[op.run]

(* A pending copy of a returned batch is followed by the record of its      *)
(* event, unless its run has still to record it or is draining the stream.  *)
CopyTracked(s, i) ==
    LET op == queue[s][i]
    IN  IsReturned(op) =>
          /\ s = StreamOf[op.run]
          /\ OwnsSource(op)
          /\ \/ pc[op.run] = "final" /\ op.value <= Returned(copied[op.run])
             \/ pc[op.run] = "draining"
             \/ /\ pc[op.run] \in {"held", "dropping"}
                /\ \E j \in DOMAIN queue[s] : j > i /\ queue[s][j].records = event[op.run]

Tracked ==
    \A s \in Streams : \A i \in DOMAIN queue[s] :
        RecordTracked(queue[s][i]) /\ CopyTracked(s, i)

IInv == TypeOK /\ Owned /\ SyncedHeld /\ Tracked
=============================================================================
