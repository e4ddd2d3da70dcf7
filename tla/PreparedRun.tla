----------------------------- MODULE PreparedRun -----------------------------
(***************************************************************************)
(* `PreparedDeviceSession` and `PreparedMixedDeviceSession`: one execution *)
(* context with fixed shapes, run again and again on streams the caller    *)
(* chooses (src/tensorrt/src/prepared.rs).                                 *)
(*                                                                         *)
(* The session is borrowed mutably by a call and by the in-flight guard    *)
(* the call returns, so the host is one process; the GPU completes the     *)
(* head of any stream between two host steps.  A session without staged    *)
(* inputs is a PreparedDeviceSession.                                      *)
(***************************************************************************)
EXTENDS Naturals, Sequences

CONSTANTS
    Streams,    (* streams the caller passes                                 *)
    Values,     (* contents of host bytes, and identities of device memory   *)
    N,          (* bindings, in the order they are set: inputs, then outputs *)
    Staged,     (* the inputs of kind HostToDevice                           *)
    Faulty,     (* operations that may fail                                  *)
    Careful,    (* the caller changes streams only when nothing is pending   *)
    MaxQueued,  (* model bound: operations on a stream when a call begins    *)
    None,       (* nothing yet                                               *)
    Buffer      (* the address of a binding's staging buffer                 *)

ASSUME PreparedAssumption ==
    /\ N \in Nat
    /\ Staged \subseteq 1 .. N
    /\ Faulty \subseteq {"copy", "address", "launch"}
    /\ Careful \in BOOLEAN
    /\ MaxQueued \in Nat
    /\ None \notin Values \cup {Buffer}
    /\ Buffer \notin Values
    /\ None \notin Streams

VARIABLES
    pc,       (* where the host is                                           *)
    call,     (* the arguments of the call in progress, or of its guard      *)
    next,     (* the binding prepare_mixed_input_pointers has reached        *)
    bound,    (* the tensor addresses the context holds                      *)
    staging,  (* what the staging buffers hold                               *)
    queue     (* operations each stream has not completed                    *)

vars == <<pc, call, next, bound, staging, queue>>

Asked == [1 .. N -> Values]

Addresses == [1 .. N -> Values \cup {None, Buffer}]

(* A call: its stream, the bytes and pointers it binds, and whether it waits *)
(* before it returns (run_device, run_mixed_to_device).                      *)
Calls == [stream : Streams, asked : Asked, waits : BOOLEAN]

NoCall == [stream |-> None, asked |-> None, waits |-> FALSE]

(* A stream operation: the copy of host bytes into staging buffers, or an   *)
(* inference with the addresses bound when it was enqueued.                 *)
Ops == [asked : Asked, to : SUBSET Staged, bound : SUBSET Addresses]

Copy(i) == [asked |-> call.asked, to |-> {i}, bound |-> {}]

Inference == [asked |-> call.asked, to |-> {}, bound |-> {bound}]

Enqueue(op) == queue' = [queue EXCEPT ![call.stream] = Append(@, op)]

Drained(s) == queue[s] = <<>>

(* PreparedMixedDeviceSession::new: the buffers are allocated, not written. *)
Init ==
    /\ pc = "idle"
    /\ call = NoCall
    /\ next = 1
    /\ bound = [i \in 1 .. N |-> None]
    /\ staging = [i \in Staged |-> None]
    /\ queue = [s \in Streams |-> <<>>]

-----------------------------------------------------------------------------
(* The GPU completes the head of a stream.                                  *)
GpuStep(s) ==
    /\ queue[s] # <<>>
    /\ LET op == Head(queue[s])
       IN  staging' = [i \in Staged |->
                          IF i \in op.to THEN op.asked[i] ELSE staging[i]]
    /\ queue' = [queue EXCEPT ![s] = Tail(@)]
    /\ UNCHANGED <<pc, call, next, bound>>

(* A call whose bindings are valid; one whose bindings are refused changes  *)
(* nothing.                                                                 *)
Begin(c) ==
    /\ pc = "idle"
    /\ \A s \in Streams : Len(queue[s]) <= MaxQueued
    /\ Careful => \A s \in Streams \ {c.stream} : Drained(s)
    /\ pc' = "staging"
    /\ call' = c
    /\ next' = 1
    /\ UNCHANGED <<bound, staging, queue>>

(* The call is over, and so is the guard's borrow of the session.           *)
Return ==
    /\ pc' = "idle"
    /\ call' = NoCall
    /\ next' = 1

(* Mutant of StageInput: every binding is staged, whatever its kind.        *)
StageEveryInput ==
    /\ pc = "staging"
    /\ next <= N
    /\ Enqueue(Copy(next))
    /\ next' = next + 1
    /\ UNCHANGED <<pc, call, bound, staging>>

(* One iteration of prepare_mixed_input_pointers.                           *)
StageInput ==
    /\ pc = "staging"
    /\ next <= N
    /\ IF next \in Staged THEN Enqueue(Copy(next)) ELSE UNCHANGED queue
    /\ next' = next + 1
    /\ UNCHANGED <<pc, call, bound, staging>>

(* cudaMemcpyAsync fails: the error is returned, copies already enqueued    *)
(* stay on the stream.                                                      *)
StageFails ==
    /\ pc = "staging"
    /\ next \in Staged
    /\ "copy" \in Faulty
    /\ Return
    /\ UNCHANGED <<bound, staging, queue>>

(* The address a call binds to binding i.                                   *)
Address(i) == IF i \in Staged THEN Buffer ELSE call.asked[i]

(* Mutant of BoundUpTo: an address that was set before is taken as still    *)
(* right.                                                                   *)
BoundOnce(n) == [i \in 1 .. N |-> IF i <= n /\ bound[i] = None THEN Address(i) ELSE bound[i]]

(* The context's addresses after the first n calls of set_tensor_address.   *)
BoundUpTo(n) == [i \in 1 .. N |-> IF i <= n THEN Address(i) ELSE bound[i]]

SetAddresses ==
    /\ pc = "staging"
    /\ next > N
    /\ bound' = BoundUpTo(N)
    /\ pc' = "bound"
    /\ UNCHANGED <<call, next, staging, queue>>

(* set_tensor_address fails for a binding: the addresses before it are set. *)
SetAddressFails ==
    /\ pc = "staging"
    /\ next > N
    /\ "address" \in Faulty
    /\ \E n \in 0 .. N - 1 : bound' = BoundUpTo(n)
    /\ Return
    /\ UNCHANGED <<staging, queue>>

(* enqueue_v3; the guard exists from here on.                               *)
Launch ==
    /\ pc = "bound"
    /\ Enqueue(Inference)
    /\ pc' = "guarded"
    /\ UNCHANGED <<call, next, bound, staging>>

LaunchFails ==
    /\ pc = "bound"
    /\ "launch" \in Faulty
    /\ Return
    /\ UNCHANGED <<bound, staging, queue>>

-----------------------------------------------------------------------------
(* PreparedEnqueuedInference::synchronize, by the caller or by a run that   *)
(* waits.                                                                   *)
Synchronize ==
    /\ pc = "guarded"
    /\ Drained(call.stream)
    /\ Return
    /\ UNCHANGED <<bound, staging, queue>>

(* Mutant of SynchronizeFails: the guard is defused before the error is     *)
(* known.                                                                   *)
SynchronizeFailsDefused ==
    /\ pc = "guarded"
    /\ Return
    /\ UNCHANGED <<bound, staging, queue>>

(* Mutant of SynchronizeFails: the inference is launched again, until a     *)
(* wait succeeds.                                                           *)
SynchronizeFailsRelaunched ==
    /\ pc = "guarded"
    /\ Drained(call.stream)
    /\ pc' = "bound"
    /\ UNCHANGED <<call, next, bound, staging, queue>>

(* The wait is an error: the guard is dropped with synchronized unset.      *)
SynchronizeFails ==
    /\ pc = "guarded"
    /\ pc' = "failing"
    /\ UNCHANGED <<call, next, bound, staging, queue>>

(* PreparedEnqueuedInference::drop waits; a wait that fails here too means  *)
(* that the device is lost, and nothing runs on it any more.                *)
DropGuard ==
    /\ pc \in {"guarded", "failing"}
    /\ pc = "guarded" => ~call.waits
    /\ Drained(call.stream)
    /\ Return
    /\ UNCHANGED <<bound, staging, queue>>

(* assume_synchronized: its caller guarantees that the work is over.        *)
AssumeSynchronized ==
    /\ pc = "guarded"
    /\ ~call.waits
    /\ Drained(call.stream)
    /\ Return
    /\ UNCHANGED <<bound, staging, queue>>

(* The session is dropped, and its context with it, first of its fields:    *)
(* nothing waits for what may be pending.                                   *)
DropSession ==
    /\ pc = "idle"
    /\ pc' = "dropping"
    /\ UNCHANGED <<call, next, bound, staging, queue>>

(* Then the staging buffers are dropped; cudaFree waits for the device.     *)
FreeStaging ==
    /\ pc = "dropping"
    /\ Staged # {} => \A s \in Streams : Drained(s)
    /\ pc' = "dropped"
    /\ UNCHANGED <<call, next, bound, staging, queue>>

-----------------------------------------------------------------------------
FailureStep == StageFails \/ SetAddressFails \/ LaunchFails \/ SynchronizeFails

(* What the host does inside a call, or when it drops a failed guard or the *)
(* session.                                                                 *)
HostStep ==
    \/ StageInput \/ SetAddresses \/ Launch \/ FailureStep
    \/ call.waits /\ Synchronize
    \/ pc = "failing" /\ DropGuard
    \/ FreeStaging

CallerStep ==
    \/ \E c \in Calls : Begin(c)
    \/ Synchronize \/ DropGuard \/ AssumeSynchronized \/ DropSession

Next ==
    \/ \E s \in Streams : GpuStep(s)
    \/ HostStep
    \/ CallerStep

Spec == Init /\ [][Next]_vars

(* The GPU makes progress, and so does the host inside a call.              *)
FairSpec ==
    /\ Spec
    /\ \A s \in Streams : WF_vars(GpuStep(s))
    /\ WF_vars(HostStep)

-----------------------------------------------------------------------------
(* The type of every variable; a call is there in its steps only, and a     *)
(* copy goes only to staging buffers that exist.                            *)
TypeOK ==
    /\ pc \in {"idle", "staging", "bound", "guarded", "failing", "dropping",
              "dropped"}
    /\ pc \in {"idle", "dropping", "dropped"} => call = NoCall
    /\ pc \notin {"idle", "dropping", "dropped"} => call \in Calls
    /\ next \in 1 .. N + 1
    /\ bound \in Addresses
    /\ staging \in [Staged -> Values \cup {None}]
    /\ queue \in [Streams -> Seq(Ops)]

(* No call is under way, and there is no guard.                             *)
Free == pc \in {"idle", "dropping", "dropped"}

(* What binding i of an inference reads (or writes) through addresses b.    *)
Accessed(b, i) == IF b[i] = Buffer THEN staging[i] ELSE b[i]

(* As long as an inference is at the head of its stream, so that it may be  *)
(* executing, it finds at every binding what its call asked for: the        *)
(* staging buffers and addresses that the calls of a session share are not  *)
(* those of an earlier or a later call.                                     *)
ExecutesAsAsked ==
    \A s \in Streams : queue[s] # <<>> =>
        \A b \in Head(queue[s]).bound : \A i \in 1 .. N :
            Accessed(b, i) = Head(queue[s]).asked[i]

(* The context is not reused, nor destroyed, while an inference launched    *)
(* from it is in flight, whether the guard was synchronized, dropped,       *)
(* failed, or was never made.                                               *)
ContextIdleWhenFree ==
    Free => \A s \in Streams : \A j \in DOMAIN queue[s] : queue[s][j].bound = {}

(* Nothing a call enqueued is pending once the call has ended without a     *)
(* guard, or its guard is gone.                                             *)
IdleWhenFree == Free => \A s \in Streams : Drained(s)

(* A run that waits returns.                                                *)
RunReturns == call.waits ~> pc = "idle"

-----------------------------------------------------------------------------
(* The strengthening.  A wait that a call may rely on: callers that change  *)
(* streams only when nothing is pending, or no failure.                     *)
Orderly == Careful \/ Faulty = {}

(* Every operation is a copy to a staging buffer, or the inference of the   *)
(* guard, which is the last operation of its stream.                        *)
OpShape(s, j) ==
    LET op == queue[s][j]
    IN  /\ op.bound = {} => op.to # {}
        /\ op.bound # {} => /\ pc \in {"guarded", "failing"}
                           /\ s = call.stream
                           /\ j = Len(queue[s])
                           /\ op.to = {}
                           /\ op.asked = call.asked
                           /\ op.bound = {bound}

QueueShape == \A s \in Streams : \A j \in DOMAIN queue[s] : OpShape(s, j)

(* A call has set its addresses before it launches.                         *)
AddressesSet ==
    pc \in {"bound", "guarded", "failing"} => \A i \in 1 .. N : bound[i] = Address(i)

(* Once q has been carried out, buffer i holds v: the last copy to it       *)
(* brings v, or there is none and v is there already.                       *)
Settles(q, i, v) ==
    \/ /\ staging[i] = v
       /\ \A j \in DOMAIN q : i \notin q[j].to
    \/ \E j \in DOMAIN q :
          /\ i \in q[j].to /\ q[j].asked[i] = v
          /\ \A k \in DOMAIN q : k > j => i \notin q[k].to

Reached(i) == IF pc = "staging" THEN i < next ELSE TRUE

BuffersSettle ==
    ~Free => \A i \in Staged :
        Reached(i) => Settles(queue[call.stream], i, call.asked[i])

OtherStreamsDrained == ~Free => \A s \in Streams \ {call.stream} : Drained(s)

IInv ==
    /\ TypeOK
    /\ QueueShape
    /\ AddressesSet
    /\ Orderly => OtherStreamsDrained /\ BuffersSettle
    /\ Faulty = {} => IdleWhenFree
=============================================================================
