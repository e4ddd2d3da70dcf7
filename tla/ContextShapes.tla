---------------------------- MODULE ContextShapes ----------------------------
(***************************************************************************)
(* The input shapes of the pooled execution contexts of a `Session`: what  *)
(* TensorRT has applied, what `ExecutionContext::input_shapes` remembers   *)
(* in order to skip the next call, and the output plans `run_plan_cache`   *)
(* derives from them (src/tensorrt/src/session.rs, engine.rs).             *)
(*                                                                         *)
(* Session is single threaded and the host never waits in these calls, so  *)
(* each call is one step; only the end of asynchronous work comes between  *)
(* them, and makes several contexts with different histories circulate.    *)
(***************************************************************************)
EXTENDS Naturals, FiniteSets

CONSTANTS
    Contexts,    (* identities an ExecutionContext can have                  *)
    NumInputs,   (* dynamic inputs of the engine, in the order callers list  *)
    Shapes,      (* shapes a caller may ask for                              *)
    Accepted,    (* the shapes each input accepts, by position               *)
    Unset        (* the shape of an input before the first call sets it      *)

Inputs == 1 .. NumInputs

(* The shapes a call asks for.                                              *)
Requests == [Inputs -> Shapes]

ASSUME InputAssumption ==
    /\ NumInputs \in Nat \ {0}
    /\ Accepted \in [Inputs -> SUBSET Shapes]
    /\ Unset \notin Shapes

VARIABLES
    contextPool,   (* contexts free for reuse                                *)
    away,          (* contexts of work that has not been reclaimed yet       *)
    applied,       (* the input shapes TensorRT holds for each context       *)
    inputShapes,   (* what each context remembers: no or one request         *)
    runPlanCache,  (* the output plan of each request planned so far         *)
    executed       (* the last work enqueued: asked, executed and planned    *)

vars == <<contextPool, away, applied, inputShapes, runPlanCache, executed>>

(* A plan is the output shapes and sizes TensorRT computes from its inputs: *)
(* the shapes it was computed from stand for it.                            *)
AppliedShapes == [Inputs -> Shapes \cup {Unset}]

Executions == [asked : Requests, applied : Requests, plan : Requests]

Fresh == [i \in Inputs |-> Unset]

Init ==
    /\ contextPool = {}
    /\ away = {}
    /\ applied = [c \in Contexts |-> Fresh]
    /\ inputShapes = [c \in Contexts |-> {}]
    /\ runPlanCache = [r \in {} |-> Fresh]
    /\ executed = {}

-----------------------------------------------------------------------------
(* pooled_execution_context: a pooled context keeps the shapes of its last  *)
(* run; only its addresses are cleared.  A new one exists when none is free. *)
Takes(c) ==
    \/ c \in contextPool
    \/ contextPool = {} /\ c \notin away

(* A context that was destroyed or never used starts without shapes.        *)
ShapesOf(c) == IF c \in contextPool THEN applied[c] ELSE Fresh

(* Mutant of RememberedBy: the memory outlives the context, as it would if   *)
(* the session kept it by slot.                                             *)
RememberedBySlot(c) == inputShapes[c]

RememberedBy(c) == IF c \in contextPool THEN inputShapes[c] ELSE {}

(* Mutant of Matches: a context that has any memory is taken to match.      *)
MatchesAny(c, asked) == RememberedBy(c) # {}

(* input_shapes_match, device_input_shapes_match                            *)
Matches(c, asked) == asked \in RememberedBy(c)

(* The inputs whose shape is refused, by validate_tensor_shape or by        *)
(* TensorRT, whose profiles bound it.                                       *)
Refused(asked) == {i \in Inputs : asked[i] \notin Accepted[i]}

(* What the loop over the inputs leaves applied: every input before the     *)
(* first refused one.                                                       *)
AppliedBy(c, asked) ==
    [i \in Inputs |-> IF \E j \in Refused(asked) : j <= i
                      THEN ShapesOf(c)[i] ELSE asked[i]]

(* set_input_shapes_if_needed and set_device_input_shapes_if_needed, when   *)
(* they succeed.                                                            *)
SetShapes(c, asked) ==
    IF Matches(c, asked)
    THEN /\ applied' = [applied EXCEPT ![c] = ShapesOf(c)]
         /\ inputShapes' = [inputShapes EXCEPT ![c] = RememberedBy(c)]
    ELSE /\ Refused(asked) = {}
         /\ applied' = [applied EXCEPT ![c] = AppliedBy(c, asked)]
         /\ inputShapes' = [inputShapes EXCEPT ![c] = {asked}]

(* Mutant of Plan: the output shapes are read before the input shapes are   *)
(* set.                                                                     *)
PlanBeforeShapes(c, asked) ==
    IF asked \in DOMAIN runPlanCache THEN runPlanCache[asked] ELSE ShapesOf(c)

(* The output plan of this call, from the cache or from the shapes the      *)
(* context holds after they were set.                                       *)
Plan(c, asked) ==
    IF asked \in DOMAIN runPlanCache THEN runPlanCache[asked] ELSE applied'[c]

(* cached_device_output_plan stores the plan of a request it did not know.  *)
PlanCached(c, asked) ==
    runPlanCache' = [r \in DOMAIN runPlanCache \cup {asked} |->
                        IF r = asked THEN Plan(c, asked) ELSE runPlanCache[r]]

-----------------------------------------------------------------------------
(* Session::run enqueues and leaves the context with the work.              *)
Run(asked, c) ==
    /\ Takes(c)
    /\ SetShapes(c, asked)
    /\ PlanCached(c, asked)
    /\ contextPool' = contextPool \ {c}
    /\ away' = away \cup {c}
    /\ executed' = {[asked |-> asked, applied |-> applied'[c], plan |-> Plan(c, asked)]}

(* Session::run ends with an error after the plan: an output that does not  *)
(* fit it, an alias, no event.                                              *)
RunRejected(asked, c) ==
    /\ Takes(c)
    /\ SetShapes(c, asked)
    /\ PlanCached(c, asked)
    /\ contextPool' = contextPool \cup {c}
    /\ UNCHANGED <<away, executed>>

(* run_host, run_to_device and run_mixed_to_device take the output shapes   *)
(* from the context and return it when the stream is drained.               *)
RunHost(asked, c) ==
    /\ Takes(c)
    /\ SetShapes(c, asked)
    /\ contextPool' = contextPool \cup {c}
    /\ executed' = {[asked |-> asked, applied |-> applied'[c], plan |-> applied'[c]]}
    /\ UNCHANGED <<away, runPlanCache>>

(* infer_shapes, or a host run that ends before it enqueues.                *)
InferShapes(asked, c) ==
    /\ Takes(c)
    /\ SetShapes(c, asked)
    /\ contextPool' = contextPool \cup {c}
    /\ UNCHANGED <<away, runPlanCache, executed>>

(* A shape is refused: the call returns the error, the shapes before it     *)
(* stay applied, the memory stays as it was, the context goes to the pool.  *)
ShapeRefused(asked, c) ==
    /\ Takes(c)
    /\ ~Matches(c, asked)
    /\ Refused(asked) # {}
    /\ applied' = [applied EXCEPT ![c] = AppliedBy(c, asked)]
    /\ inputShapes' = [inputShapes EXCEPT ![c] = RememberedBy(c)]
    /\ contextPool' = contextPool \cup {c}
    /\ UNCHANGED <<away, runPlanCache, executed>>

(* The work of an earlier run is complete and its context reclaimed.        *)
Reclaimed(c) ==
    /\ c \in away
    /\ away' = away \ {c}
    /\ contextPool' = contextPool \cup {c}
    /\ UNCHANGED <<applied, inputShapes, runPlanCache, executed>>

(* A context is destroyed: clearing its addresses failed, or its cached     *)
(* graph was evicted.                                                       *)
Destroyed(c) ==
    /\ c \in contextPool \cup away
    /\ contextPool' = contextPool \ {c}
    /\ away' = away \ {c}
    /\ UNCHANGED <<applied, inputShapes, runPlanCache, executed>>

Next ==
    \E c \in Contexts :
        \/ \E asked \in Requests :
              \/ Run(asked, c) \/ RunRejected(asked, c) \/ RunHost(asked, c)
              \/ InferShapes(asked, c) \/ ShapeRefused(asked, c)
        \/ Reclaimed(c)
        \/ Destroyed(c)

Spec == Init /\ [][Next]_vars

-----------------------------------------------------------------------------
(* The type of every variable; nothing executes with a shape never set.     *)
TypeOK ==
    /\ contextPool \subseteq Contexts
    /\ away \subseteq Contexts
    /\ applied \in [Contexts -> AppliedShapes]
    /\ inputShapes \in [Contexts -> SUBSET Requests]
    /\ DOMAIN runPlanCache \subseteq Requests
    /\ runPlanCache \in [DOMAIN runPlanCache -> AppliedShapes]
    /\ executed \subseteq Executions

(* TensorRT executes with the shapes the caller asked for: "All required    *)
(* tensor addresses and dynamic input shapes must be set before enqueueing" *)
(* (engine.rs, enqueue_v3), on whichever pooled context, whatever it ran    *)
(* before.                                                                  *)
ExecutedAsAsked == \A x \in executed : x.applied = x.asked

(* The outputs are sized for the shapes asked for: neither the plan in use  *)
(* nor a cached one was computed from another call's shapes.                *)
PlannedAsAsked ==
    /\ \A x \in executed : x.plan = x.asked
    /\ \A r \in DOMAIN runPlanCache : runPlanCache[r] = r

(* What a live context remembers is what TensorRT holds for it: the reason  *)
(* both properties above hold.                                              *)
MemoryAccurate ==
    \A c \in contextPool \cup away :
        \A r \in inputShapes[c] : applied[c] = r

(* A shape can be refused only at the first input, where nothing has been   *)
(* applied yet.                                                             *)
RefusedFirst == \A i \in Inputs \ {1} : Accepted[i] = Shapes
=============================================================================
