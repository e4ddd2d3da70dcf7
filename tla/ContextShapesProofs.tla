------------------------- MODULE ContextShapesProofs -------------------------
(***************************************************************************)
(* Proofs about ContextShapes: as long as a shape can only be refused at   *)
(* the first input, every execution and every plan has the shapes asked    *)
(* for, for any number of contexts, inputs and shapes.                     *)
(***************************************************************************)
EXTENDS ContextShapes, TLAPS

(* The inductive invariant: types, accurate memory, and the two properties. *)
IInv == TypeOK /\ MemoryAccurate /\ ExecutedAsAsked /\ PlannedAsAsked

(* What a taken context brings along is typed and accurate.                 *)
LEMMA TakenAccurate ==
    ASSUME IInv, NEW c \in Contexts, Takes(c)
    PROVE  /\ ShapesOf(c) \in AppliedShapes
           /\ RememberedBy(c) \in SUBSET Requests
           /\ \A r \in RememberedBy(c) : ShapesOf(c) = r
BY DEF IInv, TypeOK, MemoryAccurate, Takes, ShapesOf, RememberedBy, Fresh, AppliedShapes

(* After the shapes of a call are set, TensorRT holds what was asked for    *)
(* and the context remembers nothing else.                                  *)
LEMMA SetAsAsked ==
    ASSUME IInv, NEW c \in Contexts, NEW asked \in Requests, Takes(c),
           SetShapes(c, asked)
    PROVE  /\ applied'[c] = asked
           /\ \A r \in inputShapes'[c] : r = asked
           /\ applied' \in [Contexts -> AppliedShapes]
           /\ inputShapes' \in [Contexts -> SUBSET Requests]
           /\ \A d \in Contexts \ {c} :
                 applied'[d] = applied[d] /\ inputShapes'[d] = inputShapes[d]
<1>1. asked \in AppliedShapes
  BY DEF Requests, AppliedShapes
<1>2. CASE Matches(c, asked)
  <2>1. ShapesOf(c) = asked
    BY <1>2, TakenAccurate DEF Matches
  <2>2. \A r \in RememberedBy(c) : r = asked
    BY <2>1, TakenAccurate
  <2>3. /\ applied' = [applied EXCEPT ![c] = ShapesOf(c)]
        /\ inputShapes' = [inputShapes EXCEPT ![c] = RememberedBy(c)]
    BY <1>2 DEF SetShapes
  <2> QED BY <1>1, <2>1, <2>2, <2>3, TakenAccurate DEF IInv, TypeOK
<1>3. CASE ~Matches(c, asked)
  <2>1. /\ Refused(asked) = {}
        /\ applied' = [applied EXCEPT ![c] = AppliedBy(c, asked)]
        /\ inputShapes' = [inputShapes EXCEPT ![c] = {asked}]
    BY <1>3 DEF SetShapes
  <2>2. AppliedBy(c, asked) = asked
    BY <2>1 DEF AppliedBy, Requests
  <2> QED BY <1>1, <2>1, <2>2 DEF IInv, TypeOK
<1> QED BY <1>2, <1>3

(* The memory stays accurate when one call's context is set and goes to the *)
(* pool or away with its work.                                              *)
LEMMA MemoryKept ==
    ASSUME IInv, NEW c \in Contexts, NEW asked \in Requests, Takes(c),
           SetShapes(c, asked),
           contextPool' \cup away' \subseteq contextPool \cup away \cup {c}
    PROVE  MemoryAccurate'
BY SetAsAsked DEF IInv, TypeOK, MemoryAccurate

(* The plan a call uses was computed from the shapes it asked for.          *)
LEMMA PlanAsAsked ==
    ASSUME IInv, NEW c \in Contexts, NEW asked \in Requests, Takes(c),
           SetShapes(c, asked)
    PROVE  Plan(c, asked) = asked
<1>1. CASE asked \in DOMAIN runPlanCache
  BY <1>1 DEF Plan, IInv, PlannedAsAsked
<1>2. CASE asked \notin DOMAIN runPlanCache
  BY <1>2, SetAsAsked DEF Plan
<1> QED BY <1>1, <1>2

LEMMA PlanCacheKept ==
    ASSUME IInv, NEW c \in Contexts, NEW asked \in Requests, Takes(c),
           SetShapes(c, asked), PlanCached(c, asked)
    PROVE  /\ DOMAIN runPlanCache' \subseteq Requests
           /\ runPlanCache' \in [DOMAIN runPlanCache' -> AppliedShapes]
           /\ \A r \in DOMAIN runPlanCache' : runPlanCache'[r] = r
<1>1. \A r \in DOMAIN runPlanCache' : runPlanCache'[r] = r
  BY PlanAsAsked DEF PlanCached, IInv, PlannedAsAsked
<1>2. DOMAIN runPlanCache' = DOMAIN runPlanCache \cup {asked}
  BY DEF PlanCached
<1>3. DOMAIN runPlanCache' \subseteq Requests
  BY <1>2 DEF IInv, TypeOK
<1>4. Requests \subseteq AppliedShapes
  BY DEF Requests, AppliedShapes
<1>5. runPlanCache' = [r \in DOMAIN runPlanCache' |-> runPlanCache'[r]]
  BY DEF PlanCached
<1> QED BY <1>1, <1>3, <1>4, <1>5

(* A context that goes where TypeOK wants it.                               *)
LEMMA ExecutionTyped ==
    ASSUME NEW asked \in Requests
    PROVE  [asked |-> asked, applied |-> asked, plan |-> asked] \in Executions
BY DEF Executions

(* Every execution and every plan, cached or in use, has the shapes asked   *)
(* for, whatever the pooled contexts ran before -- if a refused shape is    *)
(* always the first one the loop sets.                                      *)
THEOREM ShapesAsAsked ==
    ASSUME RefusedFirst
    PROVE  Spec => [](ExecutedAsAsked /\ PlannedAsAsked)
<1>1. Init => IInv
  BY DEF Init, IInv, TypeOK, MemoryAccurate, ExecutedAsAsked, PlannedAsAsked, Fresh,
     AppliedShapes
<1>2. IInv /\ [Next]_vars => IInv'
  <2> SUFFICES ASSUME IInv, [Next]_vars PROVE IInv'
    OBVIOUS
  <2>1. ASSUME NEW c \in Contexts, NEW asked \in Requests, Run(asked, c)
        PROVE  IInv'
    <3>1. Takes(c) /\ SetShapes(c, asked) /\ PlanCached(c, asked)
      BY <2>1 DEF Run
    <3>2. executed' = {[asked |-> asked, applied |-> asked, plan |-> asked]}
      BY <2>1, <3>1, SetAsAsked, PlanAsAsked DEF Run
    <3>3. contextPool' = contextPool \ {c} /\ away' = away \cup {c}
      BY <2>1 DEF Run
    <3>4. TypeOK'
      BY <3>1, <3>2, <3>3, SetAsAsked, PlanCacheKept, ExecutionTyped DEF IInv, TypeOK
    <3>5. MemoryAccurate'
      BY <3>1, <3>3, MemoryKept
    <3>6. ExecutedAsAsked' /\ PlannedAsAsked'
      BY <3>1, <3>2, PlanCacheKept DEF ExecutedAsAsked, PlannedAsAsked
    <3> QED BY <3>4, <3>5, <3>6 DEF IInv
  <2>2. ASSUME NEW c \in Contexts, NEW asked \in Requests, RunRejected(asked, c)
        PROVE  IInv'
    <3>1. /\ Takes(c) /\ SetShapes(c, asked) /\ PlanCached(c, asked)
          /\ contextPool' = contextPool \cup {c} /\ UNCHANGED <<away, executed>>
      BY <2>2 DEF RunRejected
    <3>2. TypeOK'
      BY <3>1, SetAsAsked, PlanCacheKept DEF IInv, TypeOK
    <3>3. MemoryAccurate'
      BY <3>1, MemoryKept
    <3>4. ExecutedAsAsked' /\ PlannedAsAsked'
      BY <3>1, PlanCacheKept DEF IInv, ExecutedAsAsked, PlannedAsAsked
    <3> QED BY <3>2, <3>3, <3>4 DEF IInv
  <2>3. ASSUME NEW c \in Contexts, NEW asked \in Requests, RunHost(asked, c)
        PROVE  IInv'
    <3>1. /\ Takes(c) /\ SetShapes(c, asked)
          /\ contextPool' = contextPool \cup {c} /\ UNCHANGED <<away, runPlanCache>>
      BY <2>3 DEF RunHost
    <3>2. executed' = {[asked |-> asked, applied |-> asked, plan |-> asked]}
      BY <2>3, <3>1, SetAsAsked DEF RunHost
    <3>3. TypeOK'
      BY <3>1, <3>2, SetAsAsked, ExecutionTyped DEF IInv, TypeOK
    <3>4. MemoryAccurate'
      BY <3>1, MemoryKept
    <3>5. ExecutedAsAsked' /\ PlannedAsAsked'
      BY <3>1, <3>2 DEF IInv, ExecutedAsAsked, PlannedAsAsked
    <3> QED BY <3>3, <3>4, <3>5 DEF IInv
  <2>4. ASSUME NEW c \in Contexts, NEW asked \in Requests, InferShapes(asked, c)
        PROVE  IInv'
    <3>1. /\ Takes(c) /\ SetShapes(c, asked) /\ contextPool' = contextPool \cup {c}
          /\ UNCHANGED <<away, runPlanCache, executed>>
      BY <2>4 DEF InferShapes
    <3>2. TypeOK'
      BY <3>1, SetAsAsked DEF IInv, TypeOK
    <3>3. MemoryAccurate'
      BY <3>1, MemoryKept
    <3> QED BY <3>1, <3>2, <3>3 DEF IInv, ExecutedAsAsked, PlannedAsAsked
  <2>5. ASSUME NEW c \in Contexts, NEW asked \in Requests, ShapeRefused(asked, c)
        PROVE  IInv'
    <3>1. /\ Takes(c)
          /\ Refused(asked) # {}
          /\ applied' = [applied EXCEPT ![c] = AppliedBy(c, asked)]
          /\ inputShapes' = [inputShapes EXCEPT ![c] = RememberedBy(c)]
          /\ contextPool' = contextPool \cup {c}
          /\ UNCHANGED <<away, runPlanCache, executed>>
      BY <2>5 DEF ShapeRefused
    <3>2. 1 \in Refused(asked)
      BY <3>1 DEF Refused, RefusedFirst, Requests
    <3>3. \A i \in Inputs : 1 <= i
      BY InputAssumption DEF Inputs
    <3>4. AppliedBy(c, asked) = ShapesOf(c)
      BY <3>1, <3>2, <3>3, TakenAccurate DEF AppliedBy, AppliedShapes
    <3>5. TypeOK'
      BY <3>1, <3>4, TakenAccurate DEF IInv, TypeOK
    <3>6. MemoryAccurate'
      BY <3>1, <3>4, TakenAccurate DEF IInv, TypeOK, MemoryAccurate
    <3> QED BY <3>1, <3>5, <3>6 DEF IInv, ExecutedAsAsked, PlannedAsAsked
  <2>6. ASSUME NEW c \in Contexts, Reclaimed(c) \/ Destroyed(c)
        PROVE  IInv'
    BY <2>6 DEF Reclaimed, Destroyed, IInv, TypeOK, MemoryAccurate, ExecutedAsAsked,
       PlannedAsAsked
  <2>7. CASE UNCHANGED vars
    BY <2>7 DEF vars, IInv, TypeOK, MemoryAccurate, ExecutedAsAsked, PlannedAsAsked
  <2> QED BY <2>1, <2>2, <2>3, <2>4, <2>5, <2>6, <2>7 DEF Next
<1>3. IInv => ExecutedAsAsked /\ PlannedAsAsked
  BY DEF IInv
<1> QED BY <1>1, <1>2, <1>3, PTL DEF Spec

(* No call sizes its outputs by another call's shapes: neither a plan in    *)
(* use nor a cached one was computed on a context whose shapes were left    *)
(* from an earlier request -- if a refused shape is always the first one.   *)
THEOREM PlansAsAsked ==
    ASSUME RefusedFirst
    PROVE  Spec => []PlannedAsAsked
BY ShapesAsAsked, PTL
=============================================================================
