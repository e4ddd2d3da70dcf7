-------------------------- MODULE SessionRunProofs --------------------------
(***************************************************************************)
(* Proofs about SessionRun for every value of its constants.               *)
(***************************************************************************)
EXTENDS SessionRun, FiniteSetTheorems, TLAPS

(* What a step that only touches the host's sets keeps typed.               *)
LEMMA WorkTyped ==
    ASSUME NEW c \in Contexts, NEW T \in SUBSET Tensors
    PROVE  Work(c, T) \in Ops
BY DEF Work, Ops

LEMMA RecordTyped ==
    ASSUME NEW e \in Events
    PROVE  Record(e) \in Ops
BY DEF Record, Ops

LEMMA EnqueueTyped ==
    ASSUME queue \in [Streams -> Seq(Ops)], NEW s \in Streams, NEW op \in Ops,
           Enqueue(s, op)
    PROVE  queue' \in [Streams -> Seq(Ops)]
BY DEF Enqueue

LEMMA BackedOffTyped ==
    ASSUME TypeOK, NEW k \in Keys
    PROVE  BackedOff(k) \in Backoffs
BY BoundAssumption DEF TypeOK, BackedOff, Backoffs, Doubled

(* A path to a plain enqueue keeps the back-off table typed.                *)
LEMMA PlainPathTyped ==
    ASSUME TypeOK, NEW k \in Keys, PlainPath(k)
    PROVE  /\ DOMAIN cudaGraphBackoff' \subseteq Keys
           /\ cudaGraphBackoff' \in [DOMAIN cudaGraphBackoff' -> Backoffs]
<1>1. CASE GraphsBusy(k)
  BY <1>1 DEF GraphsBusy, TypeOK
<1>2. CASE CapturePostponed(k)
  <2> DEFINE b == cudaGraphBackoff[k]
  <2>1. b \in Backoffs /\ b.remaining_runs # 0 /\ k \in DOMAIN cudaGraphBackoff
    BY <1>2 DEF CapturePostponed, SkipsCapture, TypeOK
  <2>2. [b EXCEPT !.remaining_runs = @ - 1] \in Backoffs
    BY <2>1 DEF Backoffs
  <2>3. cudaGraphBackoff' =
          [cudaGraphBackoff EXCEPT ![k] = [b EXCEPT !.remaining_runs = @ - 1]]
    BY <1>2 DEF CapturePostponed
  <2> QED BY <2>2, <2>3 DEF TypeOK
<1>3. CASE CaptureFailed(k)
  BY <1>3, BackedOffTyped DEF CaptureFailed, TypeOK
<1> QED BY <1>1, <1>2, <1>3 DEF PlainPath

LEMMA ClearBackoffTyped ==
    ASSUME TypeOK, NEW k \in Keys, ClearBackoff(k)
    PROVE  /\ DOMAIN cudaGraphBackoff' \subseteq Keys
           /\ cudaGraphBackoff' \in [DOMAIN cudaGraphBackoff' -> Backoffs]
BY DEF ClearBackoff, TypeOK

(* A reclaim keeps the three sets it touches typed.                         *)
LEMMA ReclaimTyped ==
    ASSUME TypeOK, NEW C \in SUBSET inFlightContexts,
           NEW G \in SUBSET inFlightGraphs, Reclaim(C, G)
    PROVE  /\ inFlightContexts' \subseteq InFlightContext
           /\ inFlightGraphs' \subseteq InFlightGraph
           /\ eventPool' \subseteq Events
           /\ PoolAfterReclaim(C) \subseteq Contexts
BY DEF Reclaim, TypeOK, InFlightContext, InFlightGraph, PoolAfterReclaim

LEMMA NoRunTyped == NoRun \in Runs
BY DEF NoRun, Runs

LEMMA CallTyped ==
    ASSUME NEW k \in Keys, NEW C \in SUBSET Contexts, NEW E \in SUBSET Events,
           NEW G \in SUBSET Graphs
    PROVE  Call(k, C, E, G) \in Runs
BY DEF Call, Runs

LEMMA DoneInFlight == DoneContexts \subseteq inFlightContexts /\ DoneGraphs \subseteq inFlightGraphs
BY DEF DoneContexts, DoneGraphs

(* No step breaks the types.                                                *)
LEMMA TypeStep ==
    ASSUME TypeOK, [Next]_vars
    PROVE  TypeOK'
<1> USE DEF TypeOK
<1>1. ASSUME NEW s \in Streams, NEW b \in Bindings,
             Acquire([stream |-> s, binding |-> b])
      PROVE  TypeOK'
  <2> DEFINE k == [stream |-> s, binding |-> b]
  <2>1. k \in Keys
    BY BindingAssumption DEF Keys
  <2> HIDE DEF k
  <2>2. PICK c \in Contexts :
            /\ contextPool' = PoolAfterReclaim(DoneContexts) \ {c}
            /\ run' = Call(k, {c}, {}, {})
    BY <1>1 DEF Acquire, k
  <2>3. Reclaim(DoneContexts, DoneGraphs) /\ pc' = "acquired"
        /\ UNCHANGED <<cudaGraphCache, cudaGraphBackoff, queue>>
    BY <1>1 DEF Acquire
  <2> QED BY <2>1, <2>2, <2>3, DoneInFlight, CallTyped, ReclaimTyped
<1>2. CASE AcquireFails
  BY <1>2, DoneInFlight, ReclaimTyped DEF AcquireFails
<1>3. CASE ReclaimContextsFails
  BY <1>3, DoneInFlight DEF ReclaimContextsFails
<1>4. CASE ReclaimGraphsFails
  BY <1>4, DoneInFlight DEF ReclaimGraphsFails, PoolAfterReclaim, InFlightContext
<1>5. CASE ReleaseContext
  BY <1>5, NoRunTyped DEF ReleaseContext, Runs
<1>6. CASE HostEnqueue
  BY <1>6, WorkTyped, EnqueueTyped DEF HostEnqueue, Runs, Keys
<1>7. CASE HostSynchronize
  BY <1>7, NoRunTyped DEF HostSynchronize, Runs
<1>8. CASE CompletionEvent
  <2>1. PICK k \in run.key, e \in Events :
          /\ eventPool' = eventPool \ {e}
          /\ run' = Call(k, run.context, {e}, {})
    BY <1>8 DEF CompletionEvent
  <2>2. k \in Keys /\ run.context \subseteq Contexts
    BY DEF Runs
  <2>3. run' \in Runs
    BY <2>1, <2>2, CallTyped
  <2> QED BY <1>8, <2>1, <2>3 DEF CompletionEvent
<1>9. CASE DispatchFails
  BY <1>9, NoRunTyped, DoneInFlight DEF DispatchFails, Runs
<1>10. CASE ReplayCached
  <2>1. PICK k \in run.key :
          /\ k \in DOMAIN cudaGraphCache
          /\ Launch(cudaGraphCache[k], k.stream)
          /\ run' = Call(k, run.context, run.event, {cudaGraphCache[k]})
    BY <1>10 DEF ReplayCached
  <2>2. /\ k \in Keys /\ cudaGraphCache[k] \in Graphs
        /\ run.context \subseteq Contexts /\ run.event \subseteq Events
    BY <2>1 DEF Runs
  <2>3. queue' \in [Streams -> Seq(Ops)]
    BY <2>1, <2>2, WorkTyped, EnqueueTyped DEF Launch, Keys, Graphs
  <2>4. run' \in Runs
    BY <2>1, <2>2, CallTyped
  <2> QED BY <1>10, <2>3, <2>4, DoneInFlight, ReclaimTyped DEF ReplayCached
<1>11. CASE ReplayFails
  BY <1>11, DoneInFlight, ReclaimTyped, NoRunTyped DEF ReplayFails, Runs
<1>12. CASE EnqueuePlain
  BY <1>12, DoneInFlight, ReclaimTyped, PlainPathTyped, WorkTyped, EnqueueTyped
     DEF EnqueuePlain, Runs, Keys
<1>13. CASE EnqueuePlainFails
  BY <1>13, DoneInFlight, ReclaimTyped, PlainPathTyped, NoRunTyped
     DEF EnqueuePlainFails, Runs
<1>14. CASE CaptureAndLaunch
  <2>1. PICK k \in run.key, c \in run.context, kept \in KeptKeys :
          /\ cudaGraphCache' = [j \in kept \cup {k} |->
               IF j = k THEN [context |-> c, exec |-> k] ELSE cudaGraphCache[j]]
          /\ ClearBackoff(k)
          /\ Launch([context |-> c, exec |-> k], k.stream)
          /\ run' = Call(k, {}, run.event, {[context |-> c, exec |-> k]})
    BY <1>14 DEF CaptureAndLaunch
  <2>2. k \in Keys /\ c \in Contexts /\ run.event \subseteq Events
    BY DEF Runs
  <2>3. kept \subseteq DOMAIN cudaGraphCache
    BY DEF KeptKeys
  <2>4. [context |-> c, exec |-> k] \in Graphs
    BY <2>2 DEF Graphs
  <2>5. queue' \in [Streams -> Seq(Ops)]
    BY <2>1, <2>2, WorkTyped, EnqueueTyped DEF Launch, Keys
  <2>6. /\ DOMAIN cudaGraphCache' \subseteq Keys
        /\ cudaGraphCache' \in [DOMAIN cudaGraphCache' -> Graphs]
    BY <2>1, <2>2, <2>3, <2>4
  <2>7. run' \in Runs
    BY <2>1, <2>2, <2>4, CallTyped
  <2>8. Reclaim({}, DoneGraphs) /\ pc' = "deferGraph" /\ UNCHANGED contextPool
    BY <1>14 DEF CaptureAndLaunch
  <2> QED BY <2>1, <2>2, <2>5, <2>6, <2>7, <2>8, DoneInFlight, ReclaimTyped,
             ClearBackoffTyped
<1>15. CASE CapturedLaunchFails
  <2>1. PICK k \in run.key, kept \in KeptKeys :
          /\ cudaGraphCache' = [j \in kept |-> cudaGraphCache[j]]
          /\ ClearBackoff(k)
    BY <1>15 DEF CapturedLaunchFails
  <2>2. k \in Keys /\ kept \subseteq DOMAIN cudaGraphCache
    BY DEF Runs, KeptKeys
  <2>3. /\ DOMAIN cudaGraphCache' \subseteq Keys
        /\ cudaGraphCache' \in [DOMAIN cudaGraphCache' -> Graphs]
    BY <2>1, <2>2
  <2>4. inFlightGraphs' \subseteq InFlightGraph /\ eventPool' \subseteq Events
    BY <1>15, DoneInFlight DEF CapturedLaunchFails, BusyGraphs, InFlightGraph, Runs
  <2> QED BY <1>15, <2>1, <2>2, <2>3, <2>4, ClearBackoffTyped, NoRunTyped
          DEF CapturedLaunchFails
<1>16. CASE DeferContext
  BY <1>16, NoRunTyped, RecordTyped, EnqueueTyped
     DEF DeferContext, Runs, Keys, InFlightContext
<1>17. CASE DeferGraph
  BY <1>17, NoRunTyped, RecordTyped, EnqueueTyped
     DEF DeferGraph, Runs, Keys, InFlightGraph
<1>18. CASE DeferFails
  BY <1>18, NoRunTyped DEF DeferFails, Runs
<1>19. CASE DropSession
  BY <1>19 DEF DropSession
<1>20. CASE DropContext
  BY <1>20 DEF DropContext
<1>21. CASE DropGraph
  BY <1>21 DEF DropGraph
<1>22. CASE DropRest
  BY <1>22 DEF DropRest
<1>23. ASSUME NEW s \in Streams, GpuStep(s) PROVE TypeOK'
  BY <1>23 DEF GpuStep
<1>24. CASE UNCHANGED vars
  BY <1>24 DEF vars
<1> QED
  BY <1>1, <1>2, <1>3, <1>4, <1>5, <1>6, <1>7, <1>8, <1>9, <1>10, <1>11, <1>12,
     <1>13, <1>14, <1>15, <1>16, <1>17, <1>18, <1>19, <1>20, <1>21, <1>22, <1>23,
     <1>24 DEF Next, CallerStep, CallStep, DropStep

(* Every reachable state is well typed: all the pools, lists, caches and    *)
(* queues hold what their Rust types say.                                   *)
THEOREM TypeCorrect == Spec => []TypeOK
<1>1. Init => TypeOK
  BY NoRunTyped DEF Init, TypeOK
<1>2. TypeOK /\ [Next]_vars => TypeOK'
  BY TypeStep
<1> QED BY <1>1, <1>2, PTL DEF Spec

-----------------------------------------------------------------------------
(* Positions of a queue after an Append and after a Tail.                   *)
LEMMA AppendAt ==
    ASSUME TypeOK, NEW s \in Streams, NEW op \in Ops, Enqueue(s, op),
           NEW t \in Streams
    PROVE  /\ DOMAIN queue[t] = 1 .. Len(queue[t])
           /\ Len(queue[t]) \in Nat
           /\ DOMAIN queue'[t] =
                IF t = s THEN 1 .. (Len(queue[t]) + 1) ELSE DOMAIN queue[t]
           /\ \A i \in DOMAIN queue[t] : queue'[t][i] = queue[t][i]
           /\ t = s => queue'[t][Len(queue[t]) + 1] = op
BY DEF TypeOK, Enqueue

LEMMA TailAt ==
    ASSUME TypeOK, NEW s \in Streams, GpuStep(s), NEW t \in Streams
    PROVE  /\ DOMAIN queue[t] = 1 .. Len(queue[t])
           /\ Len(queue[t]) \in Nat
           /\ t # s => queue'[t] = queue[t]
           /\ t = s => /\ DOMAIN queue'[t] = 1 .. (Len(queue[t]) - 1)
                       /\ \A i \in DOMAIN queue'[t] :
                             /\ i + 1 \in DOMAIN queue[t]
                             /\ queue'[t][i] = queue[t][i + 1]
<1>1. queue[s] \in Seq(Ops) /\ queue[s] # <<>> /\ queue' = [queue EXCEPT ![s] = Tail(queue[s])]
  BY DEF TypeOK, GpuStep
<1> QED BY <1>1 DEF TypeOK

(* Entries leave the in-flight lists only when their event is complete.     *)
OnlyDoneLeave ==
    /\ inFlightContexts \ DoneContexts \subseteq inFlightContexts'
    /\ inFlightGraphs \ DoneGraphs \subseteq inFlightGraphs'

LEMMA TrackedIsPending ==
    ASSUME NEW s \in Streams, NEW i \in DOMAIN queue[s], NEW c, NEW T, NEW e,
           Tracks(s, i, c, T, e)
    PROVE  ~EventComplete(e)
BY DEF Tracks, EventComplete

(* A step that leaves the queues alone keeps every operation accounted for. *)
LEMMA AccountedKept ==
    ASSUME Accounted, RecordsOwned, UNCHANGED queue, OnlyDoneLeave,
           \A s \in Streams : \A i \in DOMAIN queue[s] :
               CallTracks(s, i) => CallTracks(s, i)'
    PROVE  Accounted' /\ RecordsOwned'
<1>1. ASSUME NEW s \in Streams, NEW i \in DOMAIN queue[s]
      PROVE  /\ ContextTracks(s, i) => ContextTracks(s, i)'
             /\ GraphTracks(s, i) => GraphTracks(s, i)'
             /\ IsRecord(s, i) => IsRecord(s, i)'
  <2>1. ASSUME NEW f \in inFlightContexts, Tracks(s, i, f.context, f.keepalive, f.event)
        PROVE  ContextTracks(s, i)'
    <3>1. f \in inFlightContexts'
      BY <2>1, TrackedIsPending DEF OnlyDoneLeave, DoneContexts
    <3> QED BY <2>1, <3>1 DEF ContextTracks, Tracks
  <2>2. ASSUME NEW f \in inFlightGraphs, f.graph.exec.stream = s,
               Tracks(s, i, f.graph.context, f.keepalive, f.event)
        PROVE  GraphTracks(s, i)'
    <3>1. f \in inFlightGraphs'
      BY <2>2, TrackedIsPending DEF OnlyDoneLeave, DoneGraphs
    <3> QED BY <2>2, <3>1 DEF GraphTracks, Tracks
  <2> QED BY <2>1, <2>2 DEF ContextTracks, GraphTracks, IsRecord
<1>2. Accounted'
  BY <1>1 DEF Accounted
<1>3. ASSUME NEW s \in Streams, NEW i \in DOMAIN queue[s], NEW e \in queue[s][i].records
      PROVE  e \in InFlightEvents'
  <2>1. e \in InFlightEvents /\ ~EventComplete(e)
    BY <1>3 DEF RecordsOwned, EventComplete
  <2> QED BY <2>1 DEF InFlightEvents, OnlyDoneLeave, DoneContexts, DoneGraphs
<1>4. RecordsOwned'
  BY <1>3 DEF RecordsOwned
<1> QED BY <1>2, <1>4

(* Where the operation at position i of stream t was before s completed its *)
(* head.                                                                    *)
Before(s, t, i) == IF t = s THEN i + 1 ELSE i

LEMMA ShiftAt ==
    ASSUME TypeOK, NEW s \in Streams, GpuStep(s), NEW t \in Streams,
           NEW i \in DOMAIN queue'[t]
    PROVE  /\ i \in Nat
           /\ Before(s, t, i) \in DOMAIN queue[t]
           /\ queue'[t][i] = queue[t][Before(s, t, i)]
<1>1. CASE t = s
  BY <1>1, TailAt DEF Before
<1>2. CASE t # s
  BY <1>2, TailAt DEF Before
<1> QED BY <1>1, <1>2

(* The GPU completes an operation.                                          *)
LEMMA AccountedTail ==
    ASSUME TypeOK, Accounted, RecordsOwned, NEW s \in Streams, GpuStep(s)
    PROVE  Accounted' /\ RecordsOwned'
<1>1. ASSUME NEW t \in Streams, NEW i \in DOMAIN queue'[t], NEW c, NEW T, NEW e,
             Tracks(t, Before(s, t, i), c, T, e)
      PROVE  Tracks(t, i, c, T, e)'
  <2>1. PICK j \in DOMAIN queue[t] : Before(s, t, i) < j /\ e \in queue[t][j].records
    BY <1>1 DEF Tracks
  <2>2. \E m \in DOMAIN queue'[t] : i < m /\ queue'[t][m] = queue[t][j]
    <3>1. CASE t # s
      BY <2>1, <3>1, TailAt DEF Before
    <3>2. CASE t = s
      <4>1. j - 1 \in DOMAIN queue'[t] /\ i < j - 1 /\ (j - 1) + 1 = j
        BY <2>1, <3>2, TailAt DEF Before
      <4> QED BY <4>1, <3>2, TailAt
    <3> QED BY <3>1, <3>2
  <2> QED BY <1>1, <2>1, <2>2, ShiftAt DEF Tracks
<1>2. ASSUME NEW t \in Streams, NEW i \in DOMAIN queue'[t]
      PROVE  IsRecord(t, i)' \/ ContextTracks(t, i)' \/ GraphTracks(t, i)' \/ CallTracks(t, i)'
  <2> DEFINE n == Before(s, t, i)
  <2>1. n \in DOMAIN queue[t] /\ queue'[t][i] = queue[t][n]
    BY ShiftAt
  <2> HIDE DEF n
  <2>2. CASE IsRecord(t, n)
    BY <2>1, <2>2 DEF IsRecord
  <2>3. CASE ContextTracks(t, n)
    BY <2>3, <1>1 DEF ContextTracks, GpuStep, n
  <2>4. CASE GraphTracks(t, n)
    BY <2>4, <1>1 DEF GraphTracks, GpuStep, n
  <2>5. CASE CallTracks(t, n)
    BY <2>1, <2>5 DEF CallTracks, GpuStep
  <2> QED BY <2>1, <2>2, <2>3, <2>4, <2>5 DEF Accounted
<1>3. Accounted'
  BY <1>2 DEF Accounted
<1>4. ASSUME NEW t \in Streams, NEW i \in DOMAIN queue'[t], NEW e \in queue'[t][i].records
      PROVE  /\ e \in InFlightEvents'
             /\ EventDevice[e] = StreamDevice[t]
             /\ \A u \in Streams : \A j \in DOMAIN queue'[u] :
                   e \in queue'[u][j].records => t = u /\ i = j
  <2>1. /\ i \in Nat
        /\ Before(s, t, i) \in DOMAIN queue[t]
        /\ e \in queue[t][Before(s, t, i)].records
    BY ShiftAt
  <2>2. ASSUME NEW u \in Streams, NEW j \in DOMAIN queue'[u], e \in queue'[u][j].records
        PROVE  t = u /\ i = j
    <3>1. /\ j \in Nat
          /\ Before(s, u, j) \in DOMAIN queue[u]
          /\ e \in queue[u][Before(s, u, j)].records
      BY <2>2, ShiftAt
    <3>2. t = u /\ Before(s, t, i) = Before(s, u, j)
      BY <2>1, <3>1 DEF RecordsOwned
    <3> QED BY <2>1, <3>1, <3>2 DEF Before
  <2>3. e \in InFlightEvents /\ EventDevice[e] = StreamDevice[t]
    BY <2>1 DEF RecordsOwned
  <2> QED BY <2>2, <2>3 DEF InFlightEvents, GpuStep
<1>5. RecordsOwned'
  BY <1>4 DEF RecordsOwned
<1> QED BY <1>3, <1>5

(* An append leaves the operations that were there, and what tracks them,   *)
(* where they are.                                                          *)
LEMMA TracksAppended ==
    ASSUME TypeOK, NEW s \in Streams, NEW op \in Ops, Enqueue(s, op),
           NEW t \in Streams, NEW i \in DOMAIN queue[t], NEW c, NEW T, NEW e,
           Tracks(t, i, c, T, e)
    PROVE  Tracks(t, i, c, T, e)'
<1>1. PICK j \in DOMAIN queue[t] : i < j /\ e \in queue[t][j].records
  BY DEF Tracks
<1>2. j \in DOMAIN queue'[t] /\ queue'[t][j] = queue[t][j] /\ queue'[t][i] = queue[t][i]
  BY AppendAt
<1> QED BY <1>1, <1>2 DEF Tracks

(* What tracked an operation before an append still does, and a record that *)
(* was in flight still is, when only complete entries leave.                *)
LEMMA KeptByAppend ==
    ASSUME TypeOK, RecordsOwned, OnlyDoneLeave,
           NEW s \in Streams, NEW op \in Ops, Enqueue(s, op),
           NEW t \in Streams, NEW i \in DOMAIN queue[t]
    PROVE  /\ IsRecord(t, i) => IsRecord(t, i)'
           /\ ContextTracks(t, i) => ContextTracks(t, i)'
           /\ GraphTracks(t, i) => GraphTracks(t, i)'
           /\ \A e \in queue[t][i].records :
                 e \in InFlightEvents' /\ EventDevice[e] = StreamDevice[t]
<1>1. IsRecord(t, i) => IsRecord(t, i)'
  BY AppendAt DEF IsRecord
<1>2. ASSUME NEW f \in inFlightContexts, Tracks(t, i, f.context, f.keepalive, f.event)
      PROVE  ContextTracks(t, i)'
  <2>1. f \in inFlightContexts'
    BY <1>2, TrackedIsPending DEF OnlyDoneLeave, DoneContexts
  <2> QED BY <1>2, <2>1, TracksAppended DEF ContextTracks
<1>3. ASSUME NEW f \in inFlightGraphs, f.graph.exec.stream = t,
             Tracks(t, i, f.graph.context, f.keepalive, f.event)
      PROVE  GraphTracks(t, i)'
  <2>1. f \in inFlightGraphs'
    BY <1>3, TrackedIsPending DEF OnlyDoneLeave, DoneGraphs
  <2> QED BY <1>3, <2>1, TracksAppended DEF GraphTracks
<1>4. ASSUME NEW e \in queue[t][i].records
      PROVE  e \in InFlightEvents' /\ EventDevice[e] = StreamDevice[t]
  <2>1. e \in InFlightEvents /\ ~EventComplete(e) /\ EventDevice[e] = StreamDevice[t]
    BY <1>4 DEF RecordsOwned, EventComplete
  <2> QED BY <2>1 DEF InFlightEvents, OnlyDoneLeave, DoneContexts, DoneGraphs
<1> QED BY <1>1, <1>2, <1>3, <1>4 DEF ContextTracks, GraphTracks

(* The call enqueues its work.                                              *)
LEMMA WorkEnqueued ==
    ASSUME TypeOK, Accounted, RecordsOwned, OnlyDoneLeave,
           NEW s \in Streams, NEW c \in Contexts, NEW T \in SUBSET Tensors,
           Enqueue(s, Work(c, T)),
           pc \in {"acquired", "ready"},
           NEW n, n = Len(queue[s]) + 1, CallTracks(s, n)'
    PROVE  Accounted' /\ RecordsOwned'
<1>1. Work(c, T) \in Ops
  BY WorkTyped
<1>2. ASSUME NEW t \in Streams, NEW i \in DOMAIN queue'[t]
      PROVE  IsRecord(t, i)' \/ ContextTracks(t, i)' \/ GraphTracks(t, i)' \/ CallTracks(t, i)'
  <2>1. CASE i \in DOMAIN queue[t]
    <3>1. IsRecord(t, i) \/ ContextTracks(t, i) \/ GraphTracks(t, i)
      BY <2>1 DEF Accounted, CallTracks
    <3> QED BY <1>1, <2>1, <3>1, KeptByAppend
  <2>2. CASE i \notin DOMAIN queue[t]
    <3>1. t = s /\ i = n
      BY <1>1, <2>2, AppendAt
    <3> QED BY <3>1
  <2> QED BY <2>1, <2>2
<1>3. ASSUME NEW t \in Streams, NEW i \in DOMAIN queue'[t], NEW e \in queue'[t][i].records
      PROVE  i \in DOMAIN queue[t] /\ queue'[t][i] = queue[t][i]
  <2>1. CASE i \notin DOMAIN queue[t]
    <3>1. queue'[t][i] = Work(c, T)
      BY <1>1, <2>1, AppendAt
    <3> QED BY <3>1, <1>3 DEF Work
  <2> QED BY <1>1, <2>1, AppendAt
<1>4. ASSUME NEW t \in Streams, NEW i \in DOMAIN queue'[t], NEW e \in queue'[t][i].records
      PROVE  /\ e \in InFlightEvents'
             /\ EventDevice[e] = StreamDevice[t]
             /\ \A u \in Streams : \A j \in DOMAIN queue'[u] :
                   e \in queue'[u][j].records => t = u /\ i = j
  <2>1. i \in DOMAIN queue[t] /\ e \in queue[t][i].records
    BY <1>3, <1>4
  <2>2. ASSUME NEW u \in Streams, NEW j \in DOMAIN queue'[u], e \in queue'[u][j].records
        PROVE  t = u /\ i = j
    <3>1. j \in DOMAIN queue[u] /\ e \in queue[u][j].records
      BY <1>3, <2>2
    <3> QED BY <2>1, <3>1 DEF RecordsOwned
  <2> QED BY <1>1, <2>1, <2>2, KeptByAppend
<1>5. Accounted'
  BY <1>2 DEF Accounted
<1>6. RecordsOwned'
  BY <1>4 DEF RecordsOwned
<1> QED BY <1>5, <1>6

(* The call records its event and hands its work over to an in-flight entry *)
(* with that event.                                                         *)
LEMMA RecordEnqueued ==
    ASSUME TypeOK, Accounted, RecordsOwned,
           NEW s \in Streams, NEW e \in Events, Enqueue(s, Record(e)),
           EventDevice[e] = StreamDevice[s],
           e \notin InFlightEvents, e \in InFlightEvents',
           inFlightContexts \subseteq inFlightContexts',
           inFlightGraphs \subseteq inFlightGraphs',
           \A t \in Streams : \A i \in DOMAIN queue[t] :
              CallTracks(t, i) =>
                 /\ t = s
                 /\ \/ \E f \in inFlightContexts' :
                          /\ queue[t][i].contexts = {f.context}
                          /\ queue[t][i].tensors = f.keepalive
                          /\ f.event = e
                    \/ \E f \in inFlightGraphs' :
                          /\ f.graph.exec.stream = s
                          /\ queue[t][i].contexts = {f.graph.context}
                          /\ queue[t][i].tensors = f.keepalive
                          /\ f.event = e
    PROVE  Accounted' /\ RecordsOwned'
<1>1. Record(e) \in Ops
  BY RecordTyped
<1>2. OnlyDoneLeave
  BY DEF OnlyDoneLeave
<1>3. /\ Len(queue[s]) + 1 \in DOMAIN queue'[s]
      /\ queue'[s][Len(queue[s]) + 1] = Record(e)
      /\ \A i \in DOMAIN queue[s] : i < Len(queue[s]) + 1
  BY <1>1, AppendAt
<1>4. ASSUME NEW t \in Streams, NEW i \in DOMAIN queue[t], NEW c, NEW T,
             t = s, queue[t][i].contexts = {c}, queue[t][i].tensors = T
      PROVE  Tracks(t, i, c, T, e)'
  <2>1. queue'[t][i] = queue[t][i]
    BY <1>1, AppendAt
  <2>2. e \in queue'[s][Len(queue[s]) + 1].records
    BY <1>3 DEF Record
  <2> QED BY <1>3, <1>4, <2>1, <2>2 DEF Tracks
<1>5. ASSUME NEW t \in Streams, NEW i \in DOMAIN queue'[t]
      PROVE  IsRecord(t, i)' \/ ContextTracks(t, i)' \/ GraphTracks(t, i)' \/ CallTracks(t, i)'
  <2>1. CASE i \in DOMAIN queue[t]
    <3>1. CASE CallTracks(t, i)
      <4>1. CASE \E f \in inFlightContexts' :
                    /\ queue[t][i].contexts = {f.context}
                    /\ queue[t][i].tensors = f.keepalive
                    /\ f.event = e
        BY <1>4, <2>1, <3>1, <4>1 DEF ContextTracks
      <4>2. CASE \E f \in inFlightGraphs' :
                    /\ f.graph.exec.stream = s
                    /\ queue[t][i].contexts = {f.graph.context}
                    /\ queue[t][i].tensors = f.keepalive
                    /\ f.event = e
        <5>1. PICK f \in inFlightGraphs' :
                    /\ f.graph.exec.stream = s
                    /\ queue[t][i].contexts = {f.graph.context}
                    /\ queue[t][i].tensors = f.keepalive
                    /\ f.event = e
          BY <4>2
        <5>2. t = s
          BY <2>1, <3>1
        <5>3. Tracks(t, i, f.graph.context, f.keepalive, f.event)'
          BY <1>4, <2>1, <5>1, <5>2
        <5> QED BY <5>1, <5>2, <5>3 DEF GraphTracks
      <4> QED BY <2>1, <3>1, <4>1, <4>2
    <3>2. CASE IsRecord(t, i) \/ ContextTracks(t, i) \/ GraphTracks(t, i)
      BY <1>1, <1>2, <2>1, <3>2, KeptByAppend
    <3> QED BY <2>1, <3>1, <3>2 DEF Accounted
  <2>2. CASE i \notin DOMAIN queue[t]
    <3>1. t = s /\ i = Len(queue[s]) + 1
      BY <1>1, <2>2, AppendAt
    <3> QED BY <1>3, <3>1 DEF IsRecord, Record
  <2> QED BY <2>1, <2>2
<1>6. \A t \in Streams : \A i \in DOMAIN queue[t] : e \notin queue[t][i].records
  BY DEF RecordsOwned
<1>7. ASSUME NEW t \in Streams, NEW i \in DOMAIN queue'[t], NEW x \in queue'[t][i].records
      PROVE  \/ /\ i \in DOMAIN queue[t] /\ x \in queue[t][i].records /\ x # e
             \/ /\ t = s /\ i = Len(queue[s]) + 1 /\ x = e
  <2>1. CASE i \in DOMAIN queue[t]
    BY <1>1, <1>6, <1>7, <2>1, AppendAt
  <2>2. CASE i \notin DOMAIN queue[t]
    BY <1>1, <1>3, <1>7, <2>2, AppendAt DEF Record
  <2> QED BY <2>1, <2>2
<1>8. ASSUME NEW t \in Streams, NEW i \in DOMAIN queue'[t], NEW x \in queue'[t][i].records
      PROVE  /\ x \in InFlightEvents'
             /\ EventDevice[x] = StreamDevice[t]
             /\ \A u \in Streams : \A j \in DOMAIN queue'[u] :
                   x \in queue'[u][j].records => t = u /\ i = j
  <2>1. ASSUME NEW u \in Streams, NEW j \in DOMAIN queue'[u], x \in queue'[u][j].records
        PROVE  t = u /\ i = j
    BY <1>7, <1>8, <2>1 DEF RecordsOwned
  <2>2. x \in InFlightEvents' /\ EventDevice[x] = StreamDevice[t]
    BY <1>1, <1>2, <1>7, <1>8, KeptByAppend
  <2> QED BY <2>1, <2>2
<1>9. Accounted'
  BY <1>5 DEF Accounted
<1>10. RecordsOwned'
  BY <1>8 DEF RecordsOwned
<1> QED BY <1>9, <1>10

-----------------------------------------------------------------------------
(* Ownership.  A step that only passes contexts and events on to the pools  *)
(* and to the call -- from each other, from entries it takes out of flight, *)
(* or newly created -- leaves every owner alone with what it owns.          *)
LEMMA OwnedMoved ==
    ASSUME OwnedOnce,
           contextPool' \cap run'.context = {},
           eventPool' \cap run'.event = {},
           inFlightContexts' \subseteq inFlightContexts,
           inFlightGraphs' \subseteq inFlightGraphs,
           LiveGraphs' \subseteq LiveGraphs,
           \A c \in contextPool' \cup run'.context :
              \/ c \in contextPool \cup run.context
              \/ c \notin LiveContexts
              \/ \E f \in inFlightContexts \ inFlightContexts' : c = f.context,
           \A e \in eventPool' \cup run'.event :
              \/ e \in eventPool \cup run.event
              \/ e \notin LiveEvents
              \/ \E f \in inFlightContexts \ inFlightContexts' : e = f.event
              \/ \E f \in inFlightGraphs \ inFlightGraphs' : e = f.event
    PROVE  OwnedOnce'
<1>1. GraphContexts' \subseteq GraphContexts
  BY DEF GraphContexts
<1>2. ASSUME NEW c \in contextPool' \cup run'.context
      PROVE  /\ c \notin GraphContexts
             /\ \A f \in inFlightContexts' : f.context # c
  <2>1. CASE c \in contextPool \cup run.context
    BY <2>1 DEF OwnedOnce
  <2>2. CASE c \notin LiveContexts
    BY <2>2 DEF LiveContexts
  <2>3. CASE \E f \in inFlightContexts \ inFlightContexts' : c = f.context
    BY <2>3 DEF OwnedOnce
  <2> QED BY <1>2, <2>1, <2>2, <2>3
<1>3. ASSUME NEW e \in eventPool' \cup run'.event
      PROVE  /\ \A f \in inFlightContexts' : f.event # e
             /\ \A f \in inFlightGraphs' : f.event # e
  <2>1. CASE e \in eventPool \cup run.event
    BY <2>1 DEF OwnedOnce
  <2>2. CASE e \notin LiveEvents
    BY <2>2 DEF LiveEvents
  <2>3. CASE \E f \in inFlightContexts \ inFlightContexts' : e = f.event
    BY <2>3 DEF OwnedOnce
  <2>4. CASE \E f \in inFlightGraphs \ inFlightGraphs' : e = f.event
    BY <2>4 DEF OwnedOnce
  <2> QED BY <1>3, <2>1, <2>2, <2>3, <2>4
<1>4. /\ contextPool' \cap run'.context = {}
      /\ GraphContexts' \cap (contextPool' \cup run'.context) = {}
      /\ eventPool' \cap run'.event = {}
  BY <1>1, <1>2
<1>5. \A f \in inFlightContexts' :
        /\ f.context \notin contextPool' \cup run'.context \cup GraphContexts'
        /\ f.event \notin eventPool' \cup run'.event
  BY <1>1, <1>2, <1>3 DEF OwnedOnce
<1>6. \A f \in inFlightGraphs' : f.event \notin eventPool' \cup run'.event
  BY <1>3
<1>7. /\ \A f \in inFlightContexts', g \in inFlightGraphs' : f.event # g.event
      /\ \A f, g \in inFlightContexts' :
            f # g => f.context # g.context /\ f.event # g.event
      /\ \A f, g \in inFlightGraphs' : f # g => f.event # g.event
  BY DEF OwnedOnce
<1>8. \A g, h \in LiveGraphs' : g # h => g.context # h.context
  BY DEF OwnedOnce
<1> QED BY <1>4, <1>5, <1>6, <1>7, <1>8 DEF OwnedOnce

(* The call's work becomes an entry in flight.                              *)
LEMMA OwnedDeferContext ==
    ASSUME OwnedOnce, DeferContext
    PROVE  OwnedOnce'
<1>1. PICK k \in run.key, c \in run.context, e \in run.event :
        inFlightContexts' = inFlightContexts \cup
            {[context |-> c, event |-> e, keepalive |-> k.binding]}
  BY DEF DeferContext
<1> DEFINE new == [context |-> c, event |-> e, keepalive |-> k.binding]
<1>2. new.context = c /\ new.event = e
  OBVIOUS
<1> HIDE DEF new
<1>3. /\ run'.context = {} /\ run'.event = {} /\ run'.graph = {}
      /\ UNCHANGED <<contextPool, inFlightGraphs, eventPool, cudaGraphCache>>
  BY DEF DeferContext, NoRun
<1>4. LiveGraphs' \subseteq LiveGraphs
  BY <1>3 DEF LiveGraphs, CachedGraphs
<1>5. GraphContexts' \subseteq GraphContexts
  BY <1>4 DEF GraphContexts
<1>6. \A f \in inFlightContexts : f.context # c /\ f.event # e
  BY DEF OwnedOnce
<1>7. c \notin contextPool /\ c \notin GraphContexts /\ e \notin eventPool
  BY DEF OwnedOnce
<1>8. \A f \in inFlightGraphs : f.event # e
  BY DEF OwnedOnce
<1>9. inFlightContexts' = inFlightContexts \cup {new}
  BY <1>1 DEF new
<1>10. \A f \in inFlightContexts' :
          /\ f.context \notin contextPool' \cup run'.context \cup GraphContexts'
          /\ f.event \notin eventPool' \cup run'.event
  BY <1>2, <1>3, <1>5, <1>7, <1>9 DEF OwnedOnce
<1>11. \A f \in inFlightContexts', g \in inFlightGraphs' : f.event # g.event
  BY <1>2, <1>3, <1>8, <1>9 DEF OwnedOnce
<1>12. \A f, g \in inFlightContexts' :
          f # g => f.context # g.context /\ f.event # g.event
  BY <1>2, <1>6, <1>9 DEF OwnedOnce
<1>13. /\ contextPool' \cap run'.context = {}
       /\ GraphContexts' \cap (contextPool' \cup run'.context) = {}
       /\ eventPool' \cap run'.event = {}
       /\ \A f \in inFlightGraphs' : f.event \notin eventPool' \cup run'.event
       /\ \A f, g \in inFlightGraphs' : f # g => f.event # g.event
  BY <1>3, <1>5 DEF OwnedOnce
<1>14. \A g, h \in LiveGraphs' : g # h => g.context # h.context
  BY <1>4 DEF OwnedOnce
<1> QED BY <1>10, <1>11, <1>12, <1>13, <1>14 DEF OwnedOnce

(* The launched graph becomes an entry in flight; an unused context goes    *)
(* back to the pool.                                                        *)
LEMMA OwnedDeferGraph ==
    ASSUME OwnedOnce, DeferGraph
    PROVE  OwnedOnce'
<1>1. PICK k \in run.key, g \in run.graph, e \in run.event :
        inFlightGraphs' = inFlightGraphs \cup
            {[graph |-> g, event |-> e, keepalive |-> k.binding]}
  BY DEF DeferGraph
<1> DEFINE new == [graph |-> g, event |-> e, keepalive |-> k.binding]
<1>2. new.graph = g /\ new.event = e
  OBVIOUS
<1> HIDE DEF new
<1>3. /\ run'.context = {} /\ run'.event = {} /\ run'.graph = {}
      /\ contextPool' = contextPool \cup run.context
      /\ UNCHANGED <<inFlightContexts, eventPool, cudaGraphCache>>
  BY DEF DeferGraph, NoRun
<1>4. inFlightGraphs' = inFlightGraphs \cup {new}
  BY <1>1 DEF new
<1>5. LiveGraphs' \subseteq LiveGraphs
  BY <1>2, <1>3, <1>4 DEF LiveGraphs, CachedGraphs
<1>6. GraphContexts' \subseteq GraphContexts
  BY <1>5 DEF GraphContexts
<1>7. /\ e \notin eventPool
      /\ \A f \in inFlightContexts : f.event # e
      /\ \A f \in inFlightGraphs : f.event # e
  BY DEF OwnedOnce
<1>8. \A f \in inFlightContexts' :
         /\ f.context \notin contextPool' \cup run'.context \cup GraphContexts'
         /\ f.event \notin eventPool' \cup run'.event
  BY <1>3, <1>6 DEF OwnedOnce
<1>9. \A f \in inFlightGraphs' : f.event \notin eventPool' \cup run'.event
  BY <1>2, <1>3, <1>4, <1>7 DEF OwnedOnce
<1>10. \A f \in inFlightContexts', h \in inFlightGraphs' : f.event # h.event
  BY <1>2, <1>3, <1>4, <1>7 DEF OwnedOnce
<1>11. \A f, h \in inFlightGraphs' : f # h => f.event # h.event
  BY <1>2, <1>4, <1>7 DEF OwnedOnce
<1>12. /\ contextPool' \cap run'.context = {}
       /\ GraphContexts' \cap (contextPool' \cup run'.context) = {}
       /\ eventPool' \cap run'.event = {}
       /\ \A f, h \in inFlightContexts' :
             f # h => f.context # h.context /\ f.event # h.event
  BY <1>3, <1>6 DEF OwnedOnce
<1>13. \A f, h \in LiveGraphs' : f # h => f.context # h.context
  BY <1>5 DEF OwnedOnce
<1> QED BY <1>8, <1>9, <1>10, <1>11, <1>12, <1>13 DEF OwnedOnce

(* A capture takes the pooled context into the new cache entry.             *)
LEMMA OwnedCapture ==
    ASSUME OwnedOnce, CallShape, CaptureAndLaunch
    PROVE  OwnedOnce'
<1>1. PICK k \in run.key, c \in run.context, kept \in KeptKeys :
        /\ cudaGraphCache' = [j \in kept \cup {k} |->
              IF j = k THEN [context |-> c, exec |-> k] ELSE cudaGraphCache[j]]
        /\ run' = Call(k, {}, run.event, {[context |-> c, exec |-> k]})
  BY DEF CaptureAndLaunch
<1> DEFINE entry == [context |-> c, exec |-> k]
<1>2. entry.context = c
  OBVIOUS
<1> HIDE DEF entry
<1>3. /\ run'.context = {} /\ run'.event = run.event /\ run'.graph = {entry}
      /\ inFlightGraphs' = inFlightGraphs \ DoneGraphs
      /\ inFlightContexts' = inFlightContexts
      /\ eventPool' = eventPool \cup {f.event : f \in DoneGraphs}
      /\ UNCHANGED contextPool
  BY <1>1 DEF CaptureAndLaunch, Reclaim, Call, entry
<1>4. kept \subseteq DOMAIN cudaGraphCache
  BY DEF KeptKeys
<1>5. CachedGraphs' \subseteq CachedGraphs \cup {entry}
  BY <1>1, <1>4 DEF CachedGraphs, entry
<1>6. LiveGraphs' \subseteq LiveGraphs \cup {entry}
  BY <1>3, <1>5 DEF LiveGraphs
<1>7. /\ c \notin contextPool /\ c \notin GraphContexts
      /\ \A f \in inFlightContexts : f.context # c
  BY DEF OwnedOnce
<1>8. \A g \in LiveGraphs : g.context # c
  BY <1>7 DEF GraphContexts
<1>9. GraphContexts' \subseteq GraphContexts \cup {c}
  BY <1>2, <1>6 DEF GraphContexts
<1>10. \A g, h \in LiveGraphs' : g # h => g.context # h.context
  BY <1>2, <1>6, <1>8 DEF OwnedOnce
<1>11. \A f \in DoneGraphs : f \in inFlightGraphs
  BY DEF DoneGraphs
<1>12. /\ eventPool' \cap run'.event = {}
       /\ \A f \in inFlightGraphs' : f.event \notin eventPool' \cup run'.event
       /\ \A f \in inFlightContexts' : f.event \notin eventPool' \cup run'.event
  BY <1>3, <1>11 DEF OwnedOnce
<1>13. /\ GraphContexts' \cap (contextPool' \cup run'.context) = {}
       /\ \A f \in inFlightContexts' :
             f.context \notin contextPool' \cup run'.context \cup GraphContexts'
  BY <1>3, <1>7, <1>9 DEF OwnedOnce
<1>14. /\ contextPool' \cap run'.context = {}
       /\ \A f \in inFlightContexts', g \in inFlightGraphs' : f.event # g.event
       /\ \A f, g \in inFlightContexts' :
             f # g => f.context # g.context /\ f.event # g.event
       /\ \A f, g \in inFlightGraphs' : f # g => f.event # g.event
  BY <1>3 DEF OwnedOnce
<1> QED BY <1>10, <1>12, <1>13, <1>14 DEF OwnedOnce

-----------------------------------------------------------------------------
(* The four other conjuncts of the inductive invariant, one lemma each.     *)

(* Each point of a call owns what CallShape says.                           *)
LEMMA ShapeStep ==
    ASSUME TypeOK, CallShape, GraphsKeyed, [Next]_vars
    PROVE  CallShape'
<1> USE DEF CallShape
<1>1. ASSUME NEW s \in Streams, NEW b \in Bindings,
             Acquire([stream |-> s, binding |-> b])
      PROVE  CallShape'
  <2>1. [stream |-> s, binding |-> b] \in Keys
    BY BindingAssumption DEF Keys
  <2> QED BY <1>1, <2>1 DEF Acquire
<1>2. CASE AcquireFails \/ ReclaimContextsFails \/ ReclaimGraphsFails \/ DropSession
  BY <1>2 DEF AcquireFails, ReclaimContextsFails, ReclaimGraphsFails, DropSession, Idle
<1>3. CASE ReleaseContext \/ HostSynchronize \/ DispatchFails \/ ReplayFails
  BY <1>3 DEF ReleaseContext, HostSynchronize, DispatchFails, ReplayFails
<1>4. CASE EnqueuePlainFails \/ CapturedLaunchFails
  BY <1>4 DEF EnqueuePlainFails, CapturedLaunchFails
<1>5. CASE DeferContext \/ DeferGraph \/ DeferFails
  BY <1>5 DEF DeferContext, DeferGraph, DeferFails
<1>6. CASE HostEnqueue
  BY <1>6 DEF HostEnqueue
<1>7. CASE CompletionEvent
  <2>1. PICK k \in run.key, e \in Events :
          /\ EventDevice[e] = StreamDevice[k.stream]
          /\ run' = Call(k, run.context, {e}, {})
    BY <1>7 DEF CompletionEvent
  <2>2. pc' = "ready" /\ pc = "acquired"
    BY <1>7 DEF CompletionEvent
  <2>3. PICK l \in Keys, c \in Contexts : run = Call(l, {c}, {}, {})
    BY <2>2
  <2>4. run.key = {l} /\ run.context = {c}
    BY <2>3 DEF Call
  <2>5. run' = Call(l, {c}, {e}, {}) /\ EventDevice[e] = StreamDevice[l.stream]
    BY <2>1, <2>4
  <2> QED BY <2>2, <2>5
<1>8. CASE ReplayCached
  <2>1. PICK k \in run.key :
          /\ k \in DOMAIN cudaGraphCache
          /\ run' = Call(k, run.context, run.event, {cudaGraphCache[k]})
    BY <1>8 DEF ReplayCached
  <2>2. pc' = "deferGraph" /\ pc = "ready"
    BY <1>8 DEF ReplayCached
  <2>3. cudaGraphCache[k] \in Graphs /\ cudaGraphCache[k].exec = k
    BY <2>1 DEF TypeOK, GraphsKeyed
  <2>4. PICK l \in Keys, c \in Contexts, e \in Events :
          /\ EventDevice[e] = StreamDevice[l.stream]
          /\ run = Call(l, {c}, {e}, {})
    BY <2>2
  <2>5. run.key = {l} /\ run.context = {c} /\ run.event = {e}
    BY <2>4 DEF Call
  <2>6. run' = Call(l, {c}, {e}, {cudaGraphCache[k]}) /\ cudaGraphCache[k].exec = l
    BY <2>1, <2>3, <2>5
  <2> QED BY <2>2, <2>3, <2>4, <2>6
<1>9. CASE EnqueuePlain
  BY <1>9 DEF EnqueuePlain
<1>10. CASE CaptureAndLaunch
  <2>1. PICK k \in run.key, c \in run.context :
          run' = Call(k, {}, run.event, {[context |-> c, exec |-> k]})
    BY <1>10 DEF CaptureAndLaunch
  <2>2. pc' = "deferGraph" /\ pc = "ready"
    BY <1>10 DEF CaptureAndLaunch
  <2>3. PICK l \in Keys, d \in Contexts, e \in Events :
          /\ EventDevice[e] = StreamDevice[l.stream]
          /\ run = Call(l, {d}, {e}, {})
    BY <2>2
  <2>4. run.key = {l} /\ run.event = {e}
    BY <2>3 DEF Call
  <2>5. [context |-> c, exec |-> k] \in Graphs
    BY DEF TypeOK, Runs, Graphs
  <2> QED BY <2>1, <2>2, <2>3, <2>4, <2>5
<1>11. CASE DropContext \/ DropGraph \/ DropRest
  BY <1>11 DEF DropContext, DropGraph, DropRest
<1>12. ASSUME NEW s \in Streams, GpuStep(s) PROVE CallShape'
  BY <1>12 DEF GpuStep
<1>13. CASE UNCHANGED vars
  BY <1>13 DEF vars
<1> QED
  BY <1>1, <1>2, <1>3, <1>4, <1>5, <1>6, <1>7, <1>8, <1>9, <1>10, <1>11, <1>12, <1>13
     DEF Next, CallerStep, CallStep, DropStep

(* A captured graph stays under the key it replays.                         *)
LEMMA KeyedStep ==
    ASSUME GraphsKeyed, [Next]_vars
    PROVE  GraphsKeyed'
<1>1. CASE UNCHANGED cudaGraphCache
  BY <1>1 DEF GraphsKeyed
<1>2. CASE CaptureAndLaunch
  <2>1. PICK k \in run.key, c \in run.context, kept \in KeptKeys :
          cudaGraphCache' = [j \in kept \cup {k} |->
              IF j = k THEN [context |-> c, exec |-> k] ELSE cudaGraphCache[j]]
    BY <1>2 DEF CaptureAndLaunch
  <2>2. kept \subseteq DOMAIN cudaGraphCache
    BY DEF KeptKeys
  <2> QED BY <2>1, <2>2 DEF GraphsKeyed
<1>3. CASE CapturedLaunchFails
  <2>1. PICK kept \in KeptKeys : cudaGraphCache' = [j \in kept |-> cudaGraphCache[j]]
    BY <1>3 DEF CapturedLaunchFails
  <2>2. kept \subseteq DOMAIN cudaGraphCache
    BY DEF KeptKeys
  <2> QED BY <2>1, <2>2 DEF GraphsKeyed
<1>4. CASE DropRest
  BY <1>4 DEF DropRest, GraphsKeyed
<1>5. CASE CallerStep
  BY <1>1, <1>5 DEF CallerStep, Acquire, AcquireFails, ReclaimContextsFails,
     ReclaimGraphsFails, DropSession
<1>6. CASE CallStep
  BY <1>1, <1>2, <1>3, <1>6 DEF CallStep, ReleaseContext, HostEnqueue, HostSynchronize,
     CompletionEvent, DispatchFails, ReplayCached, ReplayFails, EnqueuePlain,
     EnqueuePlainFails, DeferContext, DeferGraph, DeferFails
<1>7. CASE DropStep
  BY <1>1, <1>4, <1>7 DEF DropStep, DropContext, DropGraph
<1>8. CASE (\E s \in Streams : GpuStep(s)) \/ UNCHANGED vars
  BY <1>1, <1>8 DEF GpuStep, vars
<1> QED BY <1>5, <1>6, <1>7, <1>8 DEF Next

(* Contexts, events and graphs keep a single owner.                         *)
LEMMA OwnedStep ==
    ASSUME TypeOK, OwnedOnce, CallShape, [Next]_vars
    PROVE  OwnedOnce'
<1> USE DEF NoRun, Call
<1>1. ASSUME NEW s \in Streams, NEW b \in Bindings,
             Acquire([stream |-> s, binding |-> b])
      PROVE  OwnedOnce'
  <2>1. PICK c \in Contexts :
          /\ \/ c \in PoolAfterReclaim(DoneContexts)
             \/ c \notin LiveContexts
          /\ contextPool' = PoolAfterReclaim(DoneContexts) \ {c}
          /\ run'.context = {c} /\ run'.event = {} /\ run'.graph = {}
    BY <1>1 DEF Acquire
  <2>2. Reclaim(DoneContexts, DoneGraphs) /\ UNCHANGED cudaGraphCache
    BY <1>1 DEF Acquire
  <2>3. LiveGraphs' \subseteq LiveGraphs
    BY <2>1, <2>2 DEF LiveGraphs, CachedGraphs, Reclaim
  <2> QED BY <2>1, <2>2, <2>3, OwnedMoved, DoneInFlight DEF Reclaim, PoolAfterReclaim
<1>2. CASE AcquireFails
  <2>1. LiveGraphs' \subseteq LiveGraphs
    BY <1>2 DEF AcquireFails, LiveGraphs, CachedGraphs, Reclaim
  <2>2. run.context = {} /\ run.event = {}
    BY <1>2 DEF AcquireFails, Idle, CallShape
  <2> QED BY <1>2, <2>1, <2>2, OwnedMoved, DoneInFlight
          DEF AcquireFails, Reclaim, PoolAfterReclaim
<1>3. CASE ReclaimContextsFails
  <2>1. LiveGraphs' \subseteq LiveGraphs
    BY <1>3 DEF ReclaimContextsFails, LiveGraphs, CachedGraphs
  <2> QED BY <1>3, <2>1, OwnedMoved DEF ReclaimContextsFails, OwnedOnce
<1>4. CASE ReclaimGraphsFails
  <2>1. LiveGraphs' \subseteq LiveGraphs
    BY <1>4 DEF ReclaimGraphsFails, LiveGraphs, CachedGraphs
  <2>2. run.context = {} /\ run.event = {}
    BY <1>4 DEF ReclaimGraphsFails, Idle, CallShape
  <2>3. inFlightGraphs' \subseteq inFlightGraphs
    BY <1>4 DEF ReclaimGraphsFails
  <2> QED BY <1>4, <2>1, <2>2, <2>3, OwnedMoved, DoneInFlight
          DEF ReclaimGraphsFails, PoolAfterReclaim
<1>5. CASE ReleaseContext \/ HostSynchronize
  <2>1. LiveGraphs' \subseteq LiveGraphs
    BY <1>5 DEF ReleaseContext, HostSynchronize, LiveGraphs, CachedGraphs
  <2> QED BY <1>5, <2>1, OwnedMoved DEF ReleaseContext, HostSynchronize
<1>6. CASE CompletionEvent
  <2>1. PICK k \in run.key, e \in Events :
          /\ e \in eventPool \/ e \notin LiveEvents
          /\ eventPool' = eventPool \ {e}
          /\ run' = Call(k, run.context, {e}, {})
    BY <1>6 DEF CompletionEvent
  <2>2. UNCHANGED <<contextPool, inFlightContexts, inFlightGraphs, cudaGraphCache>>
    BY <1>6 DEF CompletionEvent
  <2>3. LiveGraphs' \subseteq LiveGraphs
    BY <2>1, <2>2 DEF LiveGraphs, CachedGraphs
  <2> QED BY <2>1, <2>2, <2>3, OwnedMoved DEF OwnedOnce
<1>7. CASE DispatchFails
  <2>1. LiveGraphs' \subseteq LiveGraphs
    BY <1>7 DEF DispatchFails, LiveGraphs, CachedGraphs
  <2> QED BY <1>7, <2>1, OwnedMoved DEF DispatchFails, DoneGraphs
<1>8. CASE ReplayCached
  <2>1. PICK k \in run.key :
          /\ k \in DOMAIN cudaGraphCache
          /\ run' = Call(k, run.context, run.event, {cudaGraphCache[k]})
    BY <1>8 DEF ReplayCached
  <2>2. Reclaim({}, DoneGraphs) /\ UNCHANGED <<contextPool, cudaGraphCache>>
    BY <1>8 DEF ReplayCached
  <2>3. LiveGraphs' \subseteq LiveGraphs
    BY <2>1, <2>2 DEF LiveGraphs, CachedGraphs, Reclaim
  <2> QED BY <2>1, <2>2, <2>3, OwnedMoved, DoneInFlight DEF Reclaim, OwnedOnce
<1>9. CASE ReplayFails
  <2>1. LiveGraphs' \subseteq LiveGraphs
    BY <1>9 DEF ReplayFails, LiveGraphs, CachedGraphs, Reclaim
  <2> QED BY <1>9, <2>1, OwnedMoved, DoneInFlight DEF ReplayFails, Reclaim
<1>10. CASE EnqueuePlain
  <2>1. LiveGraphs' \subseteq LiveGraphs
    BY <1>10 DEF EnqueuePlain, LiveGraphs, CachedGraphs, Reclaim
  <2> QED BY <1>10, <2>1, OwnedMoved, DoneInFlight DEF EnqueuePlain, Reclaim, OwnedOnce
<1>11. CASE EnqueuePlainFails
  <2>1. LiveGraphs' \subseteq LiveGraphs
    BY <1>11 DEF EnqueuePlainFails, LiveGraphs, CachedGraphs, Reclaim
  <2> QED BY <1>11, <2>1, OwnedMoved, DoneInFlight DEF EnqueuePlainFails, Reclaim
<1>12. CASE CapturedLaunchFails
  <2>1. PICK kept \in KeptKeys : cudaGraphCache' = [j \in kept |-> cudaGraphCache[j]]
    BY <1>12 DEF CapturedLaunchFails
  <2>2. kept \subseteq DOMAIN cudaGraphCache
    BY DEF KeptKeys
  <2>3. LiveGraphs' \subseteq LiveGraphs
    BY <1>12, <2>1, <2>2 DEF CapturedLaunchFails, LiveGraphs, CachedGraphs, BusyGraphs
  <2> QED BY <1>12, <2>3, OwnedMoved, DoneInFlight
          DEF CapturedLaunchFails, BusyGraphs, OwnedOnce
<1>13. CASE DeferFails
  <2>1. LiveGraphs' \subseteq LiveGraphs
    BY <1>13 DEF DeferFails, LiveGraphs, CachedGraphs
  <2> QED BY <1>13, <2>1, OwnedMoved DEF DeferFails
<1>14. CASE DropContext \/ DropGraph
  <2>1. LiveGraphs' \subseteq LiveGraphs
    BY <1>14 DEF DropContext, DropGraph, LiveGraphs, CachedGraphs
  <2> QED BY <1>14, <2>1, OwnedMoved DEF DropContext, DropGraph, OwnedOnce
<1>15. CASE DropRest
  <2>1. LiveGraphs' \subseteq LiveGraphs
    BY <1>15 DEF DropRest, LiveGraphs, CachedGraphs
  <2> QED BY <1>15, <2>1, OwnedMoved DEF DropRest
<1>16. CASE HostEnqueue \/ DropSession \/ (\E s \in Streams : GpuStep(s)) \/ UNCHANGED vars
  BY <1>16 DEF HostEnqueue, DropSession, GpuStep, vars, OwnedOnce, LiveGraphs,
     CachedGraphs, GraphContexts
<1> QED
  BY <1>1, <1>2, <1>3, <1>4, <1>5, <1>6, <1>7, <1>8, <1>9, <1>10, <1>11, <1>12, <1>13,
     <1>14, <1>15, <1>16, OwnedDeferContext, OwnedDeferGraph, OwnedCapture
     DEF Next, CallerStep, CallStep, DropStep

(* The drained stream of the call holds nothing the call still tracks.      *)
LEMMA DrainedUntracked ==
    ASSUME \A k \in run.key : queue[k.stream] = <<>>,
           NEW s \in Streams, NEW i \in DOMAIN queue[s]
    PROVE  ~CallTracks(s, i)
BY DEF CallTracks

(* Every operation stays accounted for.                                     *)
LEMMA AccountStep ==
    ASSUME TypeOK, CallShape, OwnedOnce, GraphsKeyed, Accounted, RecordsOwned,
           [Next]_vars
    PROVE  Accounted' /\ RecordsOwned'
<1>1. ASSUME pc \in {"idle", "panicked", "acquired", "ready", "dropping", "dropped"}
      PROVE  \A s \in Streams : \A i \in DOMAIN queue[s] : ~CallTracks(s, i)
  BY <1>1 DEF CallTracks
<1>2. ASSUME NEW s \in Streams, NEW b \in Bindings,
             Acquire([stream |-> s, binding |-> b])
      PROVE  Accounted' /\ RecordsOwned'
  BY <1>1, <1>2, AccountedKept DEF Acquire, Idle, Reclaim, OnlyDoneLeave
<1>3. CASE AcquireFails
  BY <1>1, <1>3, AccountedKept DEF AcquireFails, Idle, Reclaim, OnlyDoneLeave
<1>4. CASE ReclaimContextsFails
  BY <1>1, <1>4, AccountedKept DEF ReclaimContextsFails, Idle, OnlyDoneLeave
<1>5. CASE ReclaimGraphsFails
  BY <1>1, <1>5, AccountedKept DEF ReclaimGraphsFails, Idle, OnlyDoneLeave
<1>6. CASE DropSession
  BY <1>1, <1>6, AccountedKept DEF DropSession, Idle, OnlyDoneLeave
<1>7. CASE ReleaseContext
  BY <1>1, <1>7, AccountedKept DEF ReleaseContext, OnlyDoneLeave
<1>8. CASE CompletionEvent
  BY <1>1, <1>8, AccountedKept DEF CompletionEvent, OnlyDoneLeave
<1>9. CASE DispatchFails
  BY <1>1, <1>9, AccountedKept DEF DispatchFails, OnlyDoneLeave
<1>10. CASE ReplayFails
  BY <1>1, <1>10, AccountedKept DEF ReplayFails, Reclaim, OnlyDoneLeave
<1>11. CASE EnqueuePlainFails
  BY <1>1, <1>11, AccountedKept DEF EnqueuePlainFails, Reclaim, OnlyDoneLeave
<1>12. CASE CapturedLaunchFails
  BY <1>1, <1>12, AccountedKept DEF CapturedLaunchFails, BusyGraphs, OnlyDoneLeave
<1>13. CASE HostSynchronize
  BY <1>13, DrainedUntracked, AccountedKept DEF HostSynchronize, OnlyDoneLeave
<1>14. CASE DeferFails
  BY <1>14, DrainedUntracked, AccountedKept DEF DeferFails, OnlyDoneLeave
<1>15. CASE DropContext
  BY <1>1, <1>15, AccountedKept DEF DropContext, OnlyDoneLeave
<1>16. CASE DropGraph
  BY <1>1, <1>16, AccountedKept DEF DropGraph, OnlyDoneLeave
<1>17. CASE DropRest
  BY <1>1, <1>17, AccountedKept DEF DropRest, OnlyDoneLeave
<1>18. CASE HostEnqueue
  <2>1. PICK k \in run.key, c \in run.context : Enqueue(k.stream, Work(c, k.binding))
    BY <1>18 DEF HostEnqueue
  <2>2. PICK l \in Keys, d \in Contexts : run = Call(l, {d}, {}, {})
    BY <1>18 DEF HostEnqueue, CallShape
  <2>3. /\ k \in Keys /\ c \in Contexts /\ run.key = {k} /\ run.context = {c}
        /\ k.stream \in Streams /\ k.binding \in SUBSET Tensors
    BY <2>2 DEF Call, Keys
  <2>4. pc' = "hostEnqueued" /\ run' = run /\ OnlyDoneLeave /\ pc = "acquired"
    BY <1>18 DEF HostEnqueue, OnlyDoneLeave
  <2>5. PICK n : n = Len(queue[k.stream]) + 1 /\ queue'[k.stream][n] = Work(c, k.binding)
    BY <2>1, <2>3, WorkTyped, AppendAt
  <2>6. CallTracks(k.stream, n)'
    BY <2>3, <2>4, <2>5 DEF CallTracks, Work
  <2> QED BY <2>1, <2>3, <2>4, <2>5, <2>6, WorkEnqueued
<1>19. CASE EnqueuePlain
  <2>1. PICK k \in run.key, c \in run.context : Enqueue(k.stream, Work(c, k.binding))
    BY <1>19 DEF EnqueuePlain
  <2>2. PICK l \in Keys, d \in Contexts, e \in Events : run = Call(l, {d}, {e}, {})
    BY <1>19 DEF EnqueuePlain, CallShape
  <2>3. /\ k \in Keys /\ c \in Contexts /\ run.key = {k} /\ run.context = {c}
        /\ k.stream \in Streams /\ k.binding \in SUBSET Tensors
    BY <2>2 DEF Call, Keys
  <2>4. pc' = "deferContext" /\ run' = run /\ OnlyDoneLeave /\ pc = "ready"
    BY <1>19 DEF EnqueuePlain, Reclaim, OnlyDoneLeave
  <2>5. PICK n : n = Len(queue[k.stream]) + 1 /\ queue'[k.stream][n] = Work(c, k.binding)
    BY <2>1, <2>3, WorkTyped, AppendAt
  <2>6. CallTracks(k.stream, n)'
    BY <2>3, <2>4, <2>5 DEF CallTracks, Work
  <2> QED BY <2>1, <2>3, <2>4, <2>5, <2>6, WorkEnqueued
<1>20. ASSUME NEW k \in Keys, NEW g \in Graphs, Launch(g, k.stream), g.exec = k,
              pc = "ready", pc' = "deferGraph", OnlyDoneLeave,
              run'.key = {k}, run'.graph = {g}
       PROVE  Accounted' /\ RecordsOwned'
  <2>1. /\ g.context \in Contexts /\ k.stream \in Streams /\ k.binding \in SUBSET Tensors
        /\ Enqueue(k.stream, Work(g.context, k.binding))
    BY <1>20 DEF Graphs, Keys, Launch
  <2>2. PICK n : n = Len(queue[k.stream]) + 1 /\ queue'[k.stream][n] = Work(g.context, k.binding)
    BY <2>1, WorkTyped, AppendAt
  <2>3. CallTracks(k.stream, n)'
    BY <1>20, <2>2 DEF CallTracks, Work
  <2> QED BY <1>20, <2>1, <2>2, <2>3, WorkEnqueued
<1>21. CASE ReplayCached
  <2>1. PICK k \in run.key :
          /\ k \in DOMAIN cudaGraphCache
          /\ Launch(cudaGraphCache[k], k.stream)
          /\ run' = Call(k, run.context, run.event, {cudaGraphCache[k]})
    BY <1>21 DEF ReplayCached
  <2>2. /\ k \in Keys /\ cudaGraphCache[k] \in Graphs /\ cudaGraphCache[k].exec = k
        /\ run'.key = {k} /\ run'.graph = {cudaGraphCache[k]}
    BY <2>1 DEF TypeOK, Runs, GraphsKeyed, Call
  <2>3. pc = "ready" /\ pc' = "deferGraph" /\ OnlyDoneLeave
    BY <1>21 DEF ReplayCached, Reclaim, OnlyDoneLeave
  <2> QED BY <1>20, <2>1, <2>2, <2>3
<1>22. CASE CaptureAndLaunch
  <2>1. PICK k \in run.key, c \in run.context :
          /\ Launch([context |-> c, exec |-> k], k.stream)
          /\ run' = Call(k, {}, run.event, {[context |-> c, exec |-> k]})
    BY <1>22 DEF CaptureAndLaunch
  <2> DEFINE g == [context |-> c, exec |-> k]
  <2>2. k \in Keys /\ g \in Graphs /\ g.exec = k /\ run'.key = {k} /\ run'.graph = {g}
    BY <2>1 DEF TypeOK, Runs, Graphs, Call
  <2>3. pc = "ready" /\ pc' = "deferGraph" /\ OnlyDoneLeave
    BY <1>22 DEF CaptureAndLaunch, Reclaim, OnlyDoneLeave
  <2>4. Launch(g, k.stream)
    BY <2>1
  <2> HIDE DEF g
  <2> QED BY <1>20, <2>2, <2>3, <2>4
<1>23. CASE DeferContext
  <2>1. PICK k \in run.key, c \in run.context, e \in run.event :
          /\ Enqueue(k.stream, Record(e))
          /\ inFlightContexts' = inFlightContexts \cup
                {[context |-> c, event |-> e, keepalive |-> k.binding]}
    BY <1>23 DEF DeferContext
  <2>2. pc = "deferContext" /\ UNCHANGED inFlightGraphs
    BY <1>23 DEF DeferContext
  <2>3. PICK l \in Keys, d \in Contexts, x \in Events :
          EventDevice[x] = StreamDevice[l.stream] /\ run = Call(l, {d}, {x}, {})
    BY <2>2 DEF CallShape
  <2>4. /\ k = l /\ c = d /\ e = x /\ run.key = {k} /\ run.context = {c}
        /\ k.stream \in Streams /\ e \in Events
    BY <2>3 DEF Call, Keys
  <2>5. e \notin InFlightEvents
    BY DEF OwnedOnce, InFlightEvents
  <2> DEFINE f == [context |-> c, event |-> e, keepalive |-> k.binding]
  <2>6. f \in inFlightContexts' /\ f.context = c /\ f.event = e /\ f.keepalive = k.binding
    BY <2>1
  <2> HIDE DEF f
  <2>7. e \in InFlightEvents'
    BY <2>6 DEF InFlightEvents
  <2>8. ASSUME NEW t \in Streams, NEW i \in DOMAIN queue[t], CallTracks(t, i)
        PROVE  /\ t = k.stream
               /\ queue[t][i].contexts = {f.context}
               /\ queue[t][i].tensors = f.keepalive
    BY <2>2, <2>4, <2>6, <2>8 DEF CallTracks
  <2>9. inFlightContexts \subseteq inFlightContexts' /\ inFlightGraphs \subseteq inFlightGraphs'
    BY <2>1, <2>2
  <2> QED BY <2>1, <2>3, <2>4, <2>5, <2>6, <2>7, <2>8, <2>9, RecordEnqueued
<1>24. CASE DeferGraph
  <2>1. PICK k \in run.key, g \in run.graph, e \in run.event :
          /\ Enqueue(k.stream, Record(e))
          /\ inFlightGraphs' = inFlightGraphs \cup
                {[graph |-> g, event |-> e, keepalive |-> k.binding]}
    BY <1>24 DEF DeferGraph
  <2>2. pc = "deferGraph" /\ UNCHANGED inFlightContexts
    BY <1>24 DEF DeferGraph
  <2>3. PICK l \in Keys, C \in SUBSET Contexts, x \in Events, h \in Graphs :
          /\ EventDevice[x] = StreamDevice[l.stream] /\ h.exec = l
          /\ run = Call(l, C, {x}, {h})
    BY <2>2 DEF CallShape
  <2>4. /\ k = l /\ g = h /\ e = x /\ run.key = {k} /\ run.graph = {g}
        /\ k.stream \in Streams /\ e \in Events
    BY <2>3 DEF Call, Keys
  <2>5. e \notin InFlightEvents
    BY DEF OwnedOnce, InFlightEvents
  <2> DEFINE f == [graph |-> g, event |-> e, keepalive |-> k.binding]
  <2>6. /\ f \in inFlightGraphs' /\ f.graph = g /\ f.event = e /\ f.keepalive = k.binding
        /\ f.graph.exec.stream = k.stream
    BY <2>1, <2>3, <2>4
  <2> HIDE DEF f
  <2>7. e \in InFlightEvents'
    BY <2>6 DEF InFlightEvents
  <2>8. ASSUME NEW t \in Streams, NEW i \in DOMAIN queue[t], CallTracks(t, i)
        PROVE  /\ t = k.stream
               /\ queue[t][i].contexts = {f.graph.context}
               /\ queue[t][i].tensors = f.keepalive
    BY <2>2, <2>4, <2>6, <2>8 DEF CallTracks
  <2>9. inFlightContexts \subseteq inFlightContexts' /\ inFlightGraphs \subseteq inFlightGraphs'
    BY <2>1, <2>2
  <2> QED BY <2>1, <2>3, <2>4, <2>5, <2>6, <2>7, <2>8, <2>9, RecordEnqueued
<1>25. CASE UNCHANGED vars
  BY <1>25, AccountedKept DEF vars, OnlyDoneLeave, CallTracks
<1> QED
  BY <1>2, <1>3, <1>4, <1>5, <1>6, <1>7, <1>8, <1>9, <1>10, <1>11, <1>12, <1>13, <1>14,
     <1>15, <1>16, <1>17, <1>18, <1>19, <1>21, <1>22, <1>23, <1>24, <1>25, AccountedTail
     DEF Next, CallerStep, CallStep, DropStep

-----------------------------------------------------------------------------
(* The inductive invariant holds: each call owns what its point in the code *)
(* says, nothing has two owners, and every operation a stream still has to  *)
(* complete is a record, or is tracked by the call or by an entry whose     *)
(* event is recorded behind it.                                             *)
THEOREM InductiveInvariant == Spec => []IInv
<1>1. Init => IInv
  <2> SUFFICES ASSUME Init PROVE IInv
    OBVIOUS
  <2> USE DEF Init, NoRun
  <2>1. TypeOK
    BY NoRunTyped DEF TypeOK
  <2>2. CallShape
    BY DEF CallShape
  <2>3. OwnedOnce
    <3>1. LiveGraphs = {}
      BY DEF LiveGraphs, CachedGraphs
    <3> QED BY <3>1 DEF OwnedOnce, GraphContexts
  <2>4. GraphsKeyed
    BY DEF GraphsKeyed
  <2>5. Accounted /\ RecordsOwned
    BY DEF Accounted, RecordsOwned
  <2> QED BY <2>1, <2>2, <2>3, <2>4, <2>5 DEF IInv
<1>2. IInv /\ [Next]_vars => IInv'
  BY TypeStep, ShapeStep, OwnedStep, KeyedStep, AccountStep DEF IInv
<1> QED BY <1>1, <1>2, PTL DEF Spec

(* A context, an event and a graph have one owner at any moment.            *)
THEOREM SingleOwner == Spec => []OwnedOnce
<1>1. IInv => OwnedOnce
  BY DEF IInv
<1> QED BY <1>1, InductiveInvariant, PTL

(* What the operations of a stream use, said of one position.               *)
LEMMA UserOfContext ==
    ASSUME IInv, NEW s \in Streams, NEW i \in DOMAIN queue[s],
           NEW c \in queue[s][i].contexts
    PROVE  \/ \E f \in inFlightContexts :
                 /\ f.context = c /\ queue[s][i].tensors = f.keepalive
                 /\ \E j \in DOMAIN queue[s] : f.event \in queue[s][j].records
           \/ \E f \in inFlightGraphs :
                 /\ f.graph.context = c /\ queue[s][i].tensors = f.keepalive
                 /\ f.graph.exec.stream = s
                 /\ \E j \in DOMAIN queue[s] : f.event \in queue[s][j].records
           \/ \E k \in run.key :
                 /\ k.stream = s /\ queue[s][i].tensors = k.binding
                 /\ c \in run.context /\ pc \in {"hostEnqueued", "deferContext"}
           \/ \E k \in run.key, g \in run.graph :
                 /\ k.stream = s /\ queue[s][i].tensors = k.binding
                 /\ g.context = c /\ g.exec.stream = s /\ pc = "deferGraph"
<1>1. CASE IsRecord(s, i)
  BY <1>1 DEF IsRecord
<1>2. CASE ContextTracks(s, i)
  BY <1>2 DEF ContextTracks, Tracks
<1>3. CASE GraphTracks(s, i)
  BY <1>3 DEF GraphTracks, Tracks
<1>4. CASE CallTracks(s, i)
  <2>1. PICK k \in run.key : k.stream = s /\ queue[s][i].tensors = k.binding
    BY <1>4 DEF CallTracks
  <2>2. CASE pc = "deferGraph"
    <3>1. PICK l \in Keys, C \in SUBSET Contexts, e \in Events, h \in Graphs :
            h.exec = l /\ run = Call(l, C, {e}, {h})
      BY <2>2 DEF IInv, CallShape
    <3>2. run.key = {l} /\ run.graph = {h}
      BY <3>1 DEF Call
    <3>3. c \in {g.context : g \in run.graph}
      BY <1>4, <2>2 DEF CallTracks
    <3>4. c = h.context /\ h.exec.stream = s
      BY <2>1, <3>1, <3>2, <3>3
    <3> QED BY <2>1, <2>2, <3>2, <3>4
  <2>3. CASE pc # "deferGraph"
    BY <1>4, <2>1, <2>3 DEF CallTracks
  <2> QED BY <2>2, <2>3
<1> QED BY <1>1, <1>2, <1>3, <1>4 DEF IInv, Accounted

(* What an entry in flight or the call keeps alive is retained.             *)
LEMMA RetainedBy ==
    /\ \A f \in inFlightContexts : f.keepalive \subseteq RetainedTensors
    /\ \A f \in inFlightGraphs : f.keepalive \subseteq RetainedTensors
    /\ \A k \in run.key : k.binding \subseteq RetainedTensors
<1> DEFINE byContexts == UNION {f.keepalive : f \in inFlightContexts}
           byGraphs == UNION {f.keepalive : f \in inFlightGraphs}
           byCall == UNION {k.binding : k \in run.key}
<1>1. RetainedTensors = byContexts \cup byGraphs \cup byCall
  BY DEF RetainedTensors
<1>2. /\ \A f \in inFlightContexts : f.keepalive \subseteq byContexts
      /\ \A f \in inFlightGraphs : f.keepalive \subseteq byGraphs
      /\ \A k \in run.key : k.binding \subseteq byCall
  OBVIOUS
<1> HIDE DEF byContexts, byGraphs, byCall
<1> QED BY <1>1, <1>2

(* The context and the storages of every operation the GPU still has to     *)
(* complete are owned by the session, and the context is not in the pool:   *)
(* freeing a tensor or reusing a context under running work is impossible.  *)
THEOREM RetainedUntilComplete == Spec => []WorkRetained
<1>1. IInv => WorkRetained
  <2> SUFFICES ASSUME IInv, NEW s \in Streams, NEW i \in DOMAIN queue[s]
               PROVE  /\ queue[s][i].tensors \subseteq RetainedTensors
                      /\ queue[s][i].contexts \subseteq LiveContexts \ contextPool
    BY DEF WorkRetained, PendingOps
  <2>1. ASSUME NEW c \in queue[s][i].contexts
        PROVE  /\ c \in LiveContexts \ contextPool
               /\ queue[s][i].tensors \subseteq RetainedTensors
    <3>1. CASE \E f \in inFlightContexts :
                  f.context = c /\ queue[s][i].tensors = f.keepalive
      BY <3>1, RetainedBy DEF IInv, OwnedOnce, LiveContexts
    <3>2. CASE \E f \in inFlightGraphs :
                  f.graph.context = c /\ queue[s][i].tensors = f.keepalive
      <4>1. PICK f \in inFlightGraphs :
                  f.graph.context = c /\ queue[s][i].tensors = f.keepalive
        BY <3>2
      <4>2. c \in GraphContexts
        BY <4>1 DEF GraphContexts, LiveGraphs
      <4>3. c \in LiveContexts \ contextPool
        BY <4>2 DEF IInv, OwnedOnce, LiveContexts
      <4> QED BY <4>1, <4>3, RetainedBy
    <3>3. CASE \E k \in run.key :
                  queue[s][i].tensors = k.binding /\ c \in run.context
      <4>1. c \in LiveContexts \ contextPool
        BY <3>3 DEF IInv, OwnedOnce, LiveContexts
      <4> QED BY <3>3, <4>1, RetainedBy
    <3>4. CASE \E k \in run.key, g \in run.graph :
                  queue[s][i].tensors = k.binding /\ g.context = c
      <4>1. c \in GraphContexts
        BY <3>4 DEF GraphContexts, LiveGraphs
      <4>2. c \in LiveContexts \ contextPool
        BY <4>1 DEF IInv, OwnedOnce, LiveContexts
      <4> QED BY <3>4, <4>2, RetainedBy
    <3> QED BY <2>1, <3>1, <3>2, <3>3, <3>4, UserOfContext
  <2>2. queue[s][i].contexts = {} => queue[s][i].tensors \subseteq RetainedTensors
    <3>1. CASE IsRecord(s, i)
      BY <3>1 DEF IsRecord
    <3>2. CASE ContextTracks(s, i) \/ GraphTracks(s, i) \/ CallTracks(s, i)
      BY <3>2, RetainedBy DEF ContextTracks, GraphTracks, CallTracks, Tracks
    <3> QED BY <3>1, <3>2 DEF IInv, Accounted
  <2> QED BY <2>1, <2>2
<1> QED BY <1>1, InductiveInvariant, PTL

(* An event free for reuse has no record waiting, and events stay on their  *)
(* device.                                                                  *)
THEOREM ReusableEvents == Spec => []EventsReusable
<1>1. IInv => EventsReusable
  <2> SUFFICES ASSUME IInv, NEW s \in Streams, NEW i \in DOMAIN queue[s],
                      NEW e \in queue[s][i].records
               PROVE  e \notin eventPool \cup run.event /\ EventDevice[e] = StreamDevice[s]
    BY DEF EventsReusable, PendingOps
  <2>1. e \in InFlightEvents /\ EventDevice[e] = StreamDevice[s]
    BY DEF IInv, RecordsOwned
  <2> QED BY <2>1 DEF InFlightEvents, IInv, OwnedOnce
<1> QED BY <1>1, InductiveInvariant, PTL

(* No context has work on two streams at once.                              *)
THEOREM OneStream == Spec => []OneStreamPerContext
<1>1. IInv => OneStreamPerContext
  <2> SUFFICES ASSUME IInv, NEW s \in Streams, NEW t \in Streams,
                      NEW i \in DOMAIN queue[s], NEW j \in DOMAIN queue[t],
                      NEW c \in queue[s][i].contexts, c \in queue[t][j].contexts
               PROVE  s = t
    BY DEF OneStreamPerContext
  <2> DEFINE ByContext(u) == \E f \in inFlightContexts :
                 /\ f.context = c
                 /\ \E n \in DOMAIN queue[u] : f.event \in queue[u][n].records
             ByGraph(u) == \E f \in inFlightGraphs :
                 f.graph.context = c /\ f.graph.exec.stream = u
             ByCall(u) == c \in run.context /\ \E k \in run.key : k.stream = u
             ByReplay(u) == \E g \in run.graph :
                 g.context = c /\ g.exec.stream = u
  <2>1. /\ ByContext(s) \/ ByGraph(s) \/ ByCall(s) \/ ByReplay(s)
        /\ ByContext(t) \/ ByGraph(t) \/ ByCall(t) \/ ByReplay(t)
    BY UserOfContext
  <2>2. CASE ByContext(s) \/ ByContext(t)
    <3>1. PICK f \in inFlightContexts : f.context = c
      BY <2>2
    <3>2. c \notin run.context /\ c \notin GraphContexts
      BY <3>1 DEF IInv, OwnedOnce
    <3>3. ~ByCall(s) /\ ~ByCall(t) /\ ~ByReplay(s) /\ ~ByReplay(t)
            /\ ~ByGraph(s) /\ ~ByGraph(t)
      BY <3>2 DEF GraphContexts, LiveGraphs
    <3>4. ByContext(s) /\ ByContext(t)
      BY <2>1, <3>3
    <3>5. \A g \in inFlightContexts : g.context = c => g = f
      BY <3>1 DEF IInv, OwnedOnce
    <3>6. /\ \E n \in DOMAIN queue[s] : f.event \in queue[s][n].records
          /\ \E n \in DOMAIN queue[t] : f.event \in queue[t][n].records
      BY <3>4, <3>5
    <3> QED BY <3>6 DEF IInv, RecordsOwned
  <2>3. CASE ByCall(s) \/ ByCall(t)
    <3>1. c \in run.context
      BY <2>3
    <3>2. c \notin GraphContexts /\ \A f \in inFlightContexts : f.context # c
      BY <3>1 DEF IInv, OwnedOnce
    <3>3. ByCall(s) /\ ByCall(t)
      BY <2>1, <3>2 DEF GraphContexts, LiveGraphs
    <3>4. \A k, l \in run.key : k = l
      BY DEF IInv, CallShape, NoRun, Call
    <3> QED BY <3>3, <3>4
  <2>4. CASE ByGraph(s) \/ ByReplay(s)
    <3>1. PICK g \in LiveGraphs : g.context = c /\ g.exec.stream = s
      BY <2>4 DEF LiveGraphs
    <3>2. CASE ByGraph(t) \/ ByReplay(t)
      <4>1. PICK h \in LiveGraphs : h.context = c /\ h.exec.stream = t
        BY <3>2 DEF LiveGraphs
      <4>2. g = h
        BY <3>1, <4>1 DEF IInv, OwnedOnce
      <4> QED BY <3>1, <4>1, <4>2
    <3> QED BY <2>1, <2>2, <2>3, <3>2
  <2> QED BY <2>1, <2>2, <2>3, <2>4
<1> QED BY <1>1, InductiveInvariant, PTL

(* An event seen complete covers its run.                                   *)
THEOREM CompletionSound == Spec => []CompletionCovers
<1>1. ASSUME IInv, NEW e, NEW s \in Streams, NEW j \in DOMAIN queue[s],
             e \in queue[s][j].records
      PROVE  ~EventComplete(e)
  BY <1>1 DEF EventComplete
<1>2. IInv => CompletionCovers
  <2> SUFFICES ASSUME IInv PROVE CompletionCovers
    OBVIOUS
  <2>1. ASSUME NEW f \in DoneContexts, NEW s \in Streams, NEW i \in DOMAIN queue[s],
               f.context \in queue[s][i].contexts
        PROVE  FALSE
    <3>1. f \in inFlightContexts /\ EventComplete(f.event)
      BY DEF DoneContexts
    <3>2. f.context \notin run.context /\ f.context \notin GraphContexts
      BY <3>1 DEF IInv, OwnedOnce
    <3>3. \E g \in inFlightContexts :
             /\ g.context = f.context
             /\ \E j \in DOMAIN queue[s] : g.event \in queue[s][j].records
      BY <2>1, <3>2, UserOfContext DEF GraphContexts, LiveGraphs
    <3>4. \A g \in inFlightContexts : g.context = f.context => g = f
      BY <3>1 DEF IInv, OwnedOnce
    <3> QED BY <1>1, <3>1, <3>3, <3>4
  <2>2. ASSUME NEW f \in DoneGraphs, NEW s \in Streams, NEW i \in DOMAIN queue[s],
               f.graph.context \in queue[s][i].contexts
        PROVE  \/ f.graph \in run.graph
               \/ \E g \in BusyGraphs : g.graph = f.graph
    <3>1. f \in inFlightGraphs /\ f.graph \in LiveGraphs
      BY DEF DoneGraphs, LiveGraphs
    <3>2. f.graph.context \in GraphContexts
      BY <3>1 DEF GraphContexts
    <3>3. /\ f.graph.context \notin run.context
          /\ \A g \in inFlightContexts : g.context # f.graph.context
      BY <3>2 DEF IInv, OwnedOnce
    <3>4. \A g \in LiveGraphs : g.context = f.graph.context => g = f.graph
      BY <3>1 DEF IInv, OwnedOnce
    <3>5. CASE \E g \in inFlightGraphs :
                  /\ g.graph.context = f.graph.context
                  /\ \E j \in DOMAIN queue[s] : g.event \in queue[s][j].records
      <4>1. PICK g \in inFlightGraphs :
                  /\ g.graph.context = f.graph.context
                  /\ \E j \in DOMAIN queue[s] : g.event \in queue[s][j].records
        BY <3>5
      <4>2. ~EventComplete(g.event)
        BY <1>1, <4>1
      <4>3. g.graph = f.graph
        BY <3>4, <4>1 DEF LiveGraphs
      <4> QED BY <4>1, <4>2, <4>3 DEF BusyGraphs, DoneGraphs
    <3>6. CASE \E g \in run.graph : g.context = f.graph.context
      BY <3>4, <3>6 DEF LiveGraphs
    <3> QED BY <2>2, <3>3, <3>5, <3>6, UserOfContext
  <2> QED BY <2>1, <2>2 DEF CompletionCovers, PendingOps
<1> QED BY <1>2, InductiveInvariant, PTL

-----------------------------------------------------------------------------
(* A graph is evicted or dropped only when nothing is replaying it.         *)
THEOREM NoEvictionWhileReplayed == Spec => EvictionIdle
<1> DEFINE Evicts == \A k \in DOMAIN cudaGraphCache \ DOMAIN cudaGraphCache' :
                        \A op \in PendingOps : cudaGraphCache[k].context \notin op.contexts
<1>1. IInv /\ [Next]_vars => [Evicts]_vars
  <2> SUFFICES ASSUME IInv, [Next]_vars,
                      NEW k \in DOMAIN cudaGraphCache, k \notin DOMAIN cudaGraphCache',
                      NEW s \in Streams, NEW i \in DOMAIN queue[s],
                      cudaGraphCache[k].context \in queue[s][i].contexts
               PROVE  FALSE
    BY DEF PendingOps
  <2> DEFINE c == cudaGraphCache[k].context
  <2>1. \/ inFlightGraphs = DoneGraphs /\ pc = "ready"
        \/ inFlightGraphs = {} /\ pc = "dropping"
    <3>1. CASE CaptureAndLaunch \/ CapturedLaunchFails
      <4>1. \E l \in run.key : Capturable(l)
        BY <3>1 DEF CaptureAndLaunch, CapturedLaunchFails
      <4>2. pc = "ready"
        BY <3>1 DEF CaptureAndLaunch, CapturedLaunchFails
      <4> QED BY <4>1, <4>2 DEF Capturable, BusyGraphs, DoneGraphs
    <3>2. CASE DropRest
      BY <3>2 DEF DropRest
    <3>3. cudaGraphCache' # cudaGraphCache
      OBVIOUS
    <3>4. ~CallerStep
      BY <3>3 DEF CallerStep, Acquire, AcquireFails, ReclaimContextsFails,
         ReclaimGraphsFails, DropSession
    <3>5. CASE CallStep
      BY <3>1, <3>3, <3>5 DEF CallStep, ReleaseContext, HostEnqueue, HostSynchronize,
         CompletionEvent, DispatchFails, ReplayCached, ReplayFails, EnqueuePlain,
         EnqueuePlainFails, DeferContext, DeferGraph, DeferFails
    <3>6. CASE DropStep
      BY <3>2, <3>3, <3>6 DEF DropStep, DropContext, DropGraph
    <3>7. ~(\E t \in Streams : GpuStep(t)) /\ ~UNCHANGED vars
      BY <3>3 DEF GpuStep, vars
    <3> QED BY <3>4, <3>5, <3>6, <3>7 DEF Next
  <2>2. c \in GraphContexts
    BY DEF GraphContexts, LiveGraphs, CachedGraphs
  <2>3. c \notin run.context /\ \A f \in inFlightContexts : f.context # c
    BY <2>2 DEF IInv, OwnedOnce
  <2> HIDE DEF c
  <2>4. PICK f \in inFlightGraphs : \E j \in DOMAIN queue[s] : f.event \in queue[s][j].records
    BY <2>1, <2>3, UserOfContext DEF c
  <2>5. ~EventComplete(f.event)
    BY <2>4 DEF EventComplete
  <2> QED BY <2>1, <2>4, <2>5 DEF DoneGraphs
<1> QED BY <1>1, InductiveInvariant, PTL DEF Spec, EvictionIdle

(* The countdown of a key, which may have reached zero, is at most its next *)
(* interval, and that lies between the initial one and the limit.           *)
THEOREM BackoffLimited == Spec => []BackoffBounded
<1>1. Init => BackoffBounded
  BY DEF Init, BackoffBounded
<1>2. ASSUME TypeOK, BackoffBounded, NEW k \in run.key, PlainPath(k)
      PROVE  BackoffBounded'
  <2>1. CASE GraphsBusy(k)
    BY <1>2, <2>1 DEF GraphsBusy, BackoffBounded
  <2>2. CASE CapturePostponed(k)
    <3>1. /\ k \in DOMAIN cudaGraphBackoff
          /\ cudaGraphBackoff[k] \in Backoffs
          /\ cudaGraphBackoff[k].remaining_runs # 0
      BY <1>2, <2>2 DEF CapturePostponed, SkipsCapture, TypeOK
    <3>2. /\ DOMAIN cudaGraphBackoff' = DOMAIN cudaGraphBackoff
          /\ \A l \in DOMAIN cudaGraphBackoff : l # k =>
                cudaGraphBackoff'[l] = cudaGraphBackoff[l]
          /\ cudaGraphBackoff'[k].remaining_runs = cudaGraphBackoff[k].remaining_runs - 1
          /\ cudaGraphBackoff'[k].next_runs = cudaGraphBackoff[k].next_runs
      BY <2>2, <3>1 DEF CapturePostponed, Backoffs
    <3> QED BY <1>2, <3>1, <3>2 DEF BackoffBounded, Backoffs
  <2>3. CASE CaptureFailed(k)
    <3>1. /\ BackedOff(k).remaining_runs <= BackedOff(k).next_runs
          /\ InitialBackoff <= BackedOff(k).next_runs
          /\ BackedOff(k).next_runs <= MaxBackoff
      <4>1. ASSUME NEW n \in Nat, n <= MaxBackoff
            PROVE  n <= Doubled(n) /\ Doubled(n) <= MaxBackoff
        BY <4>1, BoundAssumption DEF Doubled
      <4>2. CASE k \in DOMAIN cudaGraphBackoff
        <5> DEFINE next == cudaGraphBackoff[k].next_runs
        <5>1. next \in Nat /\ InitialBackoff <= next /\ next <= MaxBackoff
          BY <1>2, <4>2 DEF BackoffBounded, TypeOK, Backoffs
        <5>2. BackedOff(k).remaining_runs = next /\ BackedOff(k).next_runs = Doubled(next)
          BY <4>2 DEF BackedOff
        <5> HIDE DEF next
        <5>3. next <= Doubled(next) /\ Doubled(next) <= MaxBackoff
          BY <4>1, <5>1
        <5>4. Doubled(next) \in Nat
          BY <5>1, BoundAssumption DEF Doubled
        <5> QED BY <5>1, <5>2, <5>3, <5>4, BoundAssumption
      <4>3. CASE k \notin DOMAIN cudaGraphBackoff
        <5>1. /\ BackedOff(k).remaining_runs = InitialBackoff
              /\ BackedOff(k).next_runs = Doubled(InitialBackoff)
          BY <4>3 DEF BackedOff
        <5>2. InitialBackoff \in Nat /\ InitialBackoff <= MaxBackoff
          BY BoundAssumption
        <5>3. InitialBackoff <= Doubled(InitialBackoff) /\ Doubled(InitialBackoff) <= MaxBackoff
          BY <4>1, <5>2
        <5> QED BY <5>1, <5>3
      <4> QED BY <4>2, <4>3
    <3>2. \A l \in DOMAIN cudaGraphBackoff' :
             \/ l = k /\ cudaGraphBackoff'[l] = BackedOff(k)
             \/ l \in DOMAIN cudaGraphBackoff /\ cudaGraphBackoff'[l] = cudaGraphBackoff[l]
      BY <2>3 DEF CaptureFailed
    <3> QED BY <1>2, <3>1, <3>2 DEF BackoffBounded
  <2> QED BY <1>2, <2>1, <2>2, <2>3 DEF PlainPath
<1>3. ASSUME BackoffBounded, NEW k \in run.key, ClearBackoff(k)
      PROVE  BackoffBounded'
  BY <1>3 DEF ClearBackoff, BackoffBounded
<1>4. TypeOK /\ BackoffBounded /\ [Next]_vars => BackoffBounded'
  <2> SUFFICES ASSUME TypeOK, BackoffBounded, [Next]_vars PROVE BackoffBounded'
    OBVIOUS
  <2>1. CASE UNCHANGED cudaGraphBackoff
    BY <2>1 DEF BackoffBounded
  <2>2. CASE EnqueuePlain \/ EnqueuePlainFails
    BY <1>2, <2>2 DEF EnqueuePlain, EnqueuePlainFails
  <2>3. CASE CaptureAndLaunch \/ CapturedLaunchFails
    BY <1>3, <2>3 DEF CaptureAndLaunch, CapturedLaunchFails
  <2>4. CASE DropRest
    BY <2>4 DEF DropRest, BackoffBounded
  <2>5. CASE CallerStep
    BY <2>1, <2>5 DEF CallerStep, Acquire, AcquireFails, ReclaimContextsFails,
       ReclaimGraphsFails, DropSession
  <2>6. CASE CallStep
    BY <2>1, <2>2, <2>3, <2>6 DEF CallStep, ReleaseContext, HostEnqueue, HostSynchronize,
       CompletionEvent, DispatchFails, ReplayCached, ReplayFails, DeferContext,
       DeferGraph, DeferFails
  <2>7. CASE DropStep
    BY <2>1, <2>4, <2>7 DEF DropStep, DropContext, DropGraph
  <2>8. CASE (\E s \in Streams : GpuStep(s)) \/ UNCHANGED vars
    BY <2>1, <2>8 DEF GpuStep, vars
  <2> QED BY <2>5, <2>6, <2>7, <2>8 DEF Next
<1> QED BY <1>1, <1>4, TypeCorrect, PTL DEF Spec

(* The cache is finite and within its limit.                                *)
CacheLimited ==
    /\ IsFiniteSet(DOMAIN cudaGraphCache)
    /\ Cardinality(DOMAIN cudaGraphCache) <= MaxCacheEntries

(* What is kept of the cache leaves room for one more entry.                *)
LEMMA KeptKeysLeaveRoom ==
    ASSUME CacheLimited, NEW kept \in KeptKeys
    PROVE  IsFiniteSet(kept) /\ Cardinality(kept) + 1 <= MaxCacheEntries
           /\ Cardinality(kept) \in Nat
<1> DEFINE cached == DOMAIN cudaGraphCache
<1>1. IsFiniteSet(cached) /\ Cardinality(cached) \in Nat
  BY FS_CardinalityType DEF CacheLimited
<1>2. CASE Cardinality(cached) >= MaxCacheEntries
  <2>1. PICK victim \in cached : kept = cached \ {victim}
    BY <1>2 DEF KeptKeys
  <2>2. IsFiniteSet(kept) /\ Cardinality(kept) = Cardinality(cached) - 1
    BY <1>1, <2>1, FS_RemoveElement
  <2>3. Cardinality(kept) \in Nat
    BY <2>2, FS_CardinalityType
  <2>4. Cardinality(cached) <= MaxCacheEntries
    BY DEF CacheLimited
  <2> HIDE DEF cached
  <2> QED BY <1>1, <2>2, <2>3, <2>4, BoundAssumption
<1>3. CASE ~(Cardinality(cached) >= MaxCacheEntries)
  <2>1. kept = cached
    BY <1>3 DEF KeptKeys
  <2> HIDE DEF cached
  <2> QED BY <1>1, <1>3, <2>1, BoundAssumption
<1> QED BY <1>2, <1>3

(* The cache never holds more graphs than its limit, each under the key it  *)
(* replays, whichever entry the eviction picks.                             *)
THEOREM CacheWithinLimit == Spec => []CacheSound
<1>1. Init => CacheLimited
  <2> SUFFICES ASSUME Init PROVE CacheLimited
    OBVIOUS
  <2>1. DOMAIN cudaGraphCache = {}
    BY DEF Init
  <2> QED BY <2>1, FS_EmptySet, BoundAssumption DEF CacheLimited
<1>2. CacheLimited /\ [Next]_vars => CacheLimited'
  <2> SUFFICES ASSUME CacheLimited, [Next]_vars PROVE CacheLimited'
    OBVIOUS
  <2>1. CASE UNCHANGED cudaGraphCache
    BY <2>1 DEF CacheLimited
  <2>2. CASE CaptureAndLaunch
    <3>1. PICK k \in run.key, kept \in KeptKeys :
            /\ k \notin DOMAIN cudaGraphCache
            /\ DOMAIN cudaGraphCache' = kept \cup {k}
      BY <2>2 DEF CaptureAndLaunch, Capturable
    <3>2. /\ IsFiniteSet(kept) /\ Cardinality(kept) \in Nat
          /\ Cardinality(kept) + 1 <= MaxCacheEntries
      BY KeptKeysLeaveRoom
    <3>3. k \notin kept
      BY <3>1 DEF KeptKeys
    <3>4. IsFiniteSet(kept \cup {k}) /\ Cardinality(kept \cup {k}) = Cardinality(kept) + 1
      BY <3>2, <3>3, FS_AddElement
    <3> QED BY <3>1, <3>2, <3>4 DEF CacheLimited
  <2>3. CASE CapturedLaunchFails
    <3>1. PICK kept \in KeptKeys : DOMAIN cudaGraphCache' = kept
      BY <2>3 DEF CapturedLaunchFails
    <3> QED BY <3>1, KeptKeysLeaveRoom, BoundAssumption DEF CacheLimited
  <2>4. CASE DropRest
    <3>1. DOMAIN cudaGraphCache' = {}
      BY <2>4 DEF DropRest
    <3> QED BY <3>1, FS_EmptySet, BoundAssumption DEF CacheLimited
  <2>5. CASE CallerStep
    BY <2>1, <2>5 DEF CallerStep, Acquire, AcquireFails, ReclaimContextsFails,
       ReclaimGraphsFails, DropSession
  <2>6. CASE CallStep
    BY <2>1, <2>2, <2>3, <2>6 DEF CallStep, ReleaseContext, HostEnqueue, HostSynchronize,
       CompletionEvent, DispatchFails, ReplayCached, ReplayFails, EnqueuePlain,
       EnqueuePlainFails, DeferContext, DeferGraph, DeferFails
  <2>7. CASE DropStep
    BY <2>1, <2>4, <2>7 DEF DropStep, DropContext, DropGraph
  <2>8. CASE (\E s \in Streams : GpuStep(s)) \/ UNCHANGED vars
    BY <2>1, <2>8 DEF GpuStep, vars
  <2> QED BY <2>5, <2>6, <2>7, <2>8 DEF Next
<1>3. CacheLimited /\ IInv => CacheSound
  BY DEF CacheLimited, IInv, GraphsKeyed, CacheSound
<1> QED BY <1>1, <1>2, <1>3, InductiveInvariant, PTL DEF Spec
=============================================================================
