---------------------------- MODULE SinkRunProofs ----------------------------
(***************************************************************************)
(* Proofs about SinkRun for every value of its constants.                  *)
(***************************************************************************)
EXTENDS SinkRun, TLAPS

LEMMA BatchTyped ==
    ASSUME NEW b \in Batches
    PROVE  /\ b \in Seq(SUBSET Names)
           /\ Len(b) \in 1 .. MaxBatch
<1>1. PICK n \in 1 .. MaxBatch : b \in [1 .. n -> SUBSET Names]
  BY DEF Batches
<1>2. n \in Nat
  BY <1>1, SinkAssumption
<1>3. b \in Seq(SUBSET Names) /\ Len(b) = n
  BY <1>1, <1>2
<1> QED BY <1>1, <1>3

LEMMA ReturnedTyped ==
    ASSUME NEW i \in 1 .. MaxBatch
    PROVE  Returned(i) \in Contents /\ Returned(i) \notin {Unset, Early}
BY SinkAssumption DEF Contents, Returned, Unset, Early

LEMMA CopiesTyped ==
    ASSUME TypeOK, NEW r \in Runs, copied[r] < Len(batch[r]), NEW value \in Contents
    PROVE  /\ copied[r] + 1 \in 1 .. MaxBatch
           /\ copied[r] + 1 \in DOMAIN batch[r]
           /\ batch[r][copied[r] + 1] \subseteq Names
           /\ Copies(r, value) \in Ops
<1>1. /\ copied[r] \in 0 .. MaxBatch /\ MaxBatch \in Nat
      /\ batch[r] \in Seq(SUBSET Names) /\ Len(batch[r]) <= MaxBatch
      /\ batches[r] \in 0 .. MaxBatches
  BY SinkAssumption DEF TypeOK
<1>2. copied[r] + 1 \in 1 .. MaxBatch /\ copied[r] + 1 \in 1 .. Len(batch[r])
  BY <1>1
<1>3. copied[r] + 1 \in DOMAIN batch[r] /\ batch[r][copied[r] + 1] \in SUBSET Names
  BY <1>1, <1>2
<1>4. Copies(r, value) \in Ops
  BY <1>1, <1>3 DEF Copies, Ops
<1> QED BY <1>2, <1>3, <1>4

LEMMA RecordTyped ==
    ASSUME TypeOK, NEW r \in Runs
    PROVE  Record(r) \in Ops
BY DEF TypeOK, Record, Ops, Contents

LEMMA EnqueueTyped ==
    ASSUME queue \in [Streams -> Seq(Ops)], NEW s \in Streams, NEW op \in Ops,
           Enqueue(s, op)
    PROVE  queue' \in [Streams -> Seq(Ops)]
BY DEF Enqueue

LEMMA StreamTyped == \A r \in Runs : StreamOf[r] \in Streams
BY SinkAssumption

LEMMA EarlyWithin ==
    ASSUME TypeOK, NEW r \in Runs, copied[r] < EarlyCount(r)
    PROVE  copied[r] < Len(batch[r])
BY DEF TypeOK, EarlyCount

LEMMA ReleaseTyped ==
    ASSUME TypeOK, NEW r \in Runs, Release(r)
    PROVE  TypeOK'
<1>1. <<>> \in Seq(SUBSET Names) /\ Len(<<>>) = 0 /\ 0 <= MaxBatch
      /\ 0 \in 0 .. MaxBatches /\ 0 \in 0 .. MaxBatch
  BY SinkAssumption
<1> QED BY <1>1 DEF Release, TypeOK, Endings, ClearedFlags, Blank, Contents

(* No step breaks the types.                                                *)
LEMMA TypeStep ==
    ASSUME TypeOK, [Next]_vars
    PROVE  TypeOK'
<1>1. ASSUME NEW r \in Runs, Checkout(r) PROVE TypeOK'
  <2>1. PICK e \in Events :
          /\ event' = [event EXCEPT ![r] = {e}]
          /\ eventPool' = eventPool \ {e}
    BY <1>1 DEF Checkout
  <2> QED BY <1>1, <2>1 DEF Checkout, TypeOK, Blank, Contents
<1>2. ASSUME NEW r \in Runs, Submit(r) PROVE TypeOK'
  BY <1>2 DEF Submit, TypeOK
<1>3. ASSUME NEW r \in Runs, Receive(r) PROVE TypeOK'
  <2>1. PICK b \in Batches, last \in Endings :
          /\ batch' = [batch EXCEPT ![r] = b]
          /\ ending' = [ending EXCEPT ![r] = last]
    BY <1>3 DEF Receive
  <2>2. b \in Seq(SUBSET Names) /\ Len(b) <= MaxBatch
    BY BatchTyped, SinkAssumption
  <2>3. batches' \in [Runs -> 0 .. MaxBatches]
    BY <1>3, SinkAssumption DEF Receive, TypeOK
  <2> QED BY <1>3, <2>1, <2>2, <2>3 DEF Receive, TypeOK
<1>4. ASSUME NEW r \in Runs, CopyEarly(r) PROVE TypeOK'
  <2>1. copied[r] < Len(batch[r])
    BY <1>4, EarlyWithin DEF CopyEarly
  <2>2. Early \in Contents
    BY DEF Contents
  <2>3. queue' \in [Streams -> Seq(Ops)]
    BY <1>4, <2>1, <2>2, CopiesTyped, EnqueueTyped, StreamTyped DEF CopyEarly, TypeOK
  <2>4. copied' \in [Runs -> 0 .. MaxBatch] /\ written' \in [Runs -> SUBSET Names]
    BY <1>4, <2>1, <2>2, CopiesTyped DEF CopyEarly, TypeOK
  <2> QED BY <1>4, <2>3, <2>4 DEF CopyEarly, TypeOK
<1>5. ASSUME NEW r \in Runs, EarlyDone(r) PROVE TypeOK'
  <2>1. <<>> \in Seq(SUBSET Names) /\ Len(<<>>) = 0 /\ 0 <= MaxBatch /\ 0 \in 0 .. MaxBatch
    BY SinkAssumption
  <2> QED BY <1>5, <2>1 DEF EarlyDone, TypeOK
<1>6. ASSUME NEW r \in Runs, Awaited(r) PROVE TypeOK'
  <2>1. 0 \in 0 .. MaxBatch
    BY SinkAssumption
  <2> QED BY <1>6, <2>1 DEF Awaited, TypeOK
<1>7. ASSUME NEW r \in Runs, CopyFinal(r) PROVE TypeOK'
  <2>1. copied[r] + 1 \in 1 .. MaxBatch
    BY <1>7, CopiesTyped, ReturnedTyped DEF CopyFinal, Contents
  <2>2. Returned(copied[r] + 1) \in Contents
    BY <2>1, ReturnedTyped
  <2>3. queue' \in [Streams -> Seq(Ops)]
    BY <1>7, <2>2, CopiesTyped, EnqueueTyped, StreamTyped DEF CopyFinal, TypeOK
  <2>4. copied' \in [Runs -> 0 .. MaxBatch] /\ written' \in [Runs -> SUBSET Names]
    BY <1>7, <2>2, CopiesTyped DEF CopyFinal, TypeOK
  <2> QED BY <1>7, <2>3, <2>4 DEF CopyFinal, TypeOK
<1>8. ASSUME NEW r \in Runs, CopyFinalFails(r) PROVE TypeOK'
  BY <1>8 DEF CopyFinalFails, TypeOK
<1>9. ASSUME NEW r \in Runs, RecordEvent(r) PROVE TypeOK'
  <2>1. queue' \in [Streams -> Seq(Ops)]
    BY <1>9, RecordTyped, EnqueueTyped, StreamTyped DEF RecordEvent, RecordStream, TypeOK
  <2> QED BY <1>9, <2>1 DEF RecordEvent, TypeOK
<1>10. ASSUME NEW r \in Runs, Synchronize(r) PROVE TypeOK'
  BY <1>10 DEF Synchronize, TypeOK
<1>11. ASSUME NEW s \in Streams, GpuStep(s) PROVE TypeOK'
  <2>1. queue[s] \in Seq(Ops) /\ queue[s] # <<>>
    BY <1>11 DEF GpuStep, TypeOK
  <2>2. Head(queue[s]) \in Ops /\ Tail(queue[s]) \in Seq(Ops)
    BY <2>1
  <2>3. content' \in [Runs -> [Names -> Contents]]
    BY <1>11, <2>2 DEF GpuStep, TypeOK, Ops
  <2> QED BY <1>11, <2>2, <2>3 DEF GpuStep, TypeOK, hostVars
<1>12. CASE UNCHANGED vars
  BY <1>12 DEF vars, TypeOK
<1>13. ASSUME NEW r \in Runs, Release(r) PROVE TypeOK'
  BY <1>13, ReleaseTyped
<1> QED
  BY <1>1, <1>2, <1>3, <1>4, <1>5, <1>6, <1>7, <1>8, <1>9, <1>10, <1>11, <1>12, <1>13
     DEF Next, RunStep, FailureStep, CallerStep, Refused, EarlyFails, AllocationFails,
         Drained, DropResponse

(* Every reachable state is well typed, and a run holds its event exactly   *)
(* from the preparation of its sink to the end of its response.             *)
THEOREM TypeCorrect == Spec => []TypeOK
<1>1. Init => TypeOK
  BY SinkAssumption DEF Init, TypeOK, Endings, Contents
<1>2. TypeOK /\ [Next]_vars => TypeOK'
  BY TypeStep
<1> QED BY <1>1, <1>2, PTL DEF Spec

-----------------------------------------------------------------------------
(* Positions of a queue after an Append and after a Tail.                   *)
LEMMA AppendAt ==
    ASSUME TypeOK, NEW s \in Streams, NEW op \in Ops, Enqueue(s, op),
           NEW t \in Streams
    PROVE  /\ DOMAIN queue[t] = 1 .. Len(queue[t])
           /\ Len(queue[t]) \in Nat
           /\ DOMAIN queue'[t] =
                IF t = s THEN 1 .. (Len(queue[t]) + 1) ELSE DOMAIN queue[t]
           /\ \A i \in DOMAIN queue[t] : queue'[t][i] = queue[t][i]
           /\ t = s => queue'[t][Len(queue[t]) + 1] = op
BY DEF TypeOK, Enqueue

LEMMA TailAt ==
    ASSUME TypeOK, NEW s \in Streams, GpuStep(s), NEW t \in Streams
    PROVE  /\ DOMAIN queue[t] = 1 .. Len(queue[t])
           /\ Len(queue[t]) \in Nat
           /\ t # s => queue'[t] = queue[t]
           /\ t = s => /\ DOMAIN queue'[t] = 1 .. (Len(queue[t]) - 1)
                       /\ \A i \in DOMAIN queue'[t] :
                             /\ i + 1 \in DOMAIN queue[t]
                             /\ queue'[t][i] = queue[t][i + 1]
<1>1. queue[s] \in Seq(Ops) /\ queue[s] # <<>> /\ queue' = [queue EXCEPT ![s] = Tail(queue[s])]
  BY DEF TypeOK, GpuStep
<1> QED BY <1>1 DEF TypeOK

LEMMA OpTyped ==
    ASSUME TypeOK, NEW s \in Streams, NEW i \in DOMAIN queue[s]
    PROVE  /\ queue[s][i] \in Ops
           /\ queue[s][i].run \in Runs
           /\ queue[s][i].value \in Nat
           /\ queue[s][i].records \subseteq Events
<1>1. queue[s][i] \in Ops
  BY DEF TypeOK
<1>2. Contents \subseteq Nat
  BY SinkAssumption DEF Contents, Returned, Unset, Early
<1> QED BY <1>1, <1>2 DEF Ops

(* A step of r leaves what the operations of other runs depend on alone.    *)
OthersKept(r) ==
    \A q \in Runs \ {r} :
        /\ pc'[q] = pc[q] /\ event'[q] = event[q] /\ batch'[q] = batch[q]
        /\ copied'[q] = copied[q] /\ synced'[q] = synced[q]

(* An operation of another run stays tracked, wherever the step leaves it   *)
(* in its queue.                                                            *)
LEMMA OtherTracked ==
    ASSUME TypeOK, NEW r \in Runs, OthersKept(r),
           NEW s \in Streams, NEW i \in DOMAIN queue[s], queue[s][i].run # r,
           RecordTracked(queue[s][i]), CopyTracked(s, i),
           NEW k \in DOMAIN queue'[s], queue'[s][k] = queue[s][i],
           \A j \in DOMAIN queue[s] : j > i =>
               \E m \in DOMAIN queue'[s] : m > k /\ queue'[s][m] = queue[s][j]
    PROVE  RecordTracked(queue[s][k])' /\ CopyTracked(s, k)'
<1> DEFINE op == queue[s][i]
<1>1. op.run \in Runs \ {r}
  BY OpTyped
<1>2. /\ pc'[op.run] = pc[op.run] /\ event'[op.run] = event[op.run]
      /\ batch'[op.run] = batch[op.run]
      /\ copied'[op.run] = copied[op.run] /\ synced'[op.run] = synced[op.run]
  BY <1>1 DEF OthersKept
<1>3. RecordTracked(queue[s][k])'
  BY <1>2 DEF RecordTracked
<1>4. CopyTracked(s, k)'
  BY <1>2 DEF CopyTracked, OwnsSource, IsReturned
<1> QED BY <1>3, <1>4

(* A step of r that leaves the queues alone.                                *)
LEMMA TrackedKept ==
    ASSUME TypeOK, Tracked, NEW r \in Runs, OthersKept(r), UNCHANGED queue,
           \A s \in Streams : \A i \in DOMAIN queue[s] :
               queue[s][i].run = r => RecordTracked(queue[s][i])' /\ CopyTracked(s, i)'
    PROVE  Tracked'
<1>1. ASSUME NEW s \in Streams, NEW i \in DOMAIN queue[s], queue[s][i].run # r
      PROVE  RecordTracked(queue[s][i])' /\ CopyTracked(s, i)'
  <2>1. RecordTracked(queue[s][i]) /\ CopyTracked(s, i)
    BY DEF Tracked
  <2>2. /\ i \in DOMAIN queue'[s] /\ queue'[s][i] = queue[s][i]
        /\ \A j \in DOMAIN queue[s] : j > i =>
             \E m \in DOMAIN queue'[s] : m > i /\ queue'[s][m] = queue[s][j]
    OBVIOUS
  <2> QED BY <1>1, <2>1, <2>2, OtherTracked
<1> QED BY <1>1 DEF Tracked

(* A run that is not waiting for its record and has no copy of the batch it *)
(* returns in a queue.                                                      *)
Clear(r) ==
    \A s \in Streams : \A i \in DOMAIN queue[s] :
        queue[s][i].run = r => queue[s][i].records = {} /\ ~IsReturned(queue[s][i])

LEMMA ClearKept ==
    ASSUME TypeOK, Tracked, NEW r \in Runs, OthersKept(r), UNCHANGED queue, Clear(r)
    PROVE  Tracked'
<1>1. ASSUME NEW s \in Streams, NEW i \in DOMAIN queue[s], queue[s][i].run = r
      PROVE  RecordTracked(queue[s][i])' /\ CopyTracked(s, i)'
  BY <1>1 DEF Clear, RecordTracked, CopyTracked, IsReturned
<1> QED BY <1>1, TrackedKept

LEMMA ClearEarlier ==
    ASSUME TypeOK, Tracked, NEW r \in Runs,
           pc[r] \in {"idle", "prepared", "waiting", "early"}
    PROVE  Clear(r)
BY DEF Tracked, Clear, RecordTracked, CopyTracked

LEMMA ClearUncopied ==
    ASSUME TypeOK, Tracked, NEW r \in Runs, pc[r] = "final", copied[r] = 0
    PROVE  Clear(r)
<1>1. ASSUME NEW s \in Streams, NEW i \in DOMAIN queue[s], queue[s][i].run = r
      PROVE  queue[s][i].records = {} /\ ~IsReturned(queue[s][i])
  <2>1. RecordTracked(queue[s][i]) /\ CopyTracked(s, i) /\ queue[s][i].value \in Nat
    BY OpTyped DEF Tracked
  <2>2. queue[s][i].value <= 1 => ~IsReturned(queue[s][i])
    BY <2>1 DEF IsReturned, Unset, Early
  <2> QED BY <1>1, <2>1, <2>2 DEF RecordTracked, CopyTracked, Returned
<1> QED BY <1>1 DEF Clear

LEMMA ClearDrained ==
    ASSUME TypeOK, Tracked, NEW r \in Runs, Drained(r)
    PROVE  Clear(r)
BY DEF Tracked, Clear, RecordTracked, CopyTracked, Drained

(* The record of the event a run holds is its own.                          *)
LEMMA RecordIsOwn ==
    ASSUME TypeOK, Owned, Tracked, NEW r \in Runs, NEW e \in event[r],
           NEW s \in Streams, NEW i \in DOMAIN queue[s], e \in queue[s][i].records
    PROVE  queue[s][i].run = r /\ pc[r] \in {"held", "dropping"} /\ ~synced[r]
<1>1. RecordTracked(queue[s][i]) /\ queue[s][i].run \in Runs
  BY OpTyped DEF Tracked
<1>2. e \in event[queue[s][i].run]
  BY <1>1 DEF RecordTracked
<1>3. queue[s][i].run = r
  BY <1>1, <1>2 DEF Owned
<1> QED BY <1>1, <1>3 DEF RecordTracked

(* A run that returned a batch and whose event is known to be complete.     *)
LEMMA ClearComplete ==
    ASSUME TypeOK, Owned, Tracked, NEW r \in Runs, pc[r] \in {"held", "dropping"},
           synced[r] \/ \A e \in event[r] : EventComplete(e)
    PROVE  Clear(r)
<1>1. PICK e \in Events : event[r] = {e}
  BY DEF TypeOK
<1>2. ASSUME NEW s \in Streams, NEW i \in DOMAIN queue[s], e \in queue[s][i].records
      PROVE  FALSE
  BY <1>1, <1>2, RecordIsOwn DEF EventComplete
<1>3. ASSUME NEW s \in Streams, NEW i \in DOMAIN queue[s], queue[s][i].run = r
      PROVE  queue[s][i].records = {} /\ ~IsReturned(queue[s][i])
  <2>1. RecordTracked(queue[s][i]) /\ CopyTracked(s, i)
    BY DEF Tracked
  <2>2. queue[s][i].records = {}
    BY <1>1, <1>2, <1>3, <2>1 DEF RecordTracked
  <2>3. ~IsReturned(queue[s][i])
    BY <1>1, <1>2, <1>3, <2>1 DEF CopyTracked
  <2> QED BY <2>2, <2>3
<1> QED BY <1>3 DEF Clear

LEMMA ReleaseKeeps ==
    ASSUME IInv, NEW r \in Runs, Release(r), Clear(r)
    PROVE  Owned' /\ SyncedHeld' /\ Tracked'
<1> USE DEF IInv
<1>1. OthersKept(r) /\ UNCHANGED queue
  BY DEF Release, OthersKept, TypeOK
<1>2. Tracked'
  BY <1>1, ClearKept
<1>3. Owned'
  BY DEF Release, Owned, TypeOK
<1>4. SyncedHeld'
  BY DEF Release, SyncedHeld, TypeOK
<1> QED BY <1>2, <1>3, <1>4

(* A step of r that appends one operation of r to its stream.               *)
LEMMA TrackedAppend ==
    ASSUME TypeOK, Tracked, NEW r \in Runs, OthersKept(r),
           NEW op \in Ops, op.run = r, Enqueue(StreamOf[r], op),
           RecordTracked(op)',
           NEW n, n = Len(queue[StreamOf[r]]) + 1, CopyTracked(StreamOf[r], n)',
           \A s \in Streams : \A i \in DOMAIN queue[s] :
               queue[s][i].run = r => RecordTracked(queue[s][i])' /\ CopyTracked(s, i)'
    PROVE  Tracked'
<1> DEFINE t == StreamOf[r]
<1>1. t \in Streams
  BY StreamTyped
<1>2. ASSUME NEW s \in Streams, NEW i \in DOMAIN queue[s]
      PROVE  RecordTracked(queue[s][i])' /\ CopyTracked(s, i)'
  <2>1. /\ i \in DOMAIN queue'[s] /\ queue'[s][i] = queue[s][i]
        /\ \A j \in DOMAIN queue[s] : j \in DOMAIN queue'[s] /\ queue'[s][j] = queue[s][j]
    BY <1>1, AppendAt
  <2>2. RecordTracked(queue[s][i]) /\ CopyTracked(s, i)
    BY DEF Tracked
  <2>3. CASE queue[s][i].run = r
    BY <2>1, <2>3
  <2>4. CASE queue[s][i].run # r
    BY <2>1, <2>2, <2>4, OtherTracked
  <2> QED BY <2>3, <2>4
<1>3. ASSUME NEW s \in Streams, NEW i \in DOMAIN queue'[s], i \notin DOMAIN queue[s]
      PROVE  s = t /\ i = n /\ queue'[s][i] = op
  BY <1>1, <1>3, AppendAt
<1>4. ASSUME NEW s \in Streams, NEW i \in DOMAIN queue'[s]
      PROVE  RecordTracked(queue[s][i])' /\ CopyTracked(s, i)'
  <2>1. CASE i \in DOMAIN queue[s]
    BY <1>2, <2>1
  <2>2. CASE i \notin DOMAIN queue[s]
    <3>1. s = t /\ i = n /\ queue'[s][i] = op
      BY <1>3, <2>2
    <3> QED BY <3>1
  <2> QED BY <2>1, <2>2
<1> QED BY <1>4 DEF Tracked

(* The GPU completes an operation: the operations that follow it stay.      *)
LEMMA TrackedTail ==
    ASSUME TypeOK, Tracked, NEW s \in Streams, GpuStep(s)
    PROVE  Tracked'
<1>1. UNCHANGED hostVars
  BY DEF GpuStep
<1>2. ASSUME NEW t \in Streams, NEW k \in DOMAIN queue'[t], NEW i \in DOMAIN queue[t],
             k \in Nat, i = IF t = s THEN k + 1 ELSE k,
             queue'[t][k] = queue[t][i]
      PROVE  RecordTracked(queue[t][k])' /\ CopyTracked(t, k)'
  <2>1. RecordTracked(queue[t][i]) /\ CopyTracked(t, i)
    BY DEF Tracked
  <2>2. ASSUME NEW j \in DOMAIN queue[t], j > i
        PROVE  \E m \in DOMAIN queue'[t] : m > k /\ queue'[t][m] = queue[t][j]
    <3>1. CASE t # s
      BY <1>2, <2>2, <3>1, TailAt
    <3>2. CASE t = s
      <4>1. j - 1 \in DOMAIN queue'[t] /\ j - 1 > k /\ (j - 1) + 1 = j
        BY <1>2, <2>2, <3>2, TailAt
      <4> QED BY <4>1, <3>2, TailAt
    <3> QED BY <3>1, <3>2
  <2>3. RecordTracked(queue[t][k])'
    BY <1>1, <1>2, <2>1 DEF RecordTracked, hostVars
  <2>4. CopyTracked(t, k)'
    BY <1>1, <1>2, <2>1, <2>2 DEF CopyTracked, OwnsSource, IsReturned, hostVars
  <2> QED BY <2>3, <2>4
<1>3. ASSUME NEW t \in Streams, NEW k \in DOMAIN queue'[t]
      PROVE  RecordTracked(queue[t][k])' /\ CopyTracked(t, k)'
  <2> DEFINE i == IF t = s THEN k + 1 ELSE k
  <2>1. k \in Nat /\ i \in DOMAIN queue[t] /\ queue'[t][k] = queue[t][i]
    BY TailAt
  <2> HIDE DEF i
  <2>2. i = IF t = s THEN k + 1 ELSE k
    BY DEF i
  <2> QED BY <2>1, <2>2, <1>2
<1> QED BY <1>3 DEF Tracked

LEMMA CopyFinalKeeps ==
    ASSUME IInv, NEW r \in Runs, CopyFinal(r)
    PROVE  Tracked'
<1> USE DEF IInv
<1>1. OthersKept(r)
  BY DEF CopyFinal, OthersKept, TypeOK
<1>2. copied[r] + 1 \in 1 .. MaxBatch /\ copied[r] + 1 \in DOMAIN batch[r]
  BY CopiesTyped, ReturnedTyped DEF CopyFinal, Contents
<1>3. PICK op \in Ops : op = Copies(r, Returned(copied[r] + 1))
  BY <1>2, CopiesTyped, ReturnedTyped DEF CopyFinal
<1>4. Enqueue(StreamOf[r], op) /\ op.run = r /\ op.records = {}
      /\ op.value = Returned(copied[r] + 1) /\ op.names = batch[r][copied[r] + 1]
  BY <1>3 DEF CopyFinal, Copies
<1>5. PICK n : n = Len(queue[StreamOf[r]]) + 1
  OBVIOUS
<1>6. queue'[StreamOf[r]][n] = op
  BY <1>4, <1>5, AppendAt, StreamTyped
<1>7. /\ pc[r] = "final" /\ pc'[r] = "final" /\ batch' = batch /\ event' = event
      /\ copied'[r] = copied[r] + 1 /\ copied[r] \in Nat
  BY SinkAssumption DEF CopyFinal, TypeOK
<1>8. RecordTracked(op)'
  BY <1>4 DEF RecordTracked
<1>9. CopyTracked(StreamOf[r], n)'
  BY <1>2, <1>4, <1>6, <1>7 DEF CopyTracked, OwnsSource, Returned
<1>10. ASSUME NEW s \in Streams, NEW i \in DOMAIN queue[s], queue[s][i].run = r
       PROVE  RecordTracked(queue[s][i])' /\ CopyTracked(s, i)'
  <2>1. RecordTracked(queue[s][i]) /\ CopyTracked(s, i) /\ queue[s][i].value \in Nat
    BY OpTyped DEF Tracked
  <2>2. queue'[s][i] = queue[s][i]
    BY <1>4, AppendAt, StreamTyped
  <2>3. RecordTracked(queue[s][i])'
    BY <1>7, <1>10, <2>1, <2>2 DEF RecordTracked
  <2>4. CopyTracked(s, i)'
    BY <1>7, <1>10, <2>1, <2>2 DEF CopyTracked, OwnsSource, IsReturned, Returned
  <2> QED BY <2>3, <2>4
<1> QED BY <1>1, <1>4, <1>5, <1>8, <1>9, <1>10, TrackedAppend

LEMMA CopyEarlyKeeps ==
    ASSUME IInv, NEW r \in Runs, CopyEarly(r)
    PROVE  Tracked'
<1> USE DEF IInv
<1>1. OthersKept(r)
  BY DEF CopyEarly, OthersKept, TypeOK
<1>2. copied[r] < Len(batch[r]) /\ Early \in Contents
  BY EarlyWithin DEF CopyEarly, Contents
<1>3. PICK op \in Ops : op = Copies(r, Early)
  BY <1>2, CopiesTyped
<1>4. Enqueue(StreamOf[r], op) /\ op.run = r /\ op.records = {} /\ ~IsReturned(op)
  BY <1>3 DEF CopyEarly, Copies, IsReturned
<1>5. PICK n : n = Len(queue[StreamOf[r]]) + 1
  OBVIOUS
<1>6. queue'[StreamOf[r]][n] = op
  BY <1>4, <1>5, AppendAt, StreamTyped
<1>7. RecordTracked(op)'
  BY <1>4 DEF RecordTracked
<1>8. CopyTracked(StreamOf[r], n)'
  BY <1>4, <1>6 DEF CopyTracked, IsReturned
<1>9. Clear(r)
  BY ClearEarlier DEF CopyEarly
<1>10. ASSUME NEW s \in Streams, NEW i \in DOMAIN queue[s], queue[s][i].run = r
       PROVE  RecordTracked(queue[s][i])' /\ CopyTracked(s, i)'
  <2>1. queue'[s][i] = queue[s][i]
    BY <1>4, AppendAt, StreamTyped
  <2> QED BY <1>9, <1>10, <2>1 DEF Clear, RecordTracked, CopyTracked, IsReturned
<1> QED BY <1>1, <1>4, <1>5, <1>7, <1>8, <1>10, TrackedAppend

(* The record follows every copy of the returned batch: they are on the     *)
(* same stream.                                                             *)
LEMMA RecordEventKeeps ==
    ASSUME IInv, NEW r \in Runs, RecordEvent(r)
    PROVE  Tracked'
<1> USE DEF IInv
<1>1. OthersKept(r)
  BY DEF RecordEvent, OthersKept, TypeOK
<1>2. PICK op \in Ops : op = Record(r)
  BY RecordTyped
<1>3. Enqueue(StreamOf[r], op) /\ op.run = r /\ op.records = event[r] /\ ~IsReturned(op)
  BY <1>2 DEF RecordEvent, RecordStream, Record, IsReturned
<1>4. PICK n : n = Len(queue[StreamOf[r]]) + 1
  OBVIOUS
<1>5. queue'[StreamOf[r]][n] = op /\ n \in DOMAIN queue'[StreamOf[r]]
  BY <1>3, <1>4, AppendAt, StreamTyped
<1>6. /\ pc[r] = "final" /\ pc'[r] \in {"held", "dropping"} /\ batch' = batch
      /\ event' = event /\ synced' = synced /\ ~synced[r]
  BY DEF RecordEvent, SyncedHeld, TypeOK
<1>7. RecordTracked(op)'
  BY <1>3, <1>6 DEF RecordTracked
<1>8. CopyTracked(StreamOf[r], n)'
  BY <1>3, <1>5 DEF CopyTracked, IsReturned
<1>9. ASSUME NEW s \in Streams, NEW i \in DOMAIN queue[s], queue[s][i].run = r
      PROVE  RecordTracked(queue[s][i])' /\ CopyTracked(s, i)'
  <2>1. RecordTracked(queue[s][i]) /\ CopyTracked(s, i)
    BY DEF Tracked
  <2>2. queue'[s][i] = queue[s][i]
    BY <1>3, AppendAt, StreamTyped
  <2>3. RecordTracked(queue[s][i])'
    BY <1>6, <1>9, <2>1, <2>2 DEF RecordTracked
  <2>4. s = StreamOf[r] => i < n
    BY <1>4, AppendAt, <1>3, StreamTyped
  <2>5. CopyTracked(s, i)'
    BY <1>3, <1>5, <1>6, <1>9, <2>1, <2>2, <2>4 DEF CopyTracked, OwnsSource, IsReturned
  <2> QED BY <2>3, <2>5
<1> QED BY <1>1, <1>3, <1>4, <1>7, <1>8, <1>9, TrackedAppend

-----------------------------------------------------------------------------
LEMMA IInvStep ==
    ASSUME IInv, [Next]_vars
    PROVE  Owned' /\ SyncedHeld' /\ Tracked'
<1> USE DEF IInv
<1>1. ASSUME NEW r \in Runs, Checkout(r) PROVE Owned' /\ SyncedHeld' /\ Tracked'
  <2>1. PICK e \in Events :
          /\ e \in eventPool \/ (eventPool = {} /\ e \notin LiveEvents)
          /\ event' = [event EXCEPT ![r] = {e}]
          /\ eventPool' = eventPool \ {e}
    BY <1>1 DEF Checkout
  <2>2. \A q \in Runs : e \notin event[q]
    BY <2>1 DEF Owned, LiveEvents
  <2>3. Owned'
    BY <2>1, <2>2 DEF Owned, TypeOK
  <2>4. SyncedHeld'
    BY <1>1 DEF Checkout, SyncedHeld, TypeOK
  <2>5. OthersKept(r) /\ UNCHANGED queue
    BY <1>1, <2>1 DEF Checkout, OthersKept, TypeOK
  <2>6. Clear(r)
    BY <1>1, ClearEarlier DEF Checkout
  <2> QED BY <2>3, <2>4, <2>5, <2>6, ClearKept
<1>2. ASSUME NEW r \in Runs, Submit(r) \/ Receive(r) \/ EarlyDone(r) \/ Awaited(r)
      PROVE  Owned' /\ SyncedHeld' /\ Tracked'
  <2>1. OthersKept(r) /\ UNCHANGED <<queue, event, eventPool, synced>>
    BY <1>2 DEF Submit, Receive, EarlyDone, Awaited, OthersKept, TypeOK
  <2>2. Clear(r)
    BY <1>2, ClearEarlier DEF Submit, Receive, EarlyDone, Awaited
  <2>3. SyncedHeld'
    BY <1>2 DEF Submit, Receive, EarlyDone, Awaited, SyncedHeld, TypeOK
  <2>4. Owned'
    BY <2>1 DEF Owned
  <2> QED BY <2>1, <2>2, <2>3, <2>4, ClearKept
<1>3. ASSUME NEW r \in Runs, CopyEarly(r) PROVE Owned' /\ SyncedHeld' /\ Tracked'
  <2>1. Owned' /\ SyncedHeld'
    BY <1>3 DEF CopyEarly, Owned, SyncedHeld
  <2> QED BY <1>3, <2>1, CopyEarlyKeeps
<1>4. ASSUME NEW r \in Runs, CopyFinal(r) PROVE Owned' /\ SyncedHeld' /\ Tracked'
  <2>1. Owned' /\ SyncedHeld'
    BY <1>4 DEF CopyFinal, Owned, SyncedHeld
  <2> QED BY <1>4, <2>1, CopyFinalKeeps
<1>5. ASSUME NEW r \in Runs, CopyFinalFails(r) PROVE Owned' /\ SyncedHeld' /\ Tracked'
  <2>1. OthersKept(r) /\ UNCHANGED <<queue, event, eventPool, batch, synced>>
        /\ pc[r] = "final" /\ pc'[r] = "draining"
    BY <1>5 DEF CopyFinalFails, OthersKept, TypeOK
  <2>2. SyncedHeld'
    BY <1>5 DEF CopyFinalFails, SyncedHeld, TypeOK
  <2>3. Owned'
    BY <2>1 DEF Owned
  <2>4. ASSUME NEW s \in Streams, NEW i \in DOMAIN queue[s], queue[s][i].run = r
        PROVE  RecordTracked(queue[s][i])' /\ CopyTracked(s, i)'
    <3>1. RecordTracked(queue[s][i]) /\ CopyTracked(s, i)
      BY DEF Tracked
    <3> QED BY <2>1, <2>4, <3>1 DEF RecordTracked, CopyTracked, OwnsSource, IsReturned
  <2> QED BY <2>1, <2>2, <2>3, <2>4, TrackedKept
<1>6. ASSUME NEW r \in Runs, RecordEvent(r) PROVE Owned' /\ SyncedHeld' /\ Tracked'
  <2>1. Owned'
    BY <1>6 DEF RecordEvent, Owned
  <2>2. SyncedHeld'
    BY <1>6 DEF RecordEvent, SyncedHeld, TypeOK
  <2> QED BY <1>6, <2>1, <2>2, RecordEventKeeps
<1>7. ASSUME NEW r \in Runs, Synchronize(r) PROVE Owned' /\ SyncedHeld' /\ Tracked'
  <2>1. OthersKept(r) /\ UNCHANGED queue
    BY <1>7 DEF Synchronize, OthersKept, TypeOK
  <2>2. Clear(r)
    BY <1>7, ClearComplete DEF Synchronize
  <2>3. Owned' /\ SyncedHeld'
    BY <1>7 DEF Synchronize, Owned, SyncedHeld, TypeOK
  <2> QED BY <2>1, <2>2, <2>3, ClearKept
<1>8. ASSUME NEW s \in Streams, GpuStep(s) PROVE Owned' /\ SyncedHeld' /\ Tracked'
  <2>1. Owned' /\ SyncedHeld'
    BY <1>8 DEF GpuStep, hostVars, Owned, SyncedHeld
  <2> QED BY <1>8, <2>1, TrackedTail
<1>9. ASSUME NEW r \in Runs, Refused(r) \/ EarlyFails(r)
      PROVE  Owned' /\ SyncedHeld' /\ Tracked'
  <2>1. Clear(r) /\ Release(r)
    BY <1>9, ClearEarlier DEF Refused, EarlyFails
  <2> QED BY <2>1, ReleaseKeeps
<1>10. ASSUME NEW r \in Runs, AllocationFails(r) PROVE Owned' /\ SyncedHeld' /\ Tracked'
  <2>1. Clear(r) /\ Release(r)
    BY <1>10, ClearUncopied DEF AllocationFails
  <2> QED BY <2>1, ReleaseKeeps
<1>11. ASSUME NEW r \in Runs, Drained(r) PROVE Owned' /\ SyncedHeld' /\ Tracked'
  <2>1. Clear(r) /\ Release(r)
    BY <1>11, ClearDrained DEF Drained
  <2> QED BY <2>1, ReleaseKeeps
<1>12. ASSUME NEW r \in Runs, DropResponse(r) PROVE Owned' /\ SyncedHeld' /\ Tracked'
  <2>1. Clear(r) /\ Release(r)
    BY <1>12, ClearComplete DEF DropResponse, Release
  <2> QED BY <2>1, ReleaseKeeps
<1>13. CASE UNCHANGED vars
  BY <1>13 DEF vars, Owned, SyncedHeld, Tracked, RecordTracked, CopyTracked, OwnsSource,
               IsReturned
<1> QED
  BY <1>1, <1>2, <1>3, <1>4, <1>5, <1>6, <1>7, <1>8, <1>9, <1>10, <1>11, <1>12, <1>13
     DEF Next, RunStep, FailureStep, CallerStep

(* The inductive invariant: who holds which event, and for every pending    *)
(* copy and record the run that still answers for it.                       *)
THEOREM InductiveInvariant == Spec => []IInv
<1>1. Init => IInv
  <2> SUFFICES ASSUME Init PROVE IInv
    OBVIOUS
  <2>1. TypeOK
    BY SinkAssumption DEF Init, TypeOK, Endings, Contents
  <2>2. \A s \in Streams : DOMAIN queue[s] = {}
    BY DEF Init
  <2>3. Owned /\ SyncedHeld
    BY DEF Init, Owned, SyncedHeld
  <2> QED BY <2>1, <2>2, <2>3 DEF IInv, Tracked
<1>2. IInv /\ [Next]_vars => IInv'
  BY TypeStep, IInvStep DEF IInv
<1> QED BY <1>1, <1>2, PTL DEF Spec

(* The backend's responses outlive the copies of the batch that is          *)
(* returned, on the error paths too, and an error or a drop returns only    *)
(* when none of these copies is left.                                       *)
THEOREM ReturnedResponsesRetained == Spec => []ReturnedRetained
<1>1. IInv => ReturnedRetained
  BY DEF IInv, Tracked, CopyTracked, ReturnedRetained
<1> QED BY <1>1, InductiveInvariant, PTL

(* An event is never pooled, or held by a run that will record it, while a  *)
(* record of an earlier run is pending on it; no two runs share one.        *)
THEOREM PooledEventsReusable == Spec => []EventsReusable
<1>1. ASSUME IInv PROVE EventsReusable
  <2> USE <1>1 DEF IInv
  <2>1. ASSUME NEW e \in eventPool PROVE EventComplete(e)
    <3>1. SUFFICES ASSUME NEW s \in Streams, NEW i \in DOMAIN queue[s],
                          e \in queue[s][i].records
                   PROVE  FALSE
      BY DEF EventComplete
    <3>2. RecordTracked(queue[s][i]) /\ queue[s][i].run \in Runs
      BY OpTyped DEF Tracked
    <3> QED BY <2>1, <3>1, <3>2 DEF RecordTracked, Owned
  <2>2. ASSUME NEW r \in Runs, NEW e \in event[r], pc[r] \notin {"held", "dropping"}
        PROVE  EventComplete(e)
    BY <2>2, RecordIsOwn DEF EventComplete
  <2> QED BY <2>1, <2>2 DEF EventsReusable, Owned
<1> QED BY <1>1, InductiveInvariant, PTL

(* Response::synchronize waits for every copy of the response: its event    *)
(* cannot be complete while one is pending.                                 *)
THEOREM EventCoversCopies == Spec => []EventCovers
<1>1. ASSUME IInv PROVE EventCovers
  <2>1. ASSUME NEW r \in Runs, pc[r] \in {"held", "dropping"},
               \A e \in event[r] : EventComplete(e)
        PROVE  Clear(r)
    BY <1>1, <2>1, ClearComplete DEF IInv
  <2> QED BY <2>1 DEF EventCovers, Clear
<1> QED BY <1>1, InductiveInvariant, PTL

-----------------------------------------------------------------------------
(***************************************************************************)
(* What is left in the tensors of a sink: once a response is synchronized, *)
(* every tensor was written, and holds what the last response that carries *)
(* it brought, for any number of runs, streams, batches and responses.     *)
(***************************************************************************)

(* The operations of q that write tensors of r.                             *)
Writes(q, i, r) == q[i].run = r /\ q[i].names # {}

NoneWrites(q, r) == \A i \in DOMAIN q : ~Writes(q, i, r)

(* What r writes in q is followed by the record of event e.                 *)
Followed(q, r, e) ==
    \A i \in DOMAIN q : Writes(q, i, r) => \E j \in DOMAIN q : j > i /\ q[j].records = e

WritesTo(q, i, r, x) == q[i].run = r /\ x \in q[i].names

(* Tensor x of r, which holds c, was written or will be by q...             *)
Reaches(q, c, r, x) == c # Unset \/ \E i \in DOMAIN q : WritesTo(q, i, r, x)

(* ...and is left with v.                                                   *)
LeftWith(q, c, r, x, v) ==
    \/ \E k \in DOMAIN q : /\ WritesTo(q, k, r, x) /\ q[k].value = v
                           /\ \A m \in DOMAIN q : m > k => ~WritesTo(q, m, r, x)
    \/ c = v /\ \A k \in DOMAIN q : ~WritesTo(q, k, r, x)

(* Copies go to the stream of their run, and bring something.               *)
CopiesPlaced ==
    \A s \in Streams : \A i \in DOMAIN queue[s] :
        queue[s][i].names # {} =>
            s = StreamOf[queue[s][i].run] /\ queue[s][i].value # Unset

(* Of the responses of r copied so far, the i-th is the last to carry x.    *)
LastCopied(r, x, i) ==
    x \in batch[r][i] /\ \A j \in i + 1 .. copied[r] : x \notin batch[r][j]

Delivers(r) ==
    LET q == queue[StreamOf[r]]
    IN  /\ pc[r] \in {"idle", "prepared"} => written[r] = {}
        /\ pc[r] \in {"held", "dropping"} => copied[r] = Len(batch[r])
        /\ pc[r] = "held" => written[r] = Names
        /\ pc[r] \in {"held", "dropping"} /\ ~synced[r] => Followed(q, r, event[r])
        /\ synced[r] => NoneWrites(q, r)
        /\ \A x \in written[r] : Reaches(q, content[r][x], r, x)
        /\ pc[r] \in {"final", "held", "dropping"} =>
               \A x \in Names : \A i \in 1 .. copied[r] :
                   LastCopied(r, x, i) => LeftWith(q, content[r][x], r, x, Returned(i))

(* The strengthening of the delivery properties, beside IInv.               *)
DeliveryInv == CopiesPlaced /\ \A r \in Runs : Delivers(r)

-----------------------------------------------------------------------------
(* A queue that gets one operation, or loses its first.                     *)

LEMMA Appended ==
    ASSUME NEW q \in Seq(Ops), NEW op \in Ops
    PROVE  /\ DOMAIN q = 1 .. Len(q) /\ Len(q) \in Nat
           /\ DOMAIN Append(q, op) = 1 .. Len(q) + 1
           /\ \A i \in DOMAIN q : Append(q, op)[i] = q[i]
           /\ Append(q, op)[Len(q) + 1] = op
  OBVIOUS

LEMMA Shifted ==
    ASSUME NEW q \in Seq(Ops), q # <<>>
    PROVE  /\ DOMAIN q = 1 .. Len(q) /\ Len(q) \in Nat /\ 1 \in DOMAIN q
           /\ Head(q) = q[1]
           /\ DOMAIN Tail(q) = 1 .. Len(q) - 1
           /\ \A i \in DOMAIN Tail(q) : i + 1 \in DOMAIN q /\ Tail(q)[i] = q[i + 1]
  OBVIOUS

LEMMA AppendOther ==
    ASSUME NEW q \in Seq(Ops), NEW op \in Ops, NEW r, op.run # r \/ op.names = {},
           NEW x, NEW c, NEW v, NEW e
    PROVE  /\ NoneWrites(q, r) => NoneWrites(Append(q, op), r)
           /\ Followed(q, r, e) => Followed(Append(q, op), r, e)
           /\ Reaches(q, c, r, x) => Reaches(Append(q, op), c, r, x)
           /\ LeftWith(q, c, r, x, v) => LeftWith(Append(q, op), c, r, x, v)
<1> DEFINE a == Append(q, op)
<1>1. /\ DOMAIN q = 1 .. Len(q) /\ Len(q) \in Nat /\ DOMAIN a = 1 .. Len(q) + 1
      /\ \A i \in DOMAIN q : a[i] = q[i]
      /\ a[Len(q) + 1] = op
  BY Appended
<1> HIDE DEF a
<1>2. \A i \in DOMAIN q : i \in DOMAIN a /\ Writes(a, i, r) = Writes(q, i, r)
                          /\ WritesTo(a, i, r, x) = WritesTo(q, i, r, x)
  BY <1>1 DEF Writes, WritesTo
<1>3. ~Writes(a, Len(q) + 1, r) /\ ~WritesTo(a, Len(q) + 1, r, x)
  BY <1>1 DEF Writes, WritesTo
<1>4. \A i \in DOMAIN a : i \in DOMAIN q \/ i = Len(q) + 1
  BY <1>1
<1>5. NoneWrites(q, r) => NoneWrites(a, r)
  BY <1>2, <1>3, <1>4 DEF NoneWrites
<1>6. Followed(q, r, e) => Followed(a, r, e)
  <2> SUFFICES ASSUME Followed(q, r, e), NEW i \in DOMAIN a, Writes(a, i, r)
               PROVE  \E j \in DOMAIN a : j > i /\ a[j].records = e
    BY DEF Followed
  <2>1. i \in DOMAIN q /\ Writes(q, i, r)
    BY <1>2, <1>3, <1>4
  <2>2. PICK j \in DOMAIN q : j > i /\ q[j].records = e
    BY <2>1 DEF Followed
  <2> QED BY <1>1, <1>2, <2>2
<1>7. Reaches(q, c, r, x) => Reaches(a, c, r, x)
  BY <1>2 DEF Reaches
<1>8. LeftWith(q, c, r, x, v) => LeftWith(a, c, r, x, v)
  <2>1. ASSUME NEW k \in DOMAIN q, WritesTo(q, k, r, x), q[k].value = v,
               \A m \in DOMAIN q : m > k => ~WritesTo(q, m, r, x)
        PROVE  LeftWith(a, c, r, x, v)
    <3>1. k \in DOMAIN a /\ WritesTo(a, k, r, x) /\ a[k].value = v
      BY <1>1, <1>2, <2>1
    <3>2. \A m \in DOMAIN a : m > k => ~WritesTo(a, m, r, x)
      BY <1>2, <1>3, <1>4, <2>1
    <3> QED BY <3>1, <3>2 DEF LeftWith
  <2>2. ASSUME c = v, \A k \in DOMAIN q : ~WritesTo(q, k, r, x)
        PROVE  LeftWith(a, c, r, x, v)
    BY <1>2, <1>3, <1>4, <2>2 DEF LeftWith
  <2> QED BY <2>1, <2>2 DEF LeftWith
<1> QED BY <1>5, <1>6, <1>7, <1>8 DEF a

(* A copy of r leaves each of its tensors with what it brings.              *)
LEMMA AppendOwn ==
    ASSUME NEW q \in Seq(Ops), NEW op \in Ops, NEW r, NEW x, op.run = r, x \in op.names, NEW c
    PROVE  /\ Reaches(Append(q, op), c, r, x)
           /\ LeftWith(Append(q, op), c, r, x, op.value)
<1> DEFINE a == Append(q, op)
<1>1. /\ Len(q) \in Nat /\ DOMAIN a = 1 .. Len(q) + 1
      /\ a[Len(q) + 1] = op
  BY Appended
<1> HIDE DEF a
<1>2. Len(q) + 1 \in DOMAIN a /\ WritesTo(a, Len(q) + 1, r, x)
  BY <1>1 DEF WritesTo
<1>3. \A m \in DOMAIN a : ~(m > Len(q) + 1)
  BY <1>1
<1> QED BY <1>1, <1>2, <1>3 DEF a, Reaches, LeftWith

(* A tensor that is not in the names of a copy keeps its last writer.       *)
LEMMA AppendBeside ==
    ASSUME NEW q \in Seq(Ops), NEW op \in Ops, NEW r, NEW x, x \notin op.names,
           NEW c, NEW v
    PROVE  /\ Reaches(q, c, r, x) => Reaches(Append(q, op), c, r, x)
           /\ LeftWith(q, c, r, x, v) => LeftWith(Append(q, op), c, r, x, v)
<1> DEFINE a == Append(q, op)
<1>1. /\ DOMAIN q = 1 .. Len(q) /\ Len(q) \in Nat /\ DOMAIN a = 1 .. Len(q) + 1
      /\ \A i \in DOMAIN q : a[i] = q[i]
      /\ a[Len(q) + 1] = op
  BY Appended
<1> HIDE DEF a
<1>2. \A i \in DOMAIN q : i \in DOMAIN a /\ WritesTo(a, i, r, x) = WritesTo(q, i, r, x)
  BY <1>1 DEF WritesTo
<1>3. ~WritesTo(a, Len(q) + 1, r, x)
  BY <1>1 DEF WritesTo
<1>4. \A i \in DOMAIN a : i \in DOMAIN q \/ i = Len(q) + 1
  BY <1>1
<1>5. Reaches(q, c, r, x) => Reaches(a, c, r, x)
  BY <1>2 DEF Reaches
<1>6. LeftWith(q, c, r, x, v) => LeftWith(a, c, r, x, v)
  <2>1. ASSUME NEW k \in DOMAIN q, WritesTo(q, k, r, x), q[k].value = v,
               \A m \in DOMAIN q : m > k => ~WritesTo(q, m, r, x)
        PROVE  LeftWith(a, c, r, x, v)
    <3>1. k \in DOMAIN a /\ WritesTo(a, k, r, x) /\ a[k].value = v
      BY <1>1, <1>2, <2>1
    <3>2. \A m \in DOMAIN a : m > k => ~WritesTo(a, m, r, x)
      BY <1>2, <1>3, <1>4, <2>1
    <3> QED BY <3>1, <3>2 DEF LeftWith
  <2>2. ASSUME c = v, \A k \in DOMAIN q : ~WritesTo(q, k, r, x)
        PROVE  LeftWith(a, c, r, x, v)
    BY <1>2, <1>3, <1>4, <2>2 DEF LeftWith
  <2> QED BY <2>1, <2>2 DEF LeftWith
<1> QED BY <1>5, <1>6 DEF a

(* The head of a queue completes.                                           *)
LEMMA TailKeeps ==
    ASSUME NEW q \in Seq(Ops), q # <<>>, NEW r, NEW x, NEW c, NEW v, NEW e, NEW d,
           d = IF WritesTo(q, 1, r, x) THEN q[1].value ELSE c,
           WritesTo(q, 1, r, x) => q[1].value # Unset
    PROVE  /\ NoneWrites(q, r) => NoneWrites(Tail(q), r)
           /\ Followed(q, r, e) => Followed(Tail(q), r, e)
           /\ Reaches(q, c, r, x) => Reaches(Tail(q), d, r, x)
           /\ LeftWith(q, c, r, x, v) => LeftWith(Tail(q), d, r, x, v)
<1> DEFINE a == Tail(q)
<1>1. /\ DOMAIN q = 1 .. Len(q) /\ Len(q) \in Nat /\ 1 \in DOMAIN q
      /\ DOMAIN a = 1 .. Len(q) - 1
      /\ \A i \in DOMAIN a : i + 1 \in DOMAIN q /\ a[i] = q[i + 1]
  BY Shifted
<1> HIDE DEF a
<1>2. \A i \in DOMAIN a : Writes(a, i, r) = Writes(q, i + 1, r)
                          /\ WritesTo(a, i, r, x) = WritesTo(q, i + 1, r, x)
  BY <1>1 DEF Writes, WritesTo
<1>3. ASSUME NEW k \in DOMAIN q, k # 1
      PROVE  k - 1 \in DOMAIN a /\ a[k - 1] = q[k] /\ k \in Nat
             /\ WritesTo(a, k - 1, r, x) = WritesTo(q, k, r, x)
  <2>1. k - 1 \in DOMAIN a /\ (k - 1) + 1 = k /\ k \in Nat
    BY <1>1, <1>3
  <2> QED BY <1>1, <1>2, <2>1
<1>4. NoneWrites(q, r) => NoneWrites(a, r)
  BY <1>1, <1>2 DEF NoneWrites
<1>5. Followed(q, r, e) => Followed(a, r, e)
  <2> SUFFICES ASSUME Followed(q, r, e), NEW i \in DOMAIN a, Writes(a, i, r)
               PROVE  \E j \in DOMAIN a : j > i /\ a[j].records = e
    BY DEF Followed
  <2>1. PICK j \in DOMAIN q : j > i + 1 /\ q[j].records = e
    BY <1>1, <1>2 DEF Followed
  <2>2. j # 1 /\ j - 1 > i
    BY <1>1, <2>1
  <2> QED BY <1>3, <2>1, <2>2
<1>6. Reaches(q, c, r, x) => Reaches(a, d, r, x)
  BY <1>3 DEF Reaches
<1>7. LeftWith(q, c, r, x, v) => LeftWith(a, d, r, x, v)
  <2>1. ASSUME NEW k \in DOMAIN q, WritesTo(q, k, r, x), q[k].value = v,
               \A m \in DOMAIN q : m > k => ~WritesTo(q, m, r, x)
        PROVE  LeftWith(a, d, r, x, v)
    <3>1. ASSUME NEW m \in DOMAIN a, m + 1 > k PROVE ~WritesTo(a, m, r, x)
      BY <1>1, <1>2, <2>1, <3>1
    <3>2. CASE k = 1
      <4>1. d = v /\ \A m \in DOMAIN a : ~WritesTo(a, m, r, x)
        BY <1>1, <2>1, <3>1, <3>2
      <4> QED BY <4>1 DEF LeftWith
    <3>3. CASE k # 1
      <4>1. k - 1 \in DOMAIN a /\ WritesTo(a, k - 1, r, x) /\ a[k - 1].value = v
        BY <1>3, <2>1, <3>3
      <4>2. \A m \in DOMAIN a : m > k - 1 => ~WritesTo(a, m, r, x)
        BY <1>1, <3>1
      <4> QED BY <4>1, <4>2 DEF LeftWith
    <3> QED BY <3>2, <3>3
  <2>2. ASSUME c = v, \A k \in DOMAIN q : ~WritesTo(q, k, r, x)
        PROVE  LeftWith(a, d, r, x, v)
    BY <1>1, <1>2, <2>2 DEF LeftWith
  <2> QED BY <2>1, <2>2 DEF LeftWith
<1> QED BY <1>4, <1>5, <1>6, <1>7 DEF a

-----------------------------------------------------------------------------
(* Steps that r takes no part in, and steps of r that copy nothing.         *)

Untouched(r) ==
    /\ pc'[r] = pc[r] /\ event'[r] = event[r] /\ batch'[r] = batch[r]
    /\ copied'[r] = copied[r] /\ synced'[r] = synced[r] /\ written'[r] = written[r]
    /\ content'[r] = content[r]

(* The stream of r is left alone, or gets an operation that is no copy of r. *)
Beside(r) ==
    LET q == queue[StreamOf[r]]
    IN  \/ queue'[StreamOf[r]] = q
        \/ \E op \in Ops : /\ op.run # r \/ op.names = {}
                           /\ queue'[StreamOf[r]] = Append(q, op)

LEMMA BesideKeeps ==
    ASSUME TypeOK, NEW r \in Runs, Beside(r), NEW x, NEW c, NEW v, NEW e
    PROVE  LET q == queue[StreamOf[r]]
               p == queue'[StreamOf[r]]
           IN  /\ NoneWrites(q, r) => NoneWrites(p, r)
               /\ Followed(q, r, e) => Followed(p, r, e)
               /\ Reaches(q, c, r, x) => Reaches(p, c, r, x)
               /\ LeftWith(q, c, r, x, v) => LeftWith(p, c, r, x, v)
<1> DEFINE q == queue[StreamOf[r]]
<1>1. q \in Seq(Ops)
  BY StreamTyped DEF TypeOK
<1>2. CASE queue'[StreamOf[r]] = q
  BY <1>2
<1>3. ASSUME NEW op \in Ops, op.run # r \/ op.names = {},
             queue'[StreamOf[r]] = Append(q, op)
      PROVE  /\ NoneWrites(q, r) => NoneWrites(queue'[StreamOf[r]], r)
             /\ Followed(q, r, e) => Followed(queue'[StreamOf[r]], r, e)
             /\ Reaches(q, c, r, x) => Reaches(queue'[StreamOf[r]], c, r, x)
             /\ LeftWith(q, c, r, x, v) => LeftWith(queue'[StreamOf[r]], c, r, x, v)
  <2> HIDE DEF q
  <2> QED BY <1>1, <1>3, AppendOther
<1> QED BY <1>2, <1>3 DEF Beside

LEMMA UntouchedDelivers ==
    ASSUME TypeOK, NEW r \in Runs, Delivers(r), Untouched(r), Beside(r)
    PROVE  Delivers(r)'
<1> DEFINE q == queue[StreamOf[r]]
           p == queue'[StreamOf[r]]
<1>1. \A x, c, v, e :
        /\ NoneWrites(q, r) => NoneWrites(p, r)
        /\ Followed(q, r, e) => Followed(p, r, e)
        /\ Reaches(q, c, r, x) => Reaches(p, c, r, x)
        /\ LeftWith(q, c, r, x, v) => LeftWith(p, c, r, x, v)
  BY BesideKeeps
<1>2. \A x, i : LastCopied(r, x, i)' <=> LastCopied(r, x, i)
  BY DEF LastCopied, Untouched
<1>3. /\ pc[r] \in {"idle", "prepared"} => written[r] = {}
      /\ pc[r] \in {"held", "dropping"} => copied[r] = Len(batch[r])
      /\ pc[r] = "held" => written[r] = Names
      /\ pc[r] \in {"held", "dropping"} /\ ~synced[r] => Followed(q, r, event[r])
      /\ synced[r] => NoneWrites(q, r)
      /\ \A x \in written[r] : Reaches(q, content[r][x], r, x)
      /\ pc[r] \in {"final", "held", "dropping"} =>
             \A x \in Names : \A i \in 1 .. copied[r] :
                 LastCopied(r, x, i) => LeftWith(q, content[r][x], r, x, Returned(i))
  BY DEF Delivers
<1> HIDE DEF q
<1>4. /\ pc'[r] \in {"idle", "prepared"} => written'[r] = {}
      /\ pc'[r] \in {"held", "dropping"} => copied'[r] = Len(batch'[r])
      /\ pc'[r] = "held" => written'[r] = Names
      /\ pc'[r] \in {"held", "dropping"} /\ ~synced'[r] => Followed(p, r, event'[r])
      /\ synced'[r] => NoneWrites(p, r)
      /\ \A x \in written'[r] : Reaches(p, content'[r][x], r, x)
  BY <1>1, <1>3 DEF Untouched
<1>5. pc'[r] \in {"final", "held", "dropping"} =>
             \A x \in Names : \A i \in 1 .. copied'[r] :
                 LastCopied(r, x, i)' => LeftWith(p, content'[r][x], r, x, Returned(i))
  BY <1>1, <1>2, <1>3 DEF Untouched
<1> QED BY <1>4, <1>5 DEF Delivers

(* The steps of r before it has copied anything of the batch it returns,    *)
(* and the one that starts to drain.                                        *)
LEMMA InnerDelivers ==
    ASSUME TypeOK, NEW r \in Runs, Delivers(r),
           pc'[r] \in {"waiting", "early", "final", "draining"},
           pc'[r] = "final" => copied'[r] = 0,
           ~synced'[r], written'[r] = written[r], content'[r] = content[r], UNCHANGED queue
    PROVE  Delivers(r)'
<1>1. \A i \in 1 .. copied'[r] : pc'[r] # "final"
  OBVIOUS
<1> QED BY <1>1 DEF Delivers

(* The steps of r that leave it without a sink in use.                      *)
LEMMA OuterDelivers ==
    ASSUME NEW r \in Runs, pc'[r] \in {"idle", "prepared"}, written'[r] = {}, ~synced'[r]
    PROVE  Delivers(r)'
BY DEF Delivers

LEMMA ReleaseDelivers ==
    ASSUME TypeOK, DeliveryInv, NEW r \in Runs, Release(r)
    PROVE  DeliveryInv'
<1>1. CopiesPlaced'
  BY DEF Release, DeliveryInv, CopiesPlaced
<1>2. Delivers(r)'
  <2>1. pc'[r] = "idle" /\ written'[r] = {} /\ ~synced'[r]
    BY DEF Release, ClearedFlags, TypeOK
  <2> QED BY <2>1, OuterDelivers
<1>3. ASSUME NEW u \in Runs, u # r PROVE Delivers(u)'
  <2>1. Untouched(u) /\ Beside(u)
    BY <1>3 DEF Release, Blank, Untouched, Beside, TypeOK
  <2> QED BY <2>1, UntouchedDelivers DEF DeliveryInv
<1> QED BY <1>1, <1>2, <1>3 DEF DeliveryInv
-----------------------------------------------------------------------------
(* A run enqueues an operation.                                             *)

LEMMA EnqueuePlaced ==
    ASSUME TypeOK, CopiesPlaced, NEW r \in Runs, NEW op \in Ops, Enqueue(StreamOf[r], op),
           op.run = r, op.names # {} => op.value # Unset
    PROVE  CopiesPlaced'
<1> SUFFICES ASSUME NEW s \in Streams, NEW i \in DOMAIN queue'[s], queue'[s][i].names # {}
             PROVE  s = StreamOf[queue'[s][i].run] /\ queue'[s][i].value # Unset
  BY DEF CopiesPlaced
<1>1. CASE i \in DOMAIN queue[s]
  BY <1>1, AppendAt, StreamTyped DEF CopiesPlaced
<1>2. CASE i \notin DOMAIN queue[s]
  <2>1. s = StreamOf[r] /\ queue'[s][i] = op
    BY <1>2, AppendAt, StreamTyped
  <2> QED BY <2>1
<1> QED BY <1>1, <1>2

LEMMA EnqueueOthers ==
    ASSUME TypeOK, DeliveryInv, NEW r \in Runs, NEW op \in Ops, Enqueue(StreamOf[r], op),
           op.run = r, NEW u \in Runs, u # r, Untouched(u)
    PROVE  Delivers(u)'
<1>1. queue \in [Streams -> Seq(Ops)] /\ StreamOf[r] \in Streams /\ StreamOf[u] \in Streams
  BY StreamTyped DEF TypeOK
<1>2. Beside(u)
  BY <1>1 DEF Enqueue, Beside
<1> QED BY <1>2, UntouchedDelivers DEF DeliveryInv

LEMMA CopyEarlyDelivers ==
    ASSUME IInv, DeliveryInv, NEW r \in Runs, CopyEarly(r)
    PROVE  DeliveryInv'
<1> USE DEF IInv
<1>1. copied[r] < Len(batch[r]) /\ Early \in Contents /\ Early # Unset
  BY EarlyWithin DEF CopyEarly, Contents, Early, Unset
<1>2. PICK op \in Ops : op = Copies(r, Early)
  BY <1>1, CopiesTyped
<1>3. /\ Enqueue(StreamOf[r], op) /\ op.run = r /\ op.value # Unset
      /\ op.names = batch[r][copied[r] + 1]
  BY <1>1, <1>2 DEF CopyEarly, Copies
<1>4. CopiesPlaced'
  BY <1>3, EnqueuePlaced DEF DeliveryInv
<1>5. ASSUME NEW u \in Runs, u # r PROVE Delivers(u)'
  <2>1. Untouched(u)
    BY <1>5 DEF CopyEarly, Untouched, TypeOK
  <2> QED BY <1>3, <1>5, <2>1, EnqueueOthers
<1>6. Delivers(r)'
  <2> DEFINE q == queue[StreamOf[r]]
             p == queue'[StreamOf[r]]
  <2>1. q \in Seq(Ops) /\ p = Append(q, op)
    BY <1>3, StreamTyped DEF Enqueue, TypeOK
  <2>2. /\ pc'[r] = "early" /\ ~synced'[r] /\ content' = content
        /\ written'[r] = written[r] \cup op.names
    BY <1>3 DEF CopyEarly, SyncedHeld, TypeOK
  <2>3. \A x \in written[r] : Reaches(q, content[r][x], r, x)
    BY DEF DeliveryInv, Delivers
  <2> HIDE DEF q
  <2>4. ASSUME NEW x \in written'[r] PROVE Reaches(p, content'[r][x], r, x)
    <3>1. CASE x \in op.names
      BY <1>3, <2>1, <3>1, AppendOwn
    <3>2. CASE x \notin op.names
      BY <2>1, <2>2, <2>3, <2>4, <3>2, AppendBeside
    <3> QED BY <3>1, <3>2
  <2> QED BY <2>2, <2>4 DEF Delivers
<1> QED BY <1>4, <1>5, <1>6 DEF DeliveryInv

(* The copy of the next response replaces those of the responses before it. *)
LEMMA CopyFinalDelivers ==
    ASSUME IInv, DeliveryInv, NEW r \in Runs, CopyFinal(r)
    PROVE  DeliveryInv'
<1> USE DEF IInv
<1> DEFINE n == copied[r] + 1
<1>1. n \in 1 .. MaxBatch /\ n \in DOMAIN batch[r] /\ copied[r] \in Nat
  BY CopiesTyped, ReturnedTyped, SinkAssumption DEF CopyFinal, Contents, TypeOK
<1>2. Returned(n) \in Contents /\ Returned(n) # Unset
  BY <1>1, ReturnedTyped
<1>3. PICK op \in Ops : op = Copies(r, Returned(n))
  BY <1>2, CopiesTyped DEF CopyFinal
<1>4. /\ Enqueue(StreamOf[r], op) /\ op.run = r /\ op.value = Returned(n)
      /\ op.names = batch[r][n]
  BY <1>3 DEF CopyFinal, Copies
<1>5. CopiesPlaced'
  BY <1>2, <1>4, EnqueuePlaced DEF DeliveryInv
<1>6. ASSUME NEW u \in Runs, u # r PROVE Delivers(u)'
  <2>1. Untouched(u)
    BY <1>6 DEF CopyFinal, Untouched, TypeOK
  <2> QED BY <1>4, <1>6, <2>1, EnqueueOthers
<1>7. Delivers(r)'
  <2> DEFINE q == queue[StreamOf[r]]
             p == queue'[StreamOf[r]]
  <2>1. q \in Seq(Ops) /\ p = Append(q, op)
    BY <1>4, StreamTyped DEF Enqueue, TypeOK
  <2>2. /\ pc[r] = "final" /\ pc'[r] = "final" /\ ~synced'[r] /\ content' = content
        /\ batch' = batch /\ copied'[r] = n /\ written'[r] = written[r] \cup op.names
    BY <1>4 DEF CopyFinal, SyncedHeld, TypeOK
  <2>3. /\ \A x \in written[r] : Reaches(q, content[r][x], r, x)
        /\ \A x \in Names : \A i \in 1 .. copied[r] :
               LastCopied(r, x, i) => LeftWith(q, content[r][x], r, x, Returned(i))
    BY <2>2 DEF DeliveryInv, Delivers
  <2> HIDE DEF q
  <2>4. ASSUME NEW x \in written'[r] PROVE Reaches(p, content'[r][x], r, x)
    <3>1. CASE x \in op.names
      BY <1>4, <2>1, <3>1, AppendOwn
    <3>2. CASE x \notin op.names
      BY <2>1, <2>2, <2>3, <2>4, <3>2, AppendBeside
    <3> QED BY <3>1, <3>2
  <2>5. ASSUME NEW x \in Names, NEW i \in 1 .. copied'[r], LastCopied(r, x, i)'
        PROVE  LeftWith(p, content'[r][x], r, x, Returned(i))
    <3>1. i \in Nat /\ 1 <= i /\ i <= n
      BY <1>1, <2>2
    <3>2. x \in batch[r][i] /\ \A j \in i + 1 .. n : x \notin batch[r][j]
      BY <2>2, <2>5 DEF LastCopied
    <3>3. CASE i = n
      <4>1. x \in op.names /\ op.value = Returned(i)
        BY <1>4, <3>2, <3>3
      <4> QED BY <1>4, <2>1, <4>1, AppendOwn
    <3>4. CASE i # n
      <4>1. i \in 1 .. copied[r] /\ n \in i + 1 .. n
        BY <1>1, <3>1, <3>4
      <4>2. \A j \in i + 1 .. copied[r] : j \in i + 1 .. n
        BY <1>1, <3>1
      <4>3. LastCopied(r, x, i) /\ x \notin op.names
        BY <1>4, <3>2, <4>1, <4>2 DEF LastCopied
      <4> QED BY <2>1, <2>2, <2>3, <4>1, <4>3, AppendBeside
    <3> QED BY <3>3, <3>4
  <2> QED BY <2>2, <2>4, <2>5 DEF Delivers
<1> QED BY <1>5, <1>6, <1>7 DEF DeliveryInv

(* Everything r will ever copy is in its stream when the event is recorded. *)
LEMMA RecordEventDelivers ==
    ASSUME IInv, DeliveryInv, NEW r \in Runs, RecordEvent(r)
    PROVE  DeliveryInv'
<1> USE DEF IInv
<1>1. PICK op \in Ops : op = Record(r)
  BY RecordTyped
<1>2. Enqueue(StreamOf[r], op) /\ op.run = r /\ op.names = {} /\ op.records = event[r]
  BY <1>1 DEF RecordEvent, RecordStream, Record
<1>3. CopiesPlaced'
  BY <1>2, EnqueuePlaced DEF DeliveryInv
<1>4. ASSUME NEW u \in Runs, u # r PROVE Delivers(u)'
  <2>1. Untouched(u)
    BY <1>4 DEF RecordEvent, Untouched, TypeOK
  <2> QED BY <1>2, <1>4, <2>1, EnqueueOthers
<1>5. Delivers(r)'
  <2> DEFINE q == queue[StreamOf[r]]
             p == queue'[StreamOf[r]]
  <2>1. q \in Seq(Ops) /\ p = Append(q, op)
    BY <1>2, StreamTyped DEF Enqueue, TypeOK
  <2>2. /\ pc[r] = "final" /\ pc'[r] \in {"held", "dropping"} /\ ~synced'[r]
        /\ UNCHANGED <<content, batch, copied, written, event>>
        /\ copied[r] = Len(batch[r]) /\ (pc'[r] = "held" => written[r] = Names)
    BY DEF RecordEvent, SyncedHeld, TypeOK
  <2>3. /\ \A x \in written[r] : Reaches(q, content[r][x], r, x)
        /\ \A x \in Names : \A i \in 1 .. copied[r] :
               LastCopied(r, x, i) => LeftWith(q, content[r][x], r, x, Returned(i))
    BY <2>2 DEF DeliveryInv, Delivers
  <2> HIDE DEF q
  <2>4. \A x \in written'[r] : Reaches(p, content'[r][x], r, x)
    BY <1>2, <2>1, <2>2, <2>3, AppendOther
  <2>5. ASSUME NEW x \in Names, NEW i \in 1 .. copied'[r], LastCopied(r, x, i)'
        PROVE  LeftWith(p, content'[r][x], r, x, Returned(i))
    <3>1. LastCopied(r, x, i)
      BY <2>2, <2>5 DEF LastCopied
    <3>2. i \in 1 .. copied[r] /\ content'[r][x] = content[r][x]
      BY <2>2
    <3>3. LeftWith(q, content[r][x], r, x, Returned(i))
      BY <2>3, <3>1, <3>2
    <3>4. LeftWith(Append(q, op), content[r][x], r, x, Returned(i))
      <4>1. op.names = {}
        BY <1>2
      <4> QED BY <2>1, <3>3, <4>1, AppendOther
    <3> QED BY <2>1, <3>2, <3>4
  <2>6. Followed(p, r, event'[r])
    <3>1. /\ DOMAIN q = 1 .. Len(q) /\ Len(q) \in Nat /\ DOMAIN p = 1 .. Len(q) + 1
          /\ p[Len(q) + 1] = op
      BY <2>1, Appended
    <3>2. ~Writes(p, Len(q) + 1, r)
      BY <1>2, <3>1 DEF Writes
    <3>3. ASSUME NEW i \in DOMAIN p, Writes(p, i, r)
          PROVE  Len(q) + 1 \in DOMAIN p /\ Len(q) + 1 > i
      BY <3>1, <3>2, <3>3
    <3> QED BY <1>2, <2>2, <3>1, <3>3 DEF Followed
  <2> QED BY <2>2, <2>4, <2>5, <2>6 DEF Delivers
<1> QED BY <1>3, <1>4, <1>5 DEF DeliveryInv

LEMMA SynchronizeDelivers ==
    ASSUME IInv, DeliveryInv, NEW r \in Runs, Synchronize(r)
    PROVE  DeliveryInv'
<1> USE DEF IInv
<1>1. CopiesPlaced'
  BY DEF Synchronize, DeliveryInv, CopiesPlaced
<1>2. ASSUME NEW u \in Runs, u # r PROVE Delivers(u)'
  <2>1. Untouched(u) /\ Beside(u)
    BY <1>2 DEF Synchronize, Untouched, Beside, TypeOK
  <2> QED BY <2>1, UntouchedDelivers DEF DeliveryInv
<1>3. NoneWrites(queue[StreamOf[r]], r)
  <2>1. PICK e \in Events : event[r] = {e}
    BY DEF Synchronize, TypeOK
  <2>2. EventComplete(e) /\ Followed(queue[StreamOf[r]], r, {e})
    BY <2>1 DEF Synchronize, DeliveryInv, Delivers
  <2> QED BY <2>2, StreamTyped DEF EventComplete, Followed, NoneWrites
<1>4. Delivers(r)'
  <2>1. Delivers(r) /\ pc[r] = "held" /\ synced'[r]
        /\ UNCHANGED <<pc, event, batch, copied, written, content, queue>>
    BY DEF Synchronize, DeliveryInv, TypeOK
  <2>2. \A x, i : LastCopied(r, x, i)' <=> LastCopied(r, x, i)
    BY <2>1 DEF LastCopied
  <2> QED BY <1>3, <2>1, <2>2 DEF Delivers
<1> QED BY <1>1, <1>2, <1>4 DEF DeliveryInv

(* A tensor of r changes only when a copy of r completes, on r's stream.    *)
LEMMA GpuStepDelivers ==
    ASSUME IInv, DeliveryInv, NEW s \in Streams, GpuStep(s)
    PROVE  DeliveryInv'
<1> USE DEF IInv
<1> DEFINE op == Head(queue[s])
<1>1. /\ queue[s] \in Seq(Ops) /\ queue[s] # <<>> /\ queue' = [queue EXCEPT ![s] = Tail(@)]
      /\ content' = [content EXCEPT ![op.run] =
             [x \in Names |-> IF x \in op.names THEN op.value ELSE @[x]]]
      /\ UNCHANGED hostVars
  BY DEF GpuStep, TypeOK
<1>2. op = queue[s][1] /\ 1 \in DOMAIN queue[s] /\ op \in Ops
  BY <1>1
<1>3. op.run \in Runs /\ op.names \subseteq Names
  BY <1>2 DEF Ops
<1>4. op.names # {} => s = StreamOf[op.run] /\ op.value # Unset
  BY <1>2 DEF DeliveryInv, CopiesPlaced
<1> HIDE DEF op
<1>5. CopiesPlaced'
  <2> SUFFICES ASSUME NEW t \in Streams, NEW i \in DOMAIN queue'[t], queue'[t][i].names # {}
               PROVE  t = StreamOf[queue'[t][i].run] /\ queue'[t][i].value # Unset
    BY DEF CopiesPlaced
  <2>1. \E j \in DOMAIN queue[t] : queue'[t][i] = queue[t][j]
    BY TailAt
  <2> QED BY <2>1 DEF DeliveryInv, CopiesPlaced
<1>6. ASSUME NEW r \in Runs PROVE Delivers(r)'
  <2> DEFINE q == queue[StreamOf[r]]
             p == queue'[StreamOf[r]]
  <2>1. \A x \in Names : content'[r][x] =
            IF r = op.run /\ x \in op.names THEN op.value ELSE content[r][x]
    BY <1>1, <1>3 DEF TypeOK
  <2>2. Delivers(r) /\ UNCHANGED <<pc, event, batch, copied, written, synced>>
    BY <1>1 DEF hostVars, DeliveryInv
  <2>3. \A x, i : LastCopied(r, x, i)' <=> LastCopied(r, x, i)
    BY <2>2 DEF LastCopied
  <2>4. CASE StreamOf[r] # s
    <3>1. p = q
      BY <1>1, <2>4, StreamTyped DEF TypeOK
    <3>2. \A x \in Names : content'[r][x] = content[r][x]
      BY <1>4, <2>1, <2>4
    <3>3. Untouched(r)
      <4>1. content'[r] = content[r]
        BY <3>2, <1>1, <1>3 DEF TypeOK
      <4> QED BY <2>2, <4>1 DEF Untouched
    <3> QED BY <2>2, <3>1, <3>3, UntouchedDelivers DEF Beside
  <2>5. CASE StreamOf[r] = s
    <3>1. q \in Seq(Ops) /\ q # <<>> /\ p = Tail(q) /\ q[1] = op
      BY <1>1, <1>2, <2>5, StreamTyped DEF TypeOK
    <3>2. written[r] \subseteq Names /\ written'[r] = written[r]
      BY <2>2 DEF TypeOK
    <3>3. /\ pc[r] \in {"idle", "prepared"} => written[r] = {}
          /\ pc[r] \in {"held", "dropping"} => copied[r] = Len(batch[r])
          /\ pc[r] = "held" => written[r] = Names
          /\ pc[r] \in {"held", "dropping"} /\ ~synced[r] => Followed(q, r, event[r])
          /\ synced[r] => NoneWrites(q, r)
          /\ \A x \in written[r] : Reaches(q, content[r][x], r, x)
          /\ pc[r] \in {"final", "held", "dropping"} =>
                 \A x \in Names : \A i \in 1 .. copied[r] :
                     LastCopied(r, x, i) => LeftWith(q, content[r][x], r, x, Returned(i))
      BY <2>2 DEF Delivers
    <3> HIDE DEF q, p
    <3>4. ASSUME NEW x \in Names
          PROVE  /\ content'[r][x] = IF WritesTo(q, 1, r, x) THEN q[1].value ELSE content[r][x]
                 /\ WritesTo(q, 1, r, x) => q[1].value # Unset
      BY <1>4, <2>1, <3>1 DEF WritesTo
    <3>5. \A e : /\ NoneWrites(q, r) => NoneWrites(p, r)
                 /\ Followed(q, r, e) => Followed(p, r, e)
      <4> TAKE e
      <4>1. WritesTo(q, 1, r, Unset) => q[1].value # Unset
        BY <1>4, <3>1 DEF WritesTo
      <4>2. PICK d : d = IF WritesTo(q, 1, r, Unset) THEN q[1].value ELSE Unset
        OBVIOUS
      <4> QED BY <3>1, <4>1, <4>2, TailKeeps
    <3>6. \A x \in Names : \A v :
              /\ Reaches(q, content[r][x], r, x) => Reaches(p, content'[r][x], r, x)
              /\ LeftWith(q, content[r][x], r, x, v) => LeftWith(p, content'[r][x], r, x, v)
      BY <3>1, <3>4, TailKeeps
    <3>7. /\ pc'[r] \in {"idle", "prepared"} => written'[r] = {}
          /\ pc'[r] \in {"held", "dropping"} => copied'[r] = Len(batch'[r])
          /\ pc'[r] = "held" => written'[r] = Names
          /\ pc'[r] \in {"held", "dropping"} /\ ~synced'[r] => Followed(p, r, event'[r])
          /\ synced'[r] => NoneWrites(p, r)
          /\ \A x \in written'[r] : Reaches(p, content'[r][x], r, x)
      BY <2>2, <3>2, <3>3, <3>5, <3>6
    <3>8. pc'[r] \in {"final", "held", "dropping"} =>
                 \A x \in Names : \A i \in 1 .. copied'[r] :
                     LastCopied(r, x, i)' => LeftWith(p, content'[r][x], r, x, Returned(i))
      BY <2>2, <2>3, <3>3, <3>6
    <3> QED BY <3>7, <3>8 DEF p, Delivers
  <2> QED BY <2>4, <2>5
<1> QED BY <1>5, <1>6 DEF DeliveryInv

-----------------------------------------------------------------------------
LEMMA DeliveryStep ==
    ASSUME IInv, DeliveryInv, [Next]_vars
    PROVE  DeliveryInv'
<1> USE DEF IInv
<1>1. ASSUME NEW r \in Runs, Checkout(r) PROVE DeliveryInv'
  <2>1. CopiesPlaced'
    BY <1>1 DEF Checkout, DeliveryInv, CopiesPlaced
  <2>2. Delivers(r)'
    <3>1. pc'[r] = "prepared" /\ written'[r] = {} /\ ~synced'[r]
      BY <1>1 DEF Checkout, DeliveryInv, Delivers, SyncedHeld, TypeOK
    <3> QED BY <3>1, OuterDelivers
  <2>3. ASSUME NEW u \in Runs, u # r PROVE Delivers(u)'
    <3>1. Untouched(u) /\ Beside(u)
      BY <1>1, <2>3 DEF Checkout, Blank, Untouched, Beside, TypeOK
    <3> QED BY <3>1, UntouchedDelivers DEF DeliveryInv
  <2> QED BY <2>1, <2>2, <2>3 DEF DeliveryInv
<1>2. ASSUME NEW r \in Runs,
             Submit(r) \/ Receive(r) \/ EarlyDone(r) \/ Awaited(r) \/ CopyFinalFails(r)
      PROVE  DeliveryInv'
  <2>1. UNCHANGED <<queue, content, written, synced>>
    BY <1>2 DEF Submit, Receive, EarlyDone, Awaited, CopyFinalFails
  <2>2. CopiesPlaced'
    BY <2>1 DEF DeliveryInv, CopiesPlaced
  <2>3. Delivers(r)'
    <3>1. /\ pc'[r] \in {"waiting", "early", "final", "draining"} /\ ~synced'[r]
          /\ pc'[r] = "final" => copied'[r] = 0
      BY <1>2, <2>1
         DEF Submit, Receive, EarlyDone, Awaited, CopyFinalFails, SyncedHeld, TypeOK
    <3> QED BY <2>1, <3>1, InnerDelivers DEF DeliveryInv
  <2>4. ASSUME NEW u \in Runs, u # r PROVE Delivers(u)'
    <3>1. Untouched(u) /\ Beside(u)
      BY <1>2, <2>4
         DEF Submit, Receive, EarlyDone, Awaited, CopyFinalFails, Untouched, Beside, TypeOK
    <3> QED BY <3>1, UntouchedDelivers DEF DeliveryInv
  <2> QED BY <2>2, <2>3, <2>4 DEF DeliveryInv
<1>3. CASE UNCHANGED vars
  <2>1. CopiesPlaced'
    BY <1>3 DEF vars, DeliveryInv, CopiesPlaced
  <2>2. ASSUME NEW u \in Runs PROVE Delivers(u)'
    <3>1. Untouched(u) /\ Beside(u)
      BY <1>3 DEF vars, Untouched, Beside
    <3> QED BY <3>1, UntouchedDelivers DEF DeliveryInv
  <2> QED BY <2>1, <2>2 DEF DeliveryInv
<1>4. ASSUME NEW r \in Runs, Release(r) PROVE DeliveryInv'
  BY <1>4, ReleaseDelivers
<1> QED
  BY <1>1, <1>2, <1>3, <1>4, CopyEarlyDelivers, CopyFinalDelivers, RecordEventDelivers,
     SynchronizeDelivers, GpuStepDelivers
     DEF Next, RunStep, FailureStep, CallerStep, Refused, EarlyFails, AllocationFails,
         Drained, DropResponse

(* What every pending copy will leave in the tensors of its sink is known:  *)
(* the inductive invariant of the delivery properties.                      *)
THEOREM DeliveryInvariant == Spec => []DeliveryInv
<1>1. Init => DeliveryInv
  <2> SUFFICES ASSUME Init PROVE DeliveryInv
    OBVIOUS
  <2>1. \A s \in Streams : DOMAIN queue[s] = {}
    BY DEF Init
  <2> QED BY <2>1 DEF Init, DeliveryInv, CopiesPlaced, Delivers
<1>2. IInv /\ DeliveryInv /\ [Next]_vars => DeliveryInv'
  BY DeliveryStep
<1> QED BY <1>1, <1>2, InductiveInvariant, PTL DEF Spec

(* Once synchronize returned, nothing of the run is pending, so a tensor    *)
(* holds what it is left with.                                              *)
LEMMA Settled ==
    ASSUME NEW q, NEW r, NEW x, NEW c, NEW v, NoneWrites(q, r)
    PROVE  /\ Reaches(q, c, r, x) => c # Unset
           /\ LeftWith(q, c, r, x, v) => c = v
BY DEF NoneWrites, Writes, WritesTo, Reaches, LeftWith

(* After synchronize a tensor of the sink holds the copy of the last        *)
(* response of the returned batch that carries it, whatever other runs did  *)
(* on the stream and whichever earlier responses carried it too.            *)
THEOREM LastResponseDelivered == Spec => []DeliveredLast
<1>1. ASSUME IInv, DeliveryInv PROVE DeliveredLast
  <2> SUFFICES ASSUME NEW r \in Runs, pc[r] = "held", synced[r],
                      NEW x \in Names, NEW i \in DOMAIN batch[r], IsLastCarrier(r, x, i)
               PROVE  content[r][x] = Returned(i)
    BY DEF DeliveredLast
  <2>1. batch[r] \in Seq(SUBSET Names)
    BY <1>1 DEF IInv, TypeOK
  <2>2. DOMAIN batch[r] = 1 .. Len(batch[r]) /\ Len(batch[r]) \in Nat
    BY <2>1
  <2>3. /\ copied[r] = Len(batch[r]) /\ NoneWrites(queue[StreamOf[r]], r)
        /\ LastCopied(r, x, i) =>
               LeftWith(queue[StreamOf[r]], content[r][x], r, x, Returned(i))
    BY <1>1, <2>2 DEF DeliveryInv, Delivers
  <2>4. ASSUME NEW j \in i + 1 .. copied[r] PROVE x \notin batch[r][j]
    <3>1. j \in DOMAIN batch[r] /\ ~(j <= i)
      BY <2>2, <2>3
    <3> QED BY <3>1 DEF IsLastCarrier
  <2>5. LastCopied(r, x, i)
    BY <2>4 DEF LastCopied, IsLastCarrier
  <2> QED BY <2>3, <2>5, Settled
<1> QED BY <1>1, InductiveInvariant, DeliveryInvariant, PTL

(* After synchronize every tensor of the sink was written by a copy of this *)
(* run: ensure_all_written looks at flags set when copies are enqueued, and *)
(* none of the flags is of another run or of a copy that never completes.   *)
THEOREM EveryTensorWritten == Spec => []AllWritten
<1>1. ASSUME IInv, DeliveryInv PROVE AllWritten
  <2> SUFFICES ASSUME NEW r \in Runs, pc[r] = "held", synced[r], NEW x \in Names
               PROVE  content[r][x] # Unset
    BY DEF AllWritten
  <2>1. /\ NoneWrites(queue[StreamOf[r]], r)
        /\ Reaches(queue[StreamOf[r]], content[r][x], r, x)
    BY <1>1 DEF DeliveryInv, Delivers
  <2> QED BY <2>1, Settled
<1> QED BY <1>1, InductiveInvariant, DeliveryInvariant, PTL
=============================================================================
